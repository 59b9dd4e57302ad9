# mstro in TLA+

mstro is a CLI server (Node, TypeScript) that stands between a browser and
coding agents on the user's machine.  The browser talks to it over a WebSocket,
directly or through a relay platform; the server runs headless Claude Code or
OpenCode processes, keeps their history, retries them, executes boards of issues
with them, and offers terminals, files and git.  This directory holds TLA+
models of the parts of it whose correctness depends on the order of things,
TLC configurations that check them on small instances, and proofs that TLAPS
checks for every instance.

Paths below are relative to `src/`.  `PROJECT.json` lists the components, the
runs, the mutants every property is tried against, the source lines each
definition stands for, the hazards, the findings and the theorems.

## 1. Inventory

| Component | State it keeps | Operations | Talks to | What is hard | What makes it correct |
|---|---|---|---|---|---|
| Plan executor (`server/services/plan/executor.ts`, `review-gate.ts`, `readiness-planner.ts`, `issue-writer.ts`, `board-config.ts`) | a status and flags in memory; issue statuses, review files and the board's status on disk | execute (a board or an epic), pause, stop, resume; a loop of waves | headless agents, reviewers, the tool permissions, the plan directory | files that agents, executor and user all write; stop between two awaits; a crash in a wave; caps that together must end the loop | nothing runs before its blockers are done; nothing is done unreviewed; the loop ends |
| Plan reconciliation and dependencies (`state-reconciler.ts`, `dependency-resolver.ts`) | none: derived statuses and orders | derive epic statuses, which issues are ready | executor, plan handlers | graphs with cycles, missing issues | the derived status follows the children |
| Tool permissions (`config-installer.ts`) | `.claude/settings.json`, its backup | install, uninstall, recover | executor | a crash inside an installation | the user's settings come back |
| Improvisation session (`server/cli/improvisation-session-manager.ts`, `server/cli/retry/*`, `improvisation-movements.ts`) | the execution flags of a tab, its history file, the Claude session id, retry counters | execute a prompt, cancel, auto-continue, resume after a restart | headless runner, tab handlers | cancel between two awaits; five retry strategies that feed each other; a restart in a movement | each prompt ends exactly once, is cancelled when it is told to be, is retried boundedly |
| Tab events (`websocket/tab-event-buffer.ts`, `tab-event-replay.ts`, `session-initialization.ts`) | a numbered ring of events per tab | record and broadcast, replay since a number, snapshot | sessions, the web | reconnects, evictions, restarts of the numbering | the web misses no event |
| WebSocket sessions (`websocket/handler.ts`, `session-handlers.ts`, `tab-handlers.ts`, `session-registry.ts`) | sessions by tab, the set of connections, the registry file | init, resume, remove, rename, reorder tabs | improvisation sessions | a connection that closes while its session executes | a session that executes survives its connection |
| Message ids, questions (`msg-id-tracker.ts`, `ask-user-question-bridge.ts`) | ids seen, questions pending | record, register, resolve, cancel, time out | the web, the MCP bouncer | retransmission, eviction, a late answer | a prompt runs once; a question is answered once |
| Platform connection (`platform.ts`, `platform-token-lifecycle.ts`, `platform-credentials.ts`) | a socket, a heartbeat, a reconnect timer, attempts, the token | connect, pair, heartbeat, reconnect, disconnect, refresh | the relay | callbacks of sockets that were replaced; timers | one live socket; it reconnects; it gives up |
| Engines (`engines/opencode/*`, `engines/claude/*`, `engines/factory.ts`) | a server subprocess and its state; sessions in it; event queues | start, restart, shut down; send, cancel, dispose | improvisation sessions, the file system | start racing a restart, a crash racing a health probe | one subprocess; a turn ends once |
| Headless runner (`server/cli/headless/*`) | a process, its timers, a tool watchdog, a stall assessor | spawn, watch, kill, retry | Claude Code | a timer racing the end of the process | a hung process is killed, a working one is not |
| MCP bouncer (`server/mcp/*`) | a cache of decisions | review an operation | Claude Code's permission prompt | a stale cached decision | denied stays denied within a session |
| Terminals (`services/terminal/*`, `websocket/terminal-handlers.ts`) | PTYs by id, subscribers, scrollback | create, attach, input, resize, close | the web | exit racing attach | output reaches those attached |
| Files (`file-upload-handler.ts`, `file-download-handler.ts`, `file-explorer-*`, `file-search-handlers.ts`) | uploads in progress | start, chunk, complete, cancel | the web | chunks out of order, duplicates, two uploads of one file | a file is what was sent |
| Git (`git-*.ts`) | the repository's worktrees, branches | worktrees, branches, commits, pull requests | git | a step of several failing | a failed merge leaves nothing half done |
| Quality (`quality-*.ts`) | reports on disk, running scans | scan, review, grade | tools, headless agents | two scans of one directory | a grade follows from its findings |
| Instances, ports, settings, analytics, auth, routes, `bin/` | files under `~/.mstro`, a port | register, find, clean up | the file system | two CLIs that start at once | one live record per running CLI |

## 2. Plan

Done, in this order:

1. **PlanExecutor**, with **IssueLifecycle** as what it promises of one issue.
2. **ImprovSession**: one session of a tab.
3. **TabStream** (the numbered events, reconnects, restarts) and **TabSessions**
   (which session a command reaches).
4. **PlatformConnection**: sockets, timers, the relay's context.
5. **OpenCodeServer**, **EngineContract** and **OpenCodeEngine**, which implements
   it; **HeadlessRun** and **ClaudeEngine** on top of it; **ResilientRun**,
   **HeadlessStream**, **Bouncer**, **Questions**. `Engines` puts them side by side.
6. **Terminals**, **FileTransfer**, **WorktreeMerge**, **TabWorktrees**,
   **QualityRuns**, **QualityGrading**, side by side in `Workspace`.
7. **Instances** and **PlanBoards**, beside PlatformConnection in `Machine`.
8. Proofs: `PlanExecutorProofs`, `ImprovSessionProofs`, `TabStreamProofs`,
   `TabSessionsProofs`, `PlatformConnectionProofs`, `MachineProofs`,
   `EnginesProofs`, `WorkspaceProofs`.

Left, the most valuable first:

- compositions: a session with its tab's event stream, two tabs that hold one
  session, ImprovSession over the runs of HeadlessRun;
- several tabs in TabSessions, the sprint scope and the boardless mode of the
  executor, the backup file of the tool permissions;
- the platform's token, once its other side (login, platform) is written down.

## 3. How to read the models

An action is the code Node runs without giving up its turn: from one `await`
(or callback) to the next.  What an awaited file operation does is part of the
action that follows it.  Data is abstracted to what the properties tell apart.
Every bound is a CONSTANT called `Max...` or a set whose size is the bound.
Some helpers come in two forms: the one the model uses, and before it the form
it would take with a plausible bug.  `PROJECT.json` says under "mutants" which
property fails when one replaces the other.

Where the code has a race that breaks what a property is about, the race is in the
model and a history variable marks what it may have spoiled: `torn` webs of
TabStream, `overlapped` subprocesses, `early` disposals, `crossed` shells, `shared`
and `torn` uploads, `late` answers of git, boards that went `astray`, the `own`
prompt of an activation.  The property then says what holds of all the rest, so
that it names the only ways in which things go wrong; the findings quote what the
code says of them.  One constant alone chooses between two situations of one
piece of code: `SlowEta`, whether the ETA profile is read from disk or the cache.

The parts that `Engines`, `Workspace` and `Machine` put side by side share no
state.  A behaviour there is one of `part`, chosen at the start, so that the states
add up instead of multiplying, and one run answers for all.  The parts that do
share state are composed: ClaudeEngine extends HeadlessRun, OpenCodeEngine
contains the wrapper of `factory.ts`, TabSessions the handler, the registry and the
managers, PlatformConnection the connection and the relay.

## 4. The modules

### PlanExecutor, IssueLifecycle

`disk` is the status line of each issue file, `reviews` and `approved` the
review files, `board` the board's status, `perms` whether the agents' tool
permissions are installed, `status`, `shouldStop`, `shouldPause` the executor's
fields; `pc`, `wave`, `left`, `cur`, `agents`, `killed` describe one activation
of the wave loop.  `Runs` is the set of activations that can overlap: the code
does not prevent two (finding `plan_two_loops`), and `Runs = {r1}` is a user who
waits for a loop to wind down.

A loop goes `load -> mark -> agents -> reconcile -> review -> load`; marking and
reviewing go issue by issue, as the code awaits each file.  The web user's
actions (`Stop`, `Pause`, `Resume`, `Execute`, edits, deletion, creation,
archiving) and `Crash` come between any two of them.  `load` runs up to four
cycles of recovery, readiness and stall detection; `activateBoard` is merged with
it.  An issue's status can be written by an agent (`AgentStatuses`) or by the
user, who writes it quoted (`quoted`): the two parsers of the code disagree about
quotes.  Which ready issue comes first is left open (only how many fit into a
wave is kept).  'starting' is never observable, and "none" stands for the absence
of an executor object.

`IssueLifecycle` says what the board promises of one issue: open, working,
reviewing, done; a review only after work, done only after a review, no more
than `MaxReviews` of them.  `ImplementsLifecycle` maps the executor to it.

Left out: boards by sprint, the legacy mode without boards (with the catch branch
of revertIncompleteIssues), published outputs and the progress log, edits of other
fields, prefix collisions of review file names, updates lost between the read and
the write of one file.  `cleanupPlanResources` has no caller.  Agents die with
the CLI.  A review that a missing reviewer passes counts as passed, as it does in
the code.

### ImprovSession

One session of a tab: `pc` is where an activation of `executePrompt` stands
(`eta`, `launch`, `running`, `assess`, `best`, `finish`, ...), `retryNumber`,
`result` and the retry flags are the locals of the retry loop, `isExecuting`,
`cancelled`, `currentRunner`, `movements`, `claudeSessionId` the manager's fields,
`savedSessionId` what the history file knows, `webExecuting` what the web
believes.  `own` is the prompt an activation was called with: the user's task, or
the bare "continue" of an auto-continue.  The five retry
strategies are disjuncts of one step each (`RetryCrash`, `RetryContextLoss`,
`RetryToolTimeout`, `RetryUnfinished`, best result), in the order the code
tries them.  `Execs` is the set of activations that can overlap; with one, the
user waits for `isExecuting` to fall.  `SlowEta = FALSE` says the ETA profile is
in its cache, so that no other code runs in that await.  Retries that begin a
fresh session send the activation's own prompt; for an auto-continue that tells an
agent who knows nothing of the task to continue (finding
`retry-recovery-strategies.ts:241`), so GoOnIsResumed speaks of the user's prompts.

Claude's session ids are known or unknown.  A cancel during the choice of the best
result records the movement as done, as in the code.  Left out: the approval
callback, startNewSession during an execution, the output queue, and clearHistory,
which has no caller.

### TabStream

The buffer gives out `nextSeq` and has forgotten everything up to
`evictedThroughSeq`; `total` counts the events of the tab over all its buffers.
`Emit` records, evicts a prefix (its size is open: it stands for
the limits on bytes and age; `MaxBuffered` for the limit on the count) and
broadcasts.  A web (`hears`, `opened`, `asked`, `synced`, `seen`, `lastSeen`) connects, asks with the number
it last saw, and is answered by a replay or a snapshot.  As `tab-broadcast.ts` says, it records the
number of every event it receives, also of a live one that overtakes the answer to its
request: if its link is lost between the two, that number passes events it was never
sent, and the web is `torn`.  A restart, or a
closed tab, makes a new numbering; a web whose number comes from an earlier one is
`stale`.  GapsAreTears says that nothing else makes a web miss an event; `tab_tear`
shows that such a web is not told.  The web itself is not in this repository.

### TabSessions

Two webs, one tab, two sessions.  `conns` and `tabMap` are the handler's map from
connections to tabs to sessions, `live` is `ctx.sessions`, `running` and
`continuing` say what a manager is doing, `files` the history files, `regSession`,
`persisted`, `override` the registry's record of the tab, `known` the message ids
seen.  An action is a whole handler: none of them awaits.  `initTab` is three
actions (`Reattach`, `ResumeFromDisk`, `StartSession`), in the order the code tries
them.  A prompt is sent again until it is acknowledged (`outbox`, `Lose`).
`abandoned` sessions were replaced by `new`, or destroyed in the gap between a
movement and the setImmediate that continues it.

Session ids are fresh.  View-only connections, worktrees, names, order and other
tabs are left out; cancelPendingQuestionsForTab has no caller.

### PlatformConnection

`state` is the readyState of each socket, `ws` the one the connection's field
points to; `reconnectTimeout`, `reconnectAttempts`, `heartbeatInterval`,
`missedPongs`, `everConnected`, `isIntentionallyClosed` and
`protocolUpgradeRequired` are the fields of the class, `beats` the timers that
really tick.  `SocketClosed` is handleSocketClose with its four endings:
intentional, too old, authentication, anything else.  `relay`, `connected` and
`pending` are createPlatformRelay's.  `gaveUp` is what the user was last told.
Sockets and contexts are used again, so two of each stand for any number.  The
connection starts with its timer set, for createPlatformRelay connects at once;
`Disconnect` is the shutdown of the CLI and comes once.  The delays themselves are
left out.  The platform opens, refuses, pairs, closes and loses sockets as it
likes; it pairs a socket once and speaks of webs only after that.

### OpenCodeServer

`server` holds the fields of `OpenCodeServerManager` (status, current subprocess,
base URL, start promise, restart timers, attempts, shut down or not),
`serverProcess` each subprocess with the phase of the `spawnOnce` that made it: the
readiness line, the health probe, the moment between the probe's answer and
`wireCrashHandler`.  `ServerStart`, `RestartTimer`, `ReadinessLine`,
`ProbeAnswered`, `ProbesFail`, `ServerReady`, `ServerExit` and `ServerShutdown`
come in every order.  Delays are "later".  `ServerStart` has no guard against a
restart that waits for its timer, as the factory calls it whenever an engine is first
used: `startMet` says that this happened, and `overlapped` names the subprocesses of
starts under way at once (finding `OpenCodeServerManager.ts:505`).

### EngineContract, OpenCodeEngine

The contract is what `engines/types.ts` and `EngineEvent.ts` say of the stream of any
engine; `openCodeStream` of OpenCodeEngine is that stream.  `openCode` holds the
fields of the lazy wrapper and of its inner engine: the start, the pump of server
events, the calls announced, the queue and a consumer that waits, the stages of
`dispose`.  `openCodeReview` follows each permission request through the bouncer.
The server and its SDK are external: repeated and late updates, tokens that fall,
fatal errors.  Dispose may come at any point; while the server starts it finds no
inner engine (`early`), and the one made after it lives on (finding
`engines/factory.ts:89`).

### HeadlessRun, ClaudeEngine

One run of the Claude CLI: its process (works, hangs, signalled, killed), silence
counted in ticks of the stall check, the assessments that extend it, the
watchdog's timers and the kill ladder.  Warning, kill and hard cap are 1, 2 and 3
ticks; what matters is their order.  An extension may be longer than the deadline it
extends (1 and 3 ticks for 1 to 180 minutes against 30).  The assessor may give any verdict at any time.
`ClaudeEngine` is a conversation over such runs, with its queue and consumer,
`cancel` and `dispose`.  Left out: parsing output lines, how long the watchdog
estimates a tool to take.

### ResilientRun

The locals of `ResilientRunner.run`: retry loop, budget of retries and
auto-continues, the session to resume, best, last and chosen result.  Each retry
strategy is an action (`ToolTimeout`, `SignalCrash`, `ContextLoss`,
`PrematureCompletion`), tried in the code's order; the AI's judgements are choices.
A result is how it ended, whether it named a session, and its score.  An attempt
whose process cannot be spawned rejects, and run() with it (`AttemptRejects`).

### HeadlessStream

A piece of text is its number.  It may be held back as a possible timeout message
(`line`), after one (`post`) and while a resumed session has not shown that it has
its context (`resume`); `shown` is what the user saw and `result` what the end of
the run hands over.

### Bouncer

An operation is the set of pattern tables it matches (`Features`).  `review` is
where each `reviewOperation` stands: examined (cache, patterns), at a classifier
(a child or a session on the server), a second attempt, the deletion of that
session, answered.  `decisionCache` is the Map in its order of insertion, with
expiry.  Concurrent reviews share it.

### Questions

`question` is a question's HTTP request, its registration in the bridge, its cards
on the webs, with answers of two webs, the timeout, a lost connection
and a restart of the CLI.

### Terminals

`session` is the map from ids to PTYs, `pty` each PTY with its process and how many
pieces of output were made and flushed, `subscribers` and `listening` the
handlers' maps, `screen` what each web was sent.  Close and the last disconnection
kill the PTY and take the id from the map; the PTY's `onExit` comes later and takes
the id again, which may be another shell's by then: such a shell is `crossed`.  What a
web is sent when it comes later is the scrollback, the latest `Scrollback` pieces, so
that `from` says where it begins.  Pieces are all of one length here; in the code
the scrollback counts characters and drops whole chunks.

### FileTransfer

Uploads to one name, with its free variants numbered.  A stream opens its file
after it was created, writes chunks on its own, and calls back; `cancelUpload`
(by the web, the idle check, the last disconnection) removes the file, whoever else
has it open: `linked` says whose stream still writes into what the name stands for.  A
name is free until a stream has made the file, so that two uploads may get one
(`shared`).  A web may complete an upload at any time, whatever is missing, and send a
chunk after that (`LateChunk`, `torn`).  UploadsIntact therefore speaks of what was
received (`got`), not of what the start announced.

### WorktreeMerge, TabWorktrees

`tree` is what the user has edited in the main worktree, `stashes` git's stash,
`request` where each merge handler stands between two git commands: stash, take its
hash, merge, look the hash up in the list, pop what stands at that position by then.
The user edits, resolves or aborts conflicts, discards blocking edits and asks for a
stash back meanwhile.  `MergeAborted` leaves the tree as it is; what `git merge --abort` throws away in
conflicted files counts as the user's own discard.  `TabWorktrees` follows one worktree
per tab through the map, the registry and restarts, with the git commands that switches,
creations (`asked`) and the head watcher, on a timer of its own (`watched`), wait
for.  History variables are `choice`, where the user moved the tab, `browsed`, the
directories set since, and `late`, where an answer of git may take it that was asked
before the last move, or overtook it.

### QualityRuns, QualityGrading

`run` is where each scan or review stands, `slot` the registry of operations that
allows one for a directory, `active` its record on disk that survives the process,
`reports` the report files, which directories of several names may share.  A
cancelled run goes on until it ends by itself.  `report` of QualityGrading has what a
scan found, what its report keeps of that (the first `KeptFindings`), and what the last
review found; a scan rates the first, a review the other two, and they ask different
things before they leave maintainability out (`installed`, `available`).  Grading
is written as operators over the counts of findings; grades are their ranks, and
positions in a band, floats in the code, are fractions.

### Instances

Each CLI takes the lock (`Look`, `ClearLock`, `CreateLock`, `WaitForLock`, `GiveUpLock`),
reads the list, writes the temporary file, renames it and releases.  Time is
counted in rounds of thirty seconds.  `Killed` may come anywhere, `KilledInLock`
between the making of the lock file and the writing of its time: such a lock is
empty and never stale.  InstancesListed speaks of the time before the first kill,
RegistryHeals of what comes after, an empty lock excepted.

### PlanBoards

`boardStatus` is the status in every board.md, `boardOrder` and `activeBoard` the
workspace file, `webOrder` what each web shows, perhaps out of date, `runWrite` the
status the executor is about to write.  `astray` has the boards about which the two
kinds of file may disagree: those left out by a second scaffold, named in a reorder
from an old view, archived under a write of the executor, or set to or from 'archived'
by `UpdateBoard`, which writes board.md alone.  Archiving or restoring a board brings it
back; of all others BoardsInPlace says that the files agree.

## 5. What the runs show

| Run | Instance | Question and answer |
|---|---|---|
| `plan_waves` | three issues and an epic: b waits for the epic of a, c for itself; one loop, one crash, waves of one or two | dependency order, nothing left in progress, permissions, the end of every run, completion of the board, refinement of IssueLifecycle: all hold |
| `plan_edits` | two independent issues, one ungated; two edits by the user, agents that write done themselves | gate and budget hold against a user who edits, deletes, creates and archives |
| `plan_two_loops` | two loops | refuted: execute during 'stopping' starts a second loop on the same issues |
| `improv_session` | two prompts, up to all retries and auto-continues | every prompt ends, once; a cancel reaches the agent; the web's view agrees: all hold |
| `improv_restart` | the same with a restart of the CLI anywhere | a retried prompt of the user is told only to go on where its conversation is resumed |
| `improv_lost_start` | a slow ETA profile | refuted: a cancel in that await leaves a record pending for ever |
| `tab_stream` | two webs that come and go, four events, a buffer of two, one restart or removal of the tab | a web misses an event only if its number is of an earlier numbering or passed events it was never sent |
| `tab_tear` | one web, no restart | refuted: what a web has not seen has larger numbers than it recorded; a link lost between a live event and the answer to its initTab |
| `tab_sessions` | two webs, two sessions, one prompt resent at will, one restart | prompts run once and an ack means they ran, the start-up sweep takes only tabs whose history was deleted, commands reach the session that executes |
| `machine` | two sockets, two contexts, two attempts, two pending messages of three; three CLIs, one killed; two webs, two boards | every end of trying was announced, one context, messages in order, a connection that is down opens or gives up; the list of CLIs is right and heals; boards stay in place |
| `engines` | three subprocesses with two restarts and a crash; two calls and a permission; a tool, a prompt and one extension; two retries and an auto-continue under each policy; four pieces of text; two reviews and a cache of one; a question, two webs, one restart | a server is orphaned only by starts that overlap; the contract kept; text accounted for; retries resume their own session and cost nothing but where a process cannot be spawned; only decisions cached; every wait and every run ends |
| `workspace` | a terminal, two webs, two PTYs; two uploads and a download of two chunks; two merges, two edits; a tab, two worktrees; three runs under two names of one report; scans of three sizes with up to 199 findings, of which 200 are kept, and up to two more | severe findings show and more findings never raise the letter, but for what a review forgets; no edit is lost; tabs stay where they were moved; work is whole; results are current; everything started ends |

WorkIsWhole of `workspace` is the conjunction of the type invariants, TerminalsShowAll,
NoShellForgotten, UploadsIntact and RecordsAgree; WorkEnds of TransfersEnd, MergesEnd
and RunsGetDone.  EveryWaitEnds of `engines` is that of PermissionsSettle, ReviewsEnd,
AskersGoOn and FirstAnswerHolds; EveryRunEnds of ServerRecovers, HungRunEnds,
DisposeEnds, ClaudeDisposeEnds and ResilientReturns.

The refuted properties quote the code or its comments (see "findings", which also
lists what reading the code showed without a run: five requests of the web that
reach no handler, a sprint list that is always empty, a scaffold that unlists
boards, and others).

Bounds: two of a kind are what every one of these races needs (two loops, two
webs, two sessions, two sockets, two merges, two reviews); three where one more
stands by: a third CLI while two fight over a lock, a third subprocess after two
restarts, a third run that finds the slot free again, an issue that blocks itself.
Limits of the code are lowered to the smallest at which both sides of the limit
are reached (`MaxBuffered = 2` of 500 events, `MaxPending = 2` of 100 messages,
`MaxReconnectAttempts = 2` of 10, `MaxRestarts = 2` of 5, `CacheMax = 1` of 200,
`MaxAge = 2` of 4 rounds), or kept (three reviews, three empty waves, the retries
and auto-continues of a session).  `engines` and `workspace` take two to three
minutes each.  Deadlock is not checked: all these systems may be left alone by
their users.

Eight more configurations are kept without being listed as runs; each shows TLC's
counterexample to something one might believe: `PlanExecutorStuckStopping.cfg` (stop
with no loop leaves 'stopping' for ever), `PlanExecutorStop.cfg` (a stop
between choosing a wave and creating its abort controller kills nobody),
`PlanExecutorVerdict.cfg` ('error' after 'complete' when the completed board is
loaded again), `PlanExecutorQuoted.cfg` (an issue the user set to done is put
back to todo), `ImprovContinue.cfg` (a retry resumes with
--continue when the first run never named its session), `ImprovGoOn.cfg` (a fresh
retry of an auto-continue is told only to continue), `ImprovLostPrompt.cfg`
(a restart leaves a pending record) and `TabOverride.cfg` (the engine override of a
tab is lost with the connection).
Beyond the listed instances TLC also refutes CancelReachesAgents, EndsOnce and
WebAgrees with `Execs = {x1, x2}`, and every property of section 3 without the case its
history variable marks: each of those cases does lose what the property is about.

What single runs do not exercise: `plan_waves` has no edits, so the issues that are
blocked, deleted or recreated in a wave are those of `plan_edits`, which in turn has
one loop and no crash; `improv_session` has one activation, so two activations that
overlap, and an auto-continue that overtakes the next prompt, are not in it.

## 6. Fairness

- PlanExecutor (`RunStep`, `AgentExits`): awaited file operations complete; agents and
  reviewers end (the runner's stall assessor and its hard cap kill them, which is
  HungRunEnds of HeadlessRun).  The user owes nothing.
- ImprovSession: an activation goes on whenever it can; runners end for the same
  reason.  No fairness on prompts or cancels.
- PlatformConnection: timers fire, a socket does not stay connecting beyond its
  ten seconds, and close() comes to its end (the `ws` library has its own
  time limit).  The platform owes nothing: Settles allows giving up.
- OpenCodeServer: timers fire (the restart timer is strongly fair, for it needs a
  subprocess of the model to be free, which starts may take and give back), the readiness line comes or its timer does (a
  start ends), and a subprocess told to stop ends, for SIGKILL follows.
- OpenCodeEngine: the pump, the consumer and the stages of dispose go on; a review
  ends; the answer to a permission is strongly fair, since the pump's steps
  alternate with it.  The server's events owe nothing.
- HeadlessRun and ClaudeEngine: the stall check ticks, the kill timer fires, a
  killed process exits.  A process that works owes nothing, one that hangs stays so.
- ResilientRun: an attempt ends (HungRunEnds again) and the loop goes on.
- Bouncer, Questions: classifiers answer, fail or are timed out; HTTP requests end.
- FileTransfer: streams open and write; what nobody goes on with is cancelled by
  the idle check.  WorktreeMerge, QualityRuns: git, tools and agents end.
- Instances: a process that runs takes its steps, and time passes.
- TabStream, TabSessions, Terminals, TabWorktrees, HeadlessStream, QualityGrading and
  PlanBoards state safety only.

## 7. What is proved

tlapm checks eight modules to the last leaf.

`PlanExecutorProofs`
- **TypeCorrect**: any board, dependency graph, number of overlapping loops,
  edits, crashes.
- **ReviewGateHolds**: no issue outside a wave is done without a passed review, for
  any number of loops and any edits, if "done" is not an initial status and
  agents do not write it (or nothing crashes).  ReviewGate alone is not
  inductive: `GateInv` adds that agents belong to the wave of their loop
  (`AgentsBelong`), and `Excused`, which says of every gated issue, in a wave or
  not, why it may be what it is.
- **ReviewBudgetHolds**: with one loop at a time no issue is reviewed more than
  three times, across retries, crashes, deletions and edits.  `BudgetInv` adds
  that the count of the issue under review is below the cap while its reviewer
  runs.  With two loops both may read 2 and review.
- **DependencyOrderHolds**: with one loop and no edits agents run only when
  everything their issue waits for is terminal.  `OrderInv` adds that the blockers
  of the issues of a wave stay terminal from the choice of the wave on
  (`WavesClear`): nothing a loop does makes a terminal issue open again.
- **PermissionsFollowWavesHolds**, with one loop: `PermsInv` ties the installed
  permissions to the points of the loop between marking and the end of a wave.
- **NothingLeftRunningHolds**, with one loop and no edits: `DrainInv` says which
  issues can be in progress or in review at each point of the loop, and that
  'complete' is only reached with nothing left to run.  **BoardCompletedWhenDoneHolds**
  follows from the same invariant.
- **ImplementsLifecycleHolds**, with one loop and no edits, if agents do not write
  "done" or nothing crashes: every step is a step of IssueLifecycle of one issue, an
  interruption, or a stutter under the refinement mapping `Phase`.  `LifeInv` is
  OrderInv and `Picked`: what a loop is about to take up is open, what it reviews is
  no longer in its list, and (unless agents write "done") what it works on is open.

`ImprovSessionProofs`
- **ImprovTypeCorrect** and **GoOnIsResumedHolds** for any number of overlapping
  activations, prompts and restarts: `GoOnSound` says by what a retry that is to go
  on will resume, until it is launched.
- **CancelReachesAgentsHolds**, **EndsOnceHolds**, **WebAgreesHolds** with one
  activation at a time, the ETA profile cached and no restart: the invariant relates
  the point of the activation to the manager's flags.

`TabStreamProofs`: **StreamTypeCorrect**, **GapsAreTearsHolds**: a web that misses
an event counts in an earlier numbering, or lost its link between a live event and the
answer to its request, for any number of webs and events and any buffer.  `StreamInv` says
of every other web that everything up to the number of its request, or without one up to
`lastSeen`, is shown, and that a synced web shows everything (`Sound`); and that who
hears events was answered or waits for it (`Awaits`).

`TabSessionsProofs`: **TabTypeCorrect**, **RunsOnceHolds**,
**SweepsOnlyDeletedHolds**, **CommandsReachTheRunHolds**, for any number of webs,
sessions, messages and restarts: an executing session that was not abandoned is
the one in the map of sessions, and every connection's entry for the tab leads there.

`PlatformConnectionProofs`: **ConnectionTypeCorrect**, **OneSocketHolds**,
**OneHeartbeatHolds**, **NotStrandedHolds**, **RelayHasSocketHolds**,
**HandledInOrderHolds**: every safety property of the module, for any number of
sockets, contexts and messages and any limits.  The first ones rest on `Live`: a
reconnect timer and a socket exclude each other (`Sole`), and the timer that ticks
is the one the field holds, over a paired socket that is not closed (`Beating`).
The relay's context needs that no timer runs while there is one (`Bound`), the
order of messages that what waits is later than what was handled and that nothing
waits while there is a context (`Queued`).

`MachineProofs`
- **InstancesTypeCorrect**; **InstancesListedHolds**: while nobody was killed the lock
  excludes (`LockHeld`), a process writes what it read, unchanged since (`JobSane`,
  `Written`), and so the list names every CLI that serves.
- **BoardsInPlaceHolds**, for any number of webs and boards: `BoardsInv` adds that the
  boards with files are the first ones (`FirstBoards`, so a new board's id is free), that
  a web's order, however old, names none without files, and that the board of a write
  the executor has begun is not archived unless it is `astray` (`WriteStands`).
  That archiving takes one board out of the order, and nothing else, is a lemma on
  `Without` for orders of every length.

`EnginesProofs`
- **ServerNoOrphanHolds**: until a start() meets a waiting restart, `OneOwner` says what
  the manager holds in each of its states; after that `Apart`, that who lives is held or
  overlapped, and is overlapped if another's start may still fail and let go of it.
- **ResumesOwnSessionHolds**, **NeverReturnsLessHolds**: `ResilientInv` adds that until
  the first auto-continue no result was chosen, and that a run without retries
  never comes to a choice.  The one step that loses a result is AttemptRejects.
- **OpenCodeKeepsContractHolds**: OpenCodeEngine implements EngineContract.  The
  refinement needs that what the session counts as announced is what its consumer was sent
  (`SentIsAnnounced`), and that the stream has ended when the iterator has.  Every
  action is then a step of the contract or sends nothing.
- **OnlyDecisionsCachedHolds**: `BouncerInv` adds that a session being deleted has left a
  verdict; `Decisions` is shown to survive eviction, removal and storing.
- **FirstAnswerStands**: `QuestionsInv` adds that a registered question's request waits,
  and that the rest of a route runs for an asker that waits or is gone.
- **TextAccountedHolds**, for any number of pieces: `StreamInv` adds what may be held
  back when (`HeldBack`): nothing for a resume that is not judged, nothing after a
  timeout message without such a message, nothing of a line before deltas came, and
  nothing is in the result before the end of the stream.
- **EnginesTypeCorrect**, for every value of the limits and whatever start() meets.
  The types are not inductive as they stand: an extension of a deadline is granted by an
  assessment that may come late, and stays within MaxExtensions because none is asked
  for when none is left (`Grantable`); the turns of a Claude session stay within its
  prompts because a run in flight is one that has not had its end (`TurnsOver`); and the
  queue of an OpenCode session needs what is known of its reviews (`QueueBounded`).

`WorkspaceProofs`
- **RecordsAgreeHolds**, **ResultsAreCurrentHolds**: `QualityInv` adds that the slots are
  exactly the runs under way and that reports show only runs that are done.
- **TabStaysWhereMovedHolds**: `TabKept` says that the map, the registry unless the last
  move waits, and whatever git is asked about are places of the tab: its choice,
  what was set since, or where a late answer may take it.
- **TerminalsShowAllHolds**, **NoShellForgottenHolds**: a PTY in the map runs under its
  id, and one that was not crossed runs alone under it (`MapInv`); only a terminal
  with a PTY is watched (`WatchInv`), by webs that have what it handed out (`ScreenInv`).
- **UploadsIntactHolds**: two uploads that are busy with one file share it (`Apart`), an
  open stream has written a prefix of its upload (`UploadInv`), and under a name that
  is not shared and has no open stream stands nothing, what was there, or an
  announced upload (`Stands`).
- **NoEditLostHolds**, for any number of merges and edits, whichever stash is popped.
- **SevereFindingsShowHolds**, **LetterNeverRisesHolds**: for any numbers of findings, of
  those kept, and any size of the code, not only those of the run; `GradingInv` adds that what
  is kept is part of what was found, and all of it if it is not too much.  Their lemmas go up from a score:
  where a quotient lies when the dividend does (`QuotientBetween`), in which band of a
  ladder a density falls, and that more findings fall in none better (`LadderBand`,
  `LadderOfSteps`), then each dimension with its caps, and the worst of them
  (`LetterFallsWithMore`, `SevereShowsOf`).
- **WorkIsWholeHolds**: all of the run's invariant of that name, types included, of the
  composition `Workspace`.  `WorkspaceInv` joins the
  invariants of the parts and what their types need: a file under a name is no longer than
  an upload (`Downloading`), a merge under way has a branch and a stash or none
  (`Requests`), git is asked only about worktrees (`Placed`), and an open entry of the
  history of scans is there (`History`).

Every invariant the passing runs check is a theorem, and so are NeverReturnsLess,
ResultsAreCurrent, LetterNeverRises and the two refinements.  Only model-checked: the
liveness properties (RunEnds, PromptsEnd, Settles, RegistryHeals, EveryWaitEnds,
EveryRunEnds, WorkEnds), since fairness and ENABLED are out of TLAPS's reach, and the
statements that TLC refutes.  One part of EveryWaitEnds is not liveness,
FirstAnswerHolds, and is proved by itself (FirstAnswerStands).

The library's induction theorems take an operator as a parameter, which the provers
cannot instantiate.  Where a proof needs induction over data, as for the order of the
boards, it takes the least counterexample of a set of numbers instead (`WFMin` with
`NatLessThanWellFounded`).  Two definitions have their form for the proofs' sake:
`Without` of PlanBoards is a recursive function and not SelectSeq, and TextAccounted
says that the text is in order and has every piece, rather than that it equals a sorted
sequence.  No module with theorems has a RECURSIVE operator.

## 8. What is not modelled

`PROJECT.json` lists every component with its status and the reason.

- **Tokens and credentials** (`platform-token-lifecycle.ts`, `platform-credentials.ts`):
  refresh, verification and the daily check race with another process, `mstro
  login`, over one file.  What can go wrong is listed under the hazards; a property
  would hold only by assuming that nobody else writes.
- **Plan sprints and agents**: `parser.ts` never returns a sprint, so no handler
  reaches one.  `detectCycles` and `computeCriticalPath` of
  `dependency-resolver.ts`, `cancelPendingQuestionsForTab`, `clearHistory` and
  `cleanupPlanResources` have no caller.
- **File browsing and search, settings, skills, notifications**: each request reads
  or writes the file system once and answers; no state outlives it but caches.
- **Ports**: the first free one is taken, and the operating system decides.
- **HTTP routes, start-up, telemetry, the command line**: wiring, reporting and
  sequential input and output.
- **Parsing and composing of plans, text helpers, prompts, session helpers**: text
  processing; that the history file is written whole is assumed.
