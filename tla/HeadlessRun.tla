---------------------------- MODULE HeadlessRun ----------------------------
(* One run of the Claude CLI as a subprocess: cli/headless/claude-invoker*.ts *)
(* with the stall check (claude-invoker-stall.ts, stall-assessor.ts), the tool*)
(* watchdog (tool-watchdog.ts) and the kill ladder of runner.ts. Time is the  *)
(* tick of the stall check; the durations are small numbers of ticks.         *)
(* The assessor is a model: any verdict may come, at any time.                *)
EXTENDS Integers, FiniteSets

CONSTANTS
  Tools,          \* tool calls of a run
  WarnTicks,      \* stallWarningMs
  KillTicks,      \* stallKillMs
  CapTicks,       \* stallHardCapMs
  Extensions,     \* the extensions an assessment may grant (1 to 180 minutes)
  LongestTicks,   \* the longest of them, or stallKillMs
  MaxExtensions   \* stallMaxExtensions

ASSUME HeadlessAssumption ==
  /\ WarnTicks \in Nat \ {0} /\ KillTicks \in Nat \ {0} /\ CapTicks \in Nat \ {0}
  /\ LongestTicks \in Nat /\ KillTicks <= LongestTicks
  /\ Extensions \subseteq 1..LongestTicks /\ MaxExtensions \in Nat

NoTool == "no tool"

VARIABLES
  headless,       \* the subprocess and the StallState of its run
  headlessTools   \* pendingTools and activeWatches, for each call

headlessVars == <<headless, headlessTools>>

\* life: "hung" never writes again; "term" and "kill" were sent that signal.
\* left, quiet: ticks until currentKillDeadline and nextWarningAfter. asked:
\* ticks since the assessment in progress began (-1: none).
\* watch: its timer is the first or the one after a tiebreaker. asking: a
\* tiebreaker is in progress, for a watch that still is the current one or was
\* replaced. stray: a timer of a replaced watch that nothing can clear.
HeadlessTypeOK ==
  /\ headless \in [phase : {"idle", "running", "closing"},
                   life : {"none", "working", "hung", "term", "kill"},
                   interval : BOOLEAN, silence : 0..WarnTicks, warned : BOOLEAN,
                   left : 0..LongestTicks, quiet : 0..WarnTicks, elapsed : 0..CapTicks,
                   asked : -1..LongestTicks, extended : 0..MaxExtensions,
                   cancelled : BOOLEAN, blamed : Tools \cup {NoTool}, checkpoint : BOOLEAN]
  /\ headlessTools \in [Tools ->
        [pending : BOOLEAN, watch : {"none", "first", "last"},
         asking : {"no", "current", "replaced"}, stray : BOOLEAN]]

NoRun == [phase |-> "idle", life |-> "none", interval |-> FALSE, silence |-> 0,
          warned |-> FALSE, left |-> KillTicks, quiet |-> 0, elapsed |-> 0,
          asked |-> -1, extended |-> 0, cancelled |-> FALSE, blamed |-> NoTool,
          checkpoint |-> FALSE]
Unwatched == [pending |-> FALSE, watch |-> "none", asking |-> "no", stray |-> FALSE]

HeadlessInit ==
  /\ headless = NoRun
  /\ headlessTools = [t \in Tools |-> Unwatched]

Running == headless.phase = "running"

\* executeClaudeCommand up to the promise it returns; the spawn is synchronous.
\* (A run that could not be spawned closes at once, through its error handler.)
Spawned == [NoRun EXCEPT !.phase = "running", !.life = "working", !.interval = TRUE]
StartRun ==
  /\ headless.phase = "idle"
  /\ headless' = Spawned
  /\ headlessTools' = [t \in Tools |-> Unwatched]

\* The data handler of stdout, for a chunk that is about no tool.
Active(r) == [r EXCEPT !.silence = 0, !.warned = FALSE, !.quiet = 0, !.left = KillTicks]
ProcessWrites ==
  /\ Running /\ headless.life = "working"
  /\ headless' = Active(headless)
  /\ UNCHANGED headlessTools

ProcessHangs ==
  /\ Running /\ headless.life = "working"
  /\ headless' = [headless EXCEPT !.life = "hung"]
  /\ UNCHANGED headlessTools

\* A chunk with tool_start or tool_complete, which both start the watch anew,
\* and one with tool_result: onToolStart, onToolComplete, onToolResult.
Watched(w) == [w EXCEPT !.pending = TRUE, !.watch = "first"]
Unwatch(w) == [w EXCEPT !.watch = "none",
                        !.asking = IF @ = "no" THEN "no" ELSE "replaced"]
ToolBegins(t) ==
  /\ Running /\ headless.life = "working"
  /\ headless' = Active(headless)
  /\ headlessTools' = [headlessTools EXCEPT
       ![t] = Watched(Unwatch(@))]
ToolReturns(t) ==
  /\ Running /\ headless.life = "working" /\ headlessTools[t].pending
  /\ headless' = Active(headless)
  /\ headlessTools' = [headlessTools EXCEPT ![t] = [Unwatch(@) EXCEPT !.pending = FALSE]]

\* Mutant: no SIGKILL follows.
KillTimerCleared ==
  /\ headless.life = "kill"
  /\ headless' = [headless EXCEPT !.life = "kill"]
  /\ UNCHANGED headlessTools

\* terminateStallProcess, and the 5 s timer of every kill.
Terminated(r) ==
  [r EXCEPT !.interval = FALSE, !.life = IF @ = "kill" THEN "kill" ELSE "term"]
KillTimer ==
  /\ headless.life = "term"
  /\ headless' = [headless EXCEPT !.life = "kill"]
  /\ UNCHANGED headlessTools

\* executeToolTimeout: a checkpoint if the watch is still there, then the kill.
Checkpoint(t) == headlessTools[t].watch # "none"
Blame(t) ==
  /\ headless' = IF Running
                 THEN [Terminated(headless) EXCEPT
                        !.blamed = t, !.checkpoint = Checkpoint(t)]
                 ELSE headless
  /\ headlessTools' = [u \in Tools |->
       LET w == IF u = t THEN [headlessTools[u] EXCEPT !.asking = "no"]
                ELSE headlessTools[u]
       IN Unwatch(w)]

\* The timer of a watch: a kill, or first the tiebreaker (handleTimeoutWith-
\* Tiebreaker; an extension while data streams only moves the timer).
WatchTimer(t) ==
  /\ Running
  /\ headlessTools[t].watch # "none" /\ headlessTools[t].asking # "current"
  /\ \/ Blame(t)
     \/ /\ headlessTools[t].watch = "first" /\ headlessTools[t].asking = "no"
        /\ headlessTools' = [headlessTools EXCEPT ![t].asking = "current"]
        /\ UNCHANGED headless

\* The verdict of the tiebreaker, a kill if it fails, which asks nothing about
\* what happened to the call while it was waited for.
Judgements == {"kill", "extend"}
Extended(w) == IF w.asking = "current"
               THEN [w EXCEPT !.asking = "no", !.watch = "last"]
               ELSE [w EXCEPT !.asking = "no", !.stray = TRUE]
Verdict(t) ==
  /\ headlessTools[t].asking # "no"
  /\ \E v \in Judgements :
       \/ v = "kill" /\ Blame(t)
       \/ /\ v = "extend"
          /\ headlessTools' = [headlessTools EXCEPT ![t] = Extended(@)]
          /\ UNCHANGED headless
StrayTimer(t) ==
  /\ headlessTools[t].stray
  /\ \/ headlessTools[t].watch # "none" /\ Blame(t)
     \/ /\ headlessTools[t].watch = "none"
        /\ headlessTools' = [headlessTools EXCEPT ![t].stray = FALSE]
        /\ UNCHANGED headless

\* runStallCheckTick. Flagged: the hard cap only backs up another signal.
Less(n) == IF n > 0 THEN n - 1 ELSE 0
More(n, cap) == IF n < cap THEN n + 1 ELSE cap
Passed(r) ==
  [r EXCEPT !.silence = More(@, WarnTicks), !.left = Less(@), !.quiet = Less(@),
            !.elapsed = More(@, CapTicks),
            !.asked = IF @ < 0 THEN @ ELSE More(@, LongestTicks)]
Flagged(r) == r.warned \/ r.extended >= MaxExtensions
Silent(r) == r.silence = WarnTicks /\ ~ r.warned /\ r.quiet = 0 /\ r.asked < 0
StallTick ==
  /\ Running /\ headless.interval
  /\ \E flowing \in {f \in BOOLEAN : f => headless.silence = 0} :
       LET r == Passed(headless)
           p == IF flowing /\ r.left > 0 THEN [r EXCEPT !.left = KillTicks] ELSE r IN
       headless' =
         IF (r.elapsed = CapTicks /\ Flagged(r)) \/ p.left = 0 THEN Terminated(p)
         ELSE IF ~ Silent(p) THEN p
         ELSE IF p.extended < MaxExtensions THEN [p EXCEPT !.asked = 0]
         ELSE [p EXCEPT !.warned = TRUE]
  /\ UNCHANGED headlessTools

\* The assessment ends, by a heuristic or a model's answer, or with an extension
\* if that fails: its new deadline counts from when it began.
StallVerdicts == Extensions \cup {0}
Until(n) == IF n > headless.asked THEN n - headless.asked ELSE 0
Granted(r, n) == [r EXCEPT !.asked = -1, !.extended = @ + 1,
                           !.left = Until(n), !.quiet = Until(WarnTicks)]
AssessmentEnds ==
  /\ headless.asked >= 0
  /\ \E n \in StallVerdicts :
       headless' = IF n > 0 THEN Granted(headless, n)
                   ELSE [headless EXCEPT !.asked = -1, !.warned = TRUE]
  /\ UNCHANGED headlessTools

\* HeadlessRunner.cleanup: every registered process group is sent SIGTERM.
Cleanup ==
  /\ headless.phase # "idle"
  /\ headless' = [headless EXCEPT !.cancelled = TRUE,
       !.life = IF @ \in {"none", "kill"} THEN @ ELSE "term"]
  /\ UNCHANGED headlessTools

\* The process is gone, by itself or by a signal; its close handler up to the
\* classification of stderr, and after it (unregistered, promise resolved).
ProcessExits ==
  /\ Running /\ headless.life # "hung"
  /\ headless' = [headless EXCEPT !.phase = "closing", !.life = "none", !.interval = FALSE]
  /\ headlessTools' = [t \in Tools |-> Unwatch(headlessTools[t])]
RunResolves ==
  /\ headless.phase = "closing"
  /\ headless' = [headless EXCEPT !.phase = "idle", !.asked = -1, !.cancelled = FALSE]
  /\ headlessTools' = [t \in Tools |-> Unwatched]

HeadlessSteps ==
  \/ ProcessWrites \/ ProcessHangs \/ ProcessExits
  \/ StallTick \/ AssessmentEnds \/ KillTimer
  \/ \E t \in Tools : \/ ToolBegins(t) \/ ToolReturns(t)
                      \/ WatchTimer(t) \/ Verdict(t) \/ StrayTimer(t)
=============================================================================
