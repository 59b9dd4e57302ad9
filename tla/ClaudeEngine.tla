---------------------------- MODULE ClaudeEngine ----------------------------
(* engines/claude/ClaudeCodeEngine.ts: one conversation on top of runs of the *)
(* Claude CLI (HeadlessRun), its event queue and its consumer. The kinds of   *)
(* events are abstracted: what counts is whether the consumer gets an answer. *)
EXTENDS HeadlessRun

CONSTANT
  MaxPrompts   \* bound: prompts sent

ASSUME ClaudeAssumption == MaxPrompts \in Nat

VARIABLE
  claude       \* the engine's fields

claudeVars == <<claude, headlessVars>>

\* run: currentRunPromise. turns: prompts the consumer was told the end of.
ClaudeTypeOK ==
  /\ HeadlessTypeOK
  /\ claude \in [started : BOOLEAN, disposed : BOOLEAN, closing : BOOLEAN,
                 run : BOOLEAN, prompts : 0..MaxPrompts, turns : 0..MaxPrompts,
                 iterDone : BOOLEAN, waiting : BOOLEAN]

ClaudeInit ==
  /\ HeadlessInit
  /\ claude = [started |-> FALSE, disposed |-> FALSE, closing |-> FALSE, run |-> FALSE,
               prompts |-> 0, turns |-> 0, iterDone |-> FALSE, waiting |-> FALSE]

ClaudeStart ==
  /\ ~ claude.started /\ ~ claude.disposed
  /\ claude' = [claude EXCEPT !.started = TRUE]
  /\ UNCHANGED headlessVars

\* sendPrompt: refused while a run is in flight.
ClaudePrompt ==
  /\ claude.started /\ ~ claude.disposed /\ ~ claude.run
  /\ claude.prompts < MaxPrompts
  /\ claude' = [claude EXCEPT !.run = TRUE, !.prompts = @ + 1]
  /\ StartRun

\* emit, to a consumer that waits; a fatal engine.error also ends the iterator.
ClaudeTold(c, fatal) ==
  IF c.iterDone THEN c
  ELSE [c EXCEPT !.waiting = FALSE, !.iterDone = fatal]

\* A run of the engine streams: the events of its output, and its own timers.
ClaudeStreams ==
  /\ HeadlessSteps
  /\ claude' = IF headless.phase = "running" /\ headless' # headless
               THEN ClaudeTold(claude, FALSE) ELSE claude

\* onRunCompleted (session.idle, then perhaps an engine.error that is not
\* fatal) and onRunFailed (the process could not be spawned: a fatal one).
ClaudeRunEnds ==
  /\ RunResolves
  /\ \E failed \in BOOLEAN :
       claude' = [ClaudeTold(claude, failed) EXCEPT !.run = FALSE, !.turns = @ + 1]

\* cancel and dispose up to their await of the run, and the rest of dispose.
ClaudeCancel ==
  /\ Cleanup /\ UNCHANGED claude
ClaudeDispose ==
  /\ ~ claude.disposed
  /\ claude' = [claude EXCEPT !.disposed = TRUE, !.closing = TRUE]
  /\ IF headless.phase = "idle" THEN UNCHANGED headlessVars
     ELSE Cleanup
ClaudeDisposed ==
  /\ claude.closing /\ ~ claude.run
  /\ claude' = [claude EXCEPT !.closing = FALSE, !.iterDone = TRUE, !.waiting = FALSE]
  /\ UNCHANGED headlessVars

\* next() of an iterator with an empty queue, and return().
ClaudeConsume ==
  /\ ~ claude.iterDone
  /\ \/ ~ claude.waiting /\ claude' = [claude EXCEPT !.waiting = TRUE]
     \/ claude' = [claude EXCEPT !.iterDone = TRUE, !.waiting = FALSE]
  /\ UNCHANGED headlessVars

ClaudeNext ==
  \/ ClaudeStart \/ ClaudePrompt \/ ClaudeStreams \/ ClaudeRunEnds
  \/ ClaudeCancel \/ ClaudeDispose \/ ClaudeDisposed \/ ClaudeConsume

\* Timers fire, a process that was sent SIGKILL exits, and continuations run.
\* A run that works may work for ever.
ClaudeFairness ==
  /\ WF_claudeVars(ClaudeStreams /\ StallTick)
  /\ WF_claudeVars(ClaudeStreams /\ KillTimer)
  /\ WF_claudeVars(ClaudeStreams /\ headless.life = "kill" /\ ProcessExits)
  /\ WF_claudeVars(ClaudeRunEnds) /\ WF_claudeVars(ClaudeDisposed)

ClaudeSpec == ClaudeInit /\ [][ClaudeNext]_claudeVars /\ ClaudeFairness
-----------------------------------------------------------------------------
\* A CLI that hangs is found out, whatever the assessments grant and whichever
\* tools are pending: its run ends and the prompt is answered.
HungRunEnds == headless.life = "hung" ~> headless.phase = "idle"

\* After dispose there is no process, no run and no consumer left waiting, in
\* whatever phase of a run it came and however the process takes its signals.
ClaudeDisposeEnds ==
  claude.disposed ~>
    (headless.life = "none" /\ ~ claude.run /\ claude.iterDone /\ ~ claude.waiting)

=============================================================================
