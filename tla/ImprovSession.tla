---------------------------- MODULE ImprovSession ----------------------------
(***************************************************************************)
(* The improvisation session of a chat tab                                  *)
(* (server/cli/improvisation-session-manager.ts): it turns each prompt into *)
(* a movement, runs headless Claude processes for it under the retry        *)
(* strategies of server/cli/retry, cancels, fails or completes the movement *)
(* and may continue it by itself once.                                      *)
(*                                                                          *)
(* An action is the code between two awaits; awaits that resume without     *)
(* real work (a cached value, a function that returned already) are not     *)
(* split.  What Claude prints is abstracted to what the retry strategies    *)
(* read of it.                                                              *)
(***************************************************************************)
EXTENDS Naturals, Sequences

CONSTANTS
    Execs,         \* activations of executePrompt() that may be live at once
    MaxPrompts,    \* bound: prompts of the user
    MaxRestarts,   \* bound: restarts of the CLI
    SlowEta,       \* whether the ETA profile is read from disk, not the cache
    None

ASSUME ImprovConstants == /\ None \notin Execs /\ SlowEta \in BOOLEAN
                          /\ MaxPrompts \in Nat /\ MaxRestarts \in Nat

maxRetries == 3
MAX_AUTO_CONTINUES == 1

(* What a run of Claude leaves behind: how it ended, whether it named its    *)
(* session, the watchdog's checkpoint of a hung tool (with or without other  *)
(* tools in progress), whether tools timed out natively, whether the context *)
(* was judged lost, and whether the answer was judged unfinished.            *)
Results == [how : {"done", "signal", "error"}, sid : BOOLEAN,
            checkpoint : {"none", "resumable", "busy"},
            timeouts : BOOLEAN, lost : BOOLEAN, unfinished : BOOLEAN]

NoResult == [how |-> "error", sid |-> FALSE, checkpoint |-> "none",
             timeouts |-> FALSE, lost |-> FALSE, unfinished |-> FALSE]

VARIABLES
    (* the session object *)
    isExecuting, cancelled, cancelCompleteEmitted,
    autoContinueCount, autoContinuePending,
    callbacks,      \* setImmediate callbacks of scheduleAutoContinue to come
    currentSequenceNumber,
    movements,      \* history.movements: sequence numbers and outcomes
    claudeSessionId,\* whether one is known
    savedSessionId, \* whether the history file has one
    isFirstPrompt, isResumedSession,
    currentRunner,  \* the activation whose runner it is
    (* each activation *)
    pc,
    seq,            \* its sequenceNumber
    retryNumber,
    recovery,       \* freshRecoveryMode, contextRecoverySessionId or neither
    own,            \* what executePrompt was given: a task, or a bare 'continue'
    prompt,         \* what Claude is told: that, or an instruction to go on
    useResume,      \* continueSession of its runner
    flag,           \* --resume, --continue or neither on Claude's command line
    result,
    killed,         \* activations whose process was signalled by cancel()
    (* what the web was told *)
    webExecuting,   \* the last tabStateChanged
    ends,           \* completions and errors since the activation started
    (* bounds *)
    prompts, restarts

autoVars == <<autoContinueCount, autoContinuePending, callbacks>>
cancelVars == <<cancelled, cancelCompleteEmitted>>
identity == <<claudeSessionId, savedSessionId, isFirstPrompt, isResumedSession>>
retryVars == <<retryNumber, recovery, prompt>>
runVars == <<useResume, flag, killed>>
bounds == <<prompts, restarts>>
vars == <<isExecuting, cancelVars, autoVars, currentSequenceNumber, movements,
          identity, currentRunner, pc, seq, own, retryVars, runVars, result,
          webExecuting, ends, bounds>>

TypeOK ==
    /\ isExecuting \in BOOLEAN /\ cancelled \in BOOLEAN
    /\ cancelCompleteEmitted \in BOOLEAN
    /\ autoContinueCount \in 0..MAX_AUTO_CONTINUES
    /\ autoContinuePending \in BOOLEAN /\ callbacks \in Nat
    /\ currentSequenceNumber \in Nat
    /\ movements \in Seq([seq : Nat,
                          outcome : {"pending", "done", "cancelled", "error"}])
    /\ claudeSessionId \in BOOLEAN /\ savedSessionId \in BOOLEAN
    /\ isFirstPrompt \in BOOLEAN /\ isResumedSession \in BOOLEAN
    /\ currentRunner \in Execs \cup {None}
    /\ pc \in [Execs -> {"idle", "eta", "launching", "running", "assess", "judge",
                         "backoff", "select"}]
    /\ seq \in [Execs -> Nat]
    /\ retryNumber \in [Execs -> 0..maxRetries]
    /\ recovery \in [Execs -> {"none", "fresh", "resume"}]
    /\ own \in [Execs -> {"task", "goOn"}] /\ prompt \in [Execs -> {"task", "goOn"}]
    /\ useResume \in [Execs -> BOOLEAN]
    /\ flag \in [Execs -> {"none", "resume", "continue"}]
    /\ result \in [Execs -> Results]
    /\ killed \subseteq Execs
    /\ webExecuting \in BOOLEAN /\ ends \in [Execs -> Nat]
    /\ prompts \in 0..MaxPrompts /\ restarts \in 0..MaxRestarts

Init ==
    /\ isExecuting = FALSE /\ cancelled = FALSE /\ cancelCompleteEmitted = FALSE
    /\ autoContinueCount = 0 /\ autoContinuePending = FALSE /\ callbacks = 0
    /\ currentSequenceNumber = 0 /\ movements = <<>>
    /\ claudeSessionId = FALSE /\ savedSessionId = FALSE
    /\ isFirstPrompt = TRUE /\ isResumedSession = FALSE
    /\ currentRunner = None
    /\ pc = [x \in Execs |-> "idle"] /\ seq = [x \in Execs |-> 0]
    /\ retryNumber = [x \in Execs |-> 0]
    /\ recovery = [x \in Execs |-> "none"]
    /\ own = [x \in Execs |-> "task"] /\ prompt = [x \in Execs |-> "task"]
    /\ useResume = [x \in Execs |-> FALSE] /\ flag = [x \in Execs |-> "none"]
    /\ result = [x \in Execs |-> NoResult] /\ killed = {}
    /\ webExecuting = FALSE /\ ends = [x \in Execs |-> 0]
    /\ prompts = 0 /\ restarts = 0
-----------------------------------------------------------------------------
(* History and announcements                                                 *)

Numbered(log, n) == {k \in 1..Len(log) : log[k].seq = n}

Movement(n, outcome) == [seq |-> n, outcome |-> outcome]

\* Mutant: the pending movement is not replaced.
Appended(log, n, outcome) == Append(log, Movement(n, outcome))

(* persistMovement: the first movement of that number is replaced.           *)
Recorded(log, n, outcome) ==
    IF Numbered(log, n) = {} THEN Append(log, Movement(n, outcome))
    ELSE LET k == CHOOSE k \in Numbered(log, n) :
                      \A j \in Numbered(log, n) : k <= j
         IN  [log EXCEPT ![k] = Movement(n, outcome)]

(* A movementComplete or movementError of activation x.                      *)
Announce(x) == ends' = [ends EXCEPT ![x] = @ + 1] /\ webExecuting' = FALSE

Goto(x, label) == pc' = [pc EXCEPT ![x] = label]
-----------------------------------------------------------------------------
(* executePrompt: up to the await of the ETA profile                         *)

Enqueue(x, given) ==
    /\ pc[x] = "idle" /\ Goto(x, "eta")
    /\ isExecuting' = TRUE /\ cancelled' = FALSE /\ cancelCompleteEmitted' = FALSE
    /\ seq' = [seq EXCEPT ![x] = Len(movements) + 1]
    /\ currentSequenceNumber' = Len(movements) + 1
    /\ own' = [own EXCEPT ![x] = given] /\ prompt' = [prompt EXCEPT ![x] = given]
    /\ retryNumber' = [retryNumber EXCEPT ![x] = 0]
    /\ recovery' = [recovery EXCEPT ![x] = "none"]
    /\ result' = [result EXCEPT ![x] = NoResult]
    /\ ends' = [ends EXCEPT ![x] = 0]
    /\ UNCHANGED <<movements, identity, currentRunner, runVars, webExecuting, restarts>>

(* Nothing runs between the two halves when the profile is cached.           *)
Interruptible == SlowEta \/ \A x \in Execs : pc[x] # "eta"

Execute(x) ==
    /\ Interruptible /\ prompts < MaxPrompts /\ prompts' = prompts + 1
    /\ Enqueue(x, "task")
    /\ autoContinueCount' = 0 /\ autoContinuePending' = FALSE
    /\ UNCHANGED callbacks

(* The callback of scheduleAutoContinue.                                     *)
Superseded == cancelled \/ isExecuting \/ ~autoContinuePending

AutoContinue(x) ==
    /\ Interruptible /\ callbacks > 0 /\ ~Superseded
    /\ callbacks' = callbacks - 1 /\ autoContinuePending' = FALSE
    /\ Enqueue(x, "goOn")
    /\ UNCHANGED <<autoContinueCount, prompts>>

DropAutoContinue ==
    /\ Interruptible /\ callbacks > 0 /\ Superseded
    /\ callbacks' = callbacks - 1
    /\ UNCHANGED <<isExecuting, cancelVars, autoContinueCount, autoContinuePending,
                   currentSequenceNumber, movements, identity, currentRunner, pc, seq, own,
                   retryVars, runVars, result, webExecuting, ends, bounds>>
-----------------------------------------------------------------------------
(* Ways an activation returns                                                *)

\* Mutant: the runner is forgotten, but not that it executes.
RunnerForgotten == currentRunner' = None /\ UNCHANGED isExecuting
ResetExecutionState == currentRunner' = None /\ isExecuting' = FALSE

\* Mutant: a cancellation that cancel() has announced is announced again.
EndCancelledTwice(x, log) ==
    /\ movements' = Recorded(log, seq[x], "cancelled") /\ Announce(x)
    /\ ResetExecutionState /\ Goto(x, "idle")

(* handleCancelledExecution                                                  *)
EndCancelled(x, log) ==
    /\ \/ /\ cancelCompleteEmitted /\ movements' = log /\ UNCHANGED ends
          /\ webExecuting' = (webExecuting \/ pc[x] = "eta")
       \/ /\ ~cancelCompleteEmitted
          /\ movements' = Recorded(log, seq[x], "cancelled") /\ Announce(x)
    /\ ResetExecutionState /\ Goto(x, "idle")

(* handleExecutionError                                                      *)
EndFailed(x, log) ==
    /\ movements' = Recorded(log, seq[x], "error") /\ Announce(x)
    /\ ResetExecutionState /\ Goto(x, "idle")
-----------------------------------------------------------------------------
(* executeRetryIteration, up to the run of Claude (determineResumeStrategy,  *)
(* buildClaudeArgs).  A known session id is passed on the first attempt even *)
(* when the prompt does not count as a resumption.                           *)

Resumes(x) == \/ recovery[x] = "resume"
              \/ /\ recovery[x] = "none"
                 /\ IF retryNumber[x] = 0 THEN ~isFirstPrompt
                    ELSE result[x].checkpoint = "resumable"

SessionKnown(x) == IF recovery[x] = "none" /\ retryNumber[x] = 0
                   THEN claudeSessionId ELSE Resumes(x)

(* The first prompt of a session resumed from disk is enriched with its      *)
(* history, which may ask a model, before there is a process to signal.      *)
Enriches(x) == retryNumber[x] = 0 /\ isResumedSession /\ isFirstPrompt

Launch(x) ==
    /\ currentRunner' = x /\ killed' = killed \ {x}
    /\ useResume' = [useResume EXCEPT ![x] = Resumes(x)]
    /\ flag' = [flag EXCEPT ![x] = IF SessionKnown(x) THEN "resume"
                                   ELSE IF Resumes(x) THEN "continue" ELSE "none"]
    /\ recovery' = [recovery EXCEPT ![x] = "none"]
    /\ Goto(x, IF Enriches(x) THEN "launching" ELSE "running")

Elsewhere == UNCHANGED <<cancelVars, autoVars, currentSequenceNumber, identity, seq, own,
                         retryNumber, prompt, result, bounds>>

(* The second half of executePrompt announces and records the movement.      *)
Begun(x) == Append(movements, Movement(seq[x], "pending"))

StartMovement(x) ==
    /\ pc[x] = "eta" /\ ~cancelled
    /\ movements' = Begun(x) /\ webExecuting' = TRUE
    /\ Launch(x)
    /\ Elsewhere /\ UNCHANGED <<isExecuting, ends>>

StartCancelled(x) ==
    /\ pc[x] = "eta" /\ cancelled
    /\ EndCancelled(x, Begun(x))
    /\ Elsewhere /\ UNCHANGED <<recovery, runVars>>

(* An attachment cannot be written, or Claude cannot be started.             *)
StartFailed(x) ==
    /\ pc[x] = "eta"
    /\ EndFailed(x, Begun(x))
    /\ Elsewhere /\ UNCHANGED <<recovery, runVars>>

(* The enriched prompt is ready; cancel() is not looked at again.            *)
Spawn(x) ==
    /\ pc[x] = "launching" /\ Goto(x, "running")
    /\ Elsewhere
    /\ UNCHANGED <<isExecuting, movements, currentRunner, recovery, runVars,
                   webExecuting, ends>>

LaunchFailed(x) ==
    /\ pc[x] = "launching"
    /\ EndFailed(x, movements)
    /\ Elsewhere /\ UNCHANGED <<recovery, runVars>>

\* Mutant: a cancellation during the delay is not noticed.
AlwaysWakes == TRUE
StillWanted == ~cancelled

(* The delay before a retry is over.                                         *)
Retry(x) ==
    /\ pc[x] = "backoff" /\ StillWanted
    /\ Launch(x)
    /\ Elsewhere /\ UNCHANGED <<isExecuting, movements, webExecuting, ends>>

RetryCancelled(x) ==
    /\ pc[x] = "backoff" /\ ~StillWanted
    /\ EndCancelled(x, movements)
    /\ Elsewhere /\ UNCHANGED <<recovery, runVars>>

RetryFailed(x) ==
    /\ pc[x] = "backoff" /\ StillWanted
    /\ EndFailed(x, movements)
    /\ Elsewhere /\ UNCHANGED <<recovery, runVars>>
-----------------------------------------------------------------------------
(* The run of Claude ends, and its outcome is assessed.                      *)

MayRetry(x) == retryNumber[x] < maxRetries

(* Context can be lost in a resumption or after native timeouts; only a      *)
(* completed run that named its session is asked whether it is unfinished.   *)
Possible(x, r) ==
    /\ r.lost => /\ r.checkpoint = "none" /\ MayRetry(x)
                 /\ r.timeouts \/ useResume[x]
    /\ r.timeouts => r.lost
    /\ r.checkpoint = "resumable" => r.sid
    /\ r.unfinished => /\ r.how = "done" /\ r.sid
                       /\ r.checkpoint = "none" /\ ~r.lost

RunEnds(x) ==
    /\ pc[x] = "running"
    /\ \E r \in Results : Possible(x, r) /\ result' = [result EXCEPT ![x] = r]
    /\ currentRunner' = None /\ Goto(x, "assess")
    /\ UNCHANGED <<isExecuting, cancelVars, autoVars, currentSequenceNumber, movements,
                   identity, seq, own, retryVars, runVars, webExecuting, ends, bounds>>

(* evaluateRetryStrategies: the strategies in their order                    *)
Crashed(x) == /\ result[x].how = "signal" /\ MayRetry(x)
              /\ result[x].checkpoint = "none"
ContextLost(x) == result[x].lost /\ MayRetry(x) /\ ~Crashed(x)
ToolTimedOut(x) == result[x].checkpoint # "none" /\ MayRetry(x)
Doubtful(x) == /\ result[x].how = "done" /\ result[x].sid /\ MayRetry(x)
               /\ result[x].checkpoint = "none" /\ ~result[x].lost

\* Mutant: the attempt is not counted.
SameRetry(x) == retryNumber[x]
NextRetry(x) == retryNumber[x] + 1

GoAgain(x, how, what) ==
    /\ retryNumber' = [retryNumber EXCEPT ![x] = NextRetry(x)]
    /\ recovery' = [recovery EXCEPT ![x] = how]
    /\ prompt' = [prompt EXCEPT ![x] = what]
    /\ claudeSessionId' = (claudeSessionId \/ how = "resume")
    /\ UNCHANGED <<savedSessionId, isFirstPrompt, isResumedSession>>

Assessed(x) == pc[x] = "assess" /\ ~cancelled

(* The first recovery resumes the session the run named, later ones start    *)
(* afresh with the results that were preserved.                              *)
FirstResumes(x) == IF result[x].sid /\ NextRetry(x) = 1 THEN "resume" ELSE "fresh"

Waits(x) ==
    /\ Goto(x, "backoff")
    /\ UNCHANGED <<isExecuting, cancelVars, autoVars, currentSequenceNumber, movements,
                   currentRunner, seq, own, runVars, result, webExecuting, ends, bounds>>

RetryCrash(x) ==
    /\ Assessed(x) /\ Crashed(x)
    /\ GoAgain(x, FirstResumes(x), own[x])
    /\ Waits(x)

(* The prompt of the first kind brings the conversation along, that of the   *)
(* second only what the activation was given.                                *)
RetryContextLoss(x) ==
    /\ Assessed(x) /\ ContextLost(x)
    /\ IF useResume[x] /\ ~result[x].timeouts
       THEN GoAgain(x, "fresh", "task")
       ELSE GoAgain(x, FirstResumes(x), own[x])
    /\ Waits(x)

\* Mutant: a short prompt even when the session cannot be resumed.
ShortPrompt(x) == "goOn"
TimeoutPrompt(x) == IF result[x].checkpoint = "resumable" THEN "goOn" ELSE own[x]

RetryToolTimeout(x) ==
    /\ Assessed(x) /\ ToolTimedOut(x)
    /\ GoAgain(x, "none", TimeoutPrompt(x))
    /\ Waits(x)

(* A model is asked whether the answer is complete.                          *)
AskWhetherFinished(x) ==
    /\ Assessed(x) /\ Doubtful(x)
    /\ Goto(x, "judge")
    /\ UNCHANGED <<isExecuting, cancelVars, autoVars, currentSequenceNumber, movements,
                   identity, currentRunner, seq, own, retryVars, runVars, result,
                   webExecuting, ends, bounds>>

RetryUnfinished(x) ==
    /\ pc[x] = "judge" /\ result[x].unfinished /\ ~cancelled
    /\ GoAgain(x, "resume", "goOn")
    /\ Waits(x)

(* The loop is left because of a cancellation.                               *)
RunCancelled(x) ==
    /\ pc[x] \in {"assess", "judge"} /\ cancelled
    /\ EndCancelled(x, movements)
    /\ claudeSessionId' = (claudeSessionId \/ (pc[x] = "judge" /\ result[x].unfinished))
    /\ UNCHANGED <<cancelVars, autoVars, currentSequenceNumber, savedSessionId,
                   isFirstPrompt, isResumedSession, seq, own, retryVars, runVars, result,
                   bounds>>

Accepted(x) ==
    /\ ~cancelled
    /\ \/ /\ pc[x] = "assess"
          /\ ~Crashed(x) /\ ~ContextLost(x) /\ ~ToolTimedOut(x) /\ ~Doubtful(x)
       \/ pc[x] = "judge" /\ ~result[x].unfinished

(* Of several attempts the best is chosen, which may ask a model.            *)
AskForBest(x) ==
    /\ Accepted(x) /\ retryNumber[x] > 0
    /\ Goto(x, "select")
    /\ UNCHANGED <<isExecuting, cancelVars, autoVars, currentSequenceNumber, movements,
                   identity, currentRunner, seq, own, retryVars, runVars, result,
                   webExecuting, ends, bounds>>

(* maybeAutoContinue: a killed or seemingly incomplete run goes on once.     *)
CountContinued == autoContinueCount + 1

MayAutoContinue(x) ==
    /\ ~cancelled /\ autoContinueCount < MAX_AUTO_CONTINUES
    /\ retryNumber[x] > 0 \/ result[x].how = "done"

ScheduleAutoContinue(x) ==
    /\ MayAutoContinue(x)
    /\ autoContinueCount' = CountContinued /\ autoContinuePending' = TRUE
    /\ callbacks' = callbacks + 1

(* cancel() during the selection does not keep the answer from being kept.   *)
Complete(x) ==
    /\ (Accepted(x) /\ retryNumber[x] = 0) \/ pc[x] = "select"
    /\ \E known \in {result[x].sid, retryNumber[x] > 0} :
          /\ claudeSessionId' = (claudeSessionId \/ known)
          /\ savedSessionId' = (savedSessionId \/ known)
    /\ isFirstPrompt' = FALSE
    /\ movements' = Recorded(movements, seq[x], "done")
    /\ isExecuting' = FALSE
    /\ IF cancelCompleteEmitted THEN UNCHANGED <<webExecuting, ends>> ELSE Announce(x)
    /\ ScheduleAutoContinue(x) \/ UNCHANGED autoVars
    /\ Goto(x, "idle")
    /\ UNCHANGED <<cancelVars, currentSequenceNumber, isResumedSession, currentRunner,
                   seq, own, retryVars, runVars, result, bounds>>
-----------------------------------------------------------------------------
Signalled == killed \cup {x \in Execs : currentRunner = x /\ pc[x] = "running"}

Cancel ==
    /\ Interruptible
    /\ cancelled' = TRUE /\ currentRunner' = None /\ killed' = Signalled
    /\ IF isExecuting /\ ~cancelCompleteEmitted
       THEN /\ cancelCompleteEmitted' = TRUE /\ isExecuting' = FALSE
            /\ movements' = Recorded(movements, currentSequenceNumber, "cancelled")
            /\ webExecuting' = FALSE
            /\ ends' = [x \in Execs |->
                   IF pc[x] # "idle" /\ seq[x] = currentSequenceNumber
                   THEN ends[x] + 1 ELSE ends[x]]
       ELSE UNCHANGED <<cancelCompleteEmitted, isExecuting, movements, webExecuting, ends>>
    /\ UNCHANGED <<autoVars, currentSequenceNumber, identity, pc, seq, own, retryVars,
                   useResume, flag, result, bounds>>

(* The CLI dies with its agents; the session is resumed from its history.    *)
Restart ==
    /\ Interruptible /\ restarts < MaxRestarts /\ restarts' = restarts + 1
    /\ isExecuting' = FALSE /\ cancelled' = FALSE /\ cancelCompleteEmitted' = FALSE
    /\ autoContinueCount' = 0 /\ autoContinuePending' = FALSE /\ callbacks' = 0
    /\ currentSequenceNumber' = 0
    /\ claudeSessionId' = savedSessionId
    /\ isFirstPrompt' = TRUE /\ isResumedSession' = (movements # <<>>)
    /\ currentRunner' = None /\ pc' = [x \in Execs |-> "idle"]
    /\ killed' = {} /\ webExecuting' = FALSE
    /\ UNCHANGED <<movements, savedSessionId, seq, own, retryVars, useResume, flag, result,
                   ends, prompts>>
-----------------------------------------------------------------------------
ExecStep(x) ==
    \/ StartMovement(x) \/ StartCancelled(x) \/ StartFailed(x)
    \/ Spawn(x) \/ LaunchFailed(x)
    \/ Retry(x) \/ RetryCancelled(x) \/ RetryFailed(x)
    \/ RunEnds(x) \/ RetryCrash(x) \/ RetryContextLoss(x) \/ RetryToolTimeout(x)
    \/ AskWhetherFinished(x) \/ RetryUnfinished(x) \/ RunCancelled(x)
    \/ AskForBest(x) \/ Complete(x)

Next == \/ \E x \in Execs : ExecStep(x) \/ Execute(x) \/ AutoContinue(x)
        \/ DropAutoContinue \/ Cancel \/ Restart

(* Delays run out, models answer, and a run of Claude ends: by itself, or    *)
(* at the hard cap of the stall detection.  The user owes nothing.           *)
Fairness == /\ \A x \in Execs : WF_vars(ExecStep(x))
            /\ WF_vars(DropAutoContinue \/ \E x \in Execs : AutoContinue(x))

Spec == Init /\ [][Next]_vars /\ Fairness
-----------------------------------------------------------------------------
(* Properties                                                                *)

Live(x) == pc[x] # "idle"

(* After cancel() no run of Claude goes on or begins that was not signalled, *)
(* at whatever point of the retry loop the cancellation came.                *)
CancelReachesAgents ==
    cancelled => \A x \in Execs : pc[x] = "running" => x \in killed

(* The session does not keep itself busy: a prompt is continued at most once, *)
(* however it and its continuation end.                                      *)
ContinuedOnce == currentSequenceNumber <= prompts * (1 + MAX_AUTO_CONTINUES)

(* Every movement ends in exactly one completion or error, although cancel() *)
(* and the cancelled activation both conclude it, and is followed by at most *)
(* one that continues it.                                                    *)
EndsOnce ==
    /\ \A x \in Execs : ends[x] <= 1 /\ (~Live(x) /\ seq[x] # 0 => ends[x] = 1)
    /\ ContinuedOnce

(* What the history shows as in progress is being executed: it is left out   *)
(* of the output history, because its events are replayed instead.           *)
PendingIsExecuting ==
    \A k \in 1..Len(movements) :
        movements[k].outcome = "pending" =>
            isExecuting /\ movements[k].seq = currentSequenceNumber

(* The last tabStateChanged says whether the session executes.               *)
WebAgrees == (\A x \in Execs : pc[x] # "eta") => webExecuting = isExecuting

(* A prompt of the user that is retried is told only to go on where the       *)
(* conversation it belongs to is resumed, through crashes, hung tools, lost  *)
(* context and unfinished answers.                                           *)
GoOnIsResumed ==
    \A x \in Execs : pc[x] = "running" /\ own[x] = "task" /\ prompt[x] = "goOn"
        => flag[x] = "resume"

(* The same of every retry, also of an auto-continue: prompt-builders.ts has  *)
(* a fresh session complete "the original task".                             *)
ContinuesAreResumed ==
    \A x \in Execs : pc[x] = "running" /\ prompt[x] = "goOn" /\ retryNumber[x] > 0
        => flag[x] = "resume"

(* A resumption names the Claude session: without one, --continue takes the  *)
(* directory's latest conversation, which may be another tab's.              *)
ResumesBySessionId ==
    \A x \in Execs : pc[x] = "running" /\ useResume[x] => flag[x] = "resume"

(* Every activation returns: the retry strategies share one budget.          *)
PromptsEnd == \A x \in Execs : Live(x) ~> ~Live(x)

=============================================================================
