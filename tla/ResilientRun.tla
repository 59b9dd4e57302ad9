---------------------------- MODULE ResilientRun ----------------------------
(* The retrying runner of plan issues and quality reviews:                    *)
(* cli/headless/resilient-runner.ts with retry-strategies.ts, and the AI      *)
(* assessments it asks (haiku-assessments.ts), whose answers are choices. An  *)
(* attempt is one HeadlessRunner, abstracted to when it ends and with what.   *)
EXTENDS Naturals

CONSTANTS
  Policies,           \* the policies of the run: "NONE", "STANDARD", "FULL"
  MaxRetries,         \* maxRetries
  MaxAutoContinues    \* maxAutoContinues of a policy that retries

ASSUME ResilientAssumption ==
  /\ Policies \subseteq {"NONE", "STANDARD", "FULL"}
  /\ MaxRetries \in Nat /\ MaxAutoContinues \in Nat

VARIABLE
  resilient   \* the locals of one ResilientRunner.run()

\* How an attempt ended: killed by a signal, in an error, at max_tokens, at
\* end_turn, or at end_turn with a response it gave up on (isResponseAbandoned).
Ends == {"signal", "error", "max_tokens", "end_turn", "abandoned"}
\* session: it named its Claude session. score: scoreResult.
Results == [end : Ends, session : BOOLEAN, score : 0..1]
NoResult == [end |-> "none", session |-> FALSE, score |-> 0]
Completed(r) == r.end \in {"max_tokens", "end_turn", "abandoned"}

\* phase: not called yet; at the top of the retry loop; in an attempt, before and after it
\* spawns its process; judging what it returned; out of the loop; returned, or rejected.
\* resume: the session the next attempt resumes, if it resumes one.
ResilientTypeOK ==
  resilient \in [phase : {"idle", "top", "enrich", "process", "judge", "picked", "over",
                          "rejected"},
                 policy : Policies, aborted : BOOLEAN, checkpoint : BOOLEAN,
                 retries : 0..MaxRetries, continues : 0..MaxAutoContinues,
                 resume : {"no", "named", "unknown"},
                 last : Results \cup {NoResult}, best : Results \cup {NoResult},
                 result : Results \cup {NoResult}]

ResilientInit ==
  \E p \in Policies :
    resilient = [phase |-> "idle", policy |-> p, aborted |-> FALSE, checkpoint |-> FALSE,
                 retries |-> 0, continues |-> 0, resume |-> "no", last |-> NoResult,
                 best |-> NoResult, result |-> NoResult]

\* run() is called; its signal may have been aborted before.
Called ==
  /\ resilient.phase = "idle"
  /\ resilient' = [resilient EXCEPT !.phase = "top"]

\* An abort only sets the signal; its listener reaches a process that exists.
Abort ==
  /\ resilient.phase \notin {"over", "rejected"} /\ ~ resilient.aborted
  /\ resilient' = [resilient EXCEPT !.aborted = TRUE]

\* retryLoop up to the await of the attempt; runSingle asks no signal.
Better(a, b) == a.score > b.score
AttemptStarts ==
  /\ resilient.phase = "top"
  /\ ~ resilient.aborted \/ resilient.policy = "NONE"
  /\ resilient' = [resilient EXCEPT !.phase = "enrich", !.checkpoint = FALSE]
AttemptSpawns ==
  /\ resilient.phase = "enrich"
  /\ resilient' = [resilient EXCEPT !.phase = "process"]

\* The attempt ends; a checkpoint is there if the watchdog killed it.
AttemptEnds ==
  /\ resilient.phase = "process"
  /\ resilient.policy # "NONE"
  /\ \E r \in Results, killed \in BOOLEAN :
       /\ killed => r.end = "signal"
       /\ resilient' =
            IF resilient.aborted
            THEN [resilient EXCEPT !.phase = "picked", !.last =
                    IF resilient.best = NoResult THEN r ELSE resilient.best]
            ELSE [resilient EXCEPT !.phase = "judge", !.checkpoint = killed, !.last = r,
                    !.best = IF @ = NoResult \/ Better(r, @) THEN r ELSE @]

\* runSingle: without retries its result is the result.
SingleEnds ==
  /\ resilient.phase = "process" /\ resilient.policy = "NONE"
  /\ \E r \in Results : resilient' = [resilient EXCEPT !.phase = "over", !.result = r]

\* The process could not be spawned: the attempt rejects, nothing on the way out of
\* run() catches it, and what earlier attempts returned goes with it.
AttemptRejects ==
  /\ resilient.phase = "process"
  /\ resilient' = [resilient EXCEPT !.phase = "rejected", !.last = NoResult,
                                    !.best = NoResult, !.result = NoResult]

\* What a model may be asked about a result (spawnHaikuRaw, 30 s): any answer, and
\* the last of these when it fails.
AssessContextLoss == {"lost", "ok"}
AssessPremature == {"incomplete", "complete"}
AssessBestResult(a, b) == {b, a}

\* A strategy decides for another attempt, which may resume session s.
Session(r) == IF r.session THEN "named" ELSE "unknown"
Retry(s) == resilient' = [resilient EXCEPT !.phase = "top", !.checkpoint = FALSE,
                                           !.retries = @ + 1, !.resume = s]
MayRetry == resilient.phase = "judge" /\ resilient.retries < MaxRetries

\* tryToolTimeout: it resumes if no other tool was in progress.
ToolTimeout ==
  /\ MayRetry /\ resilient.checkpoint
  /\ \E others \in BOOLEAN :
       Retry(IF ~ others /\ resilient.last.session THEN "named" ELSE "no")

\* trySignalCrash: only the first retry resumes. An error may be one, too: its
\* text is searched for the exit code of a signal.
Crashed == resilient.last.end \in {"signal", "error"}
SignalCrash ==
  /\ MayRetry /\ ~ resilient.checkpoint /\ Crashed
  /\ Retry(IF resilient.last.session /\ resilient.retries = 0 THEN "named" ELSE "no")

\* tryContextLoss: by a heuristic or by an assessment.
ContextLoss ==
  /\ MayRetry /\ ~ resilient.checkpoint /\ resilient.last.end # "signal"
  /\ resilient.policy = "FULL"
  /\ "lost" \in AssessContextLoss
  /\ Retry("no")

\* tryPrematureCompletion: at max_tokens, or an end_turn that gave up or that
\* the assessment calls incomplete.
PrematureCandidate(r) == Completed(r) /\ r.session
PrematureCompletion ==
  /\ MayRetry /\ ~ resilient.checkpoint
  /\ PrematureCandidate(resilient.last)
  /\ resilient.last.end = "end_turn" => "incomplete" \in AssessPremature
  /\ Retry(Session(resilient.last))

\* No strategy wants another attempt; the loop is also left at its top once the
\* signal is set, with nothing.
Unfinished(r) ==
  r.end = "signal" \/ (r.session /\ r.end \in {"max_tokens", "abandoned"})
Settled(r) == resilient.retries = MaxRetries \/ ~ Unfinished(r)
LoopBreaks ==
  /\ resilient.phase = "judge" /\ Settled(resilient.last)
  /\ resilient' = [resilient EXCEPT !.phase = "picked"]
LoopAborted ==
  /\ resilient.phase = "top" /\ resilient.aborted /\ resilient.policy # "NONE"
  /\ resilient' = [resilient EXCEPT !.phase = "picked", !.last = NoResult]

\* Mutant: the last attempt is what counts.
KeptLast(r) == {resilient.last}

\* What the loop left: after the first loop the result of it (FULL: the better
\* one, which an assessment picks); after an auto-continue, the better one.
FirstPick ==
  IF resilient.last = NoResult THEN {resilient.best}
  ELSE IF resilient.policy = "FULL" /\ resilient.retries > 0
       THEN AssessBestResult(resilient.last, resilient.best) ELSE {resilient.last}
Kept(r) == IF resilient.last = NoResult \/ Better(r, resilient.last)
           THEN {r} ELSE {resilient.last}
Picks == IF resilient.continues = 0 THEN FirstPick
         ELSE Kept(resilient.result)

\* Mutant: a run that named no session is continued, too.
ShouldContinueUnnamed(r) == r.end \in {"signal", "abandoned"}

\* autoContinue: shouldAutoContinue, then a retry loop of its own.
ShouldAutoContinue(r) == r.session /\ r.end \in {"signal", "abandoned"}
\* Mutant: without the budget of the policy.
GoesOnAlways(r) == ~ resilient.aborted /\ ShouldAutoContinue(r)
GoesOn(r) ==
  /\ ~ resilient.aborted /\ resilient.continues < MaxAutoContinues
  /\ ShouldAutoContinue(r)
AutoContinues ==
  /\ resilient.phase = "picked"
  /\ \E r \in Picks :
       /\ GoesOn(r)
       /\ resilient' = [resilient EXCEPT
            !.phase = "top", !.continues = @ + 1, !.retries = 0, !.checkpoint = FALSE,
            !.resume = Session(r), !.best = NoResult, !.last = NoResult, !.result = r]
Returns ==
  /\ resilient.phase = "picked"
  /\ \E r \in Picks :
       /\ ~ GoesOn(r)
       /\ resilient' = [resilient EXCEPT !.phase = "over", !.result = r]

ResilientNext ==
  \/ Called \/ Abort \/ AttemptStarts \/ AttemptSpawns \/ AttemptEnds \/ SingleEnds
  \/ AttemptRejects \/ ToolTimeout \/ SignalCrash \/ ContextLoss \/ PrematureCompletion
  \/ LoopBreaks \/ LoopAborted \/ AutoContinues \/ Returns

\* Every attempt ends (HungRunEnds of ClaudeEngine, or the agent finishes), and
\* so does every assessment, which has a timeout of its own.
ResilientFairness ==
  WF_resilient(ResilientNext /\ ~ Abort /\ ~ Called)

ResilientSpec == ResilientInit /\ [][ResilientNext]_resilient /\ ResilientFairness
-----------------------------------------------------------------------------
\* However results, retries, auto-continues and aborts alternate, the run returns or
\* rejects: each strategy and each auto-continue spends a bounded budget.
ResilientReturns == resilient.phase = "top" ~> resilient.phase \in {"over", "rejected"}

\* An attempt only ever resumes a session that this run's own agent has named:
\* with an unnamed one the CLI would take up the directory's latest conversation.
ResumesOwnSession == resilient.resume # "unknown"

\* A run never returns less than it had: an auto-continue that ends worse, or
\* is aborted, does not cost the result it continued. Only an attempt whose process
\* cannot be spawned does, and then the run returns nothing.
NeverReturnsLess ==
  [][resilient.result # NoResult =>
       \/ resilient'.result.score >= resilient.result.score
       \/ resilient.phase = "process" /\ resilient'.phase = "rejected"]_resilient
=============================================================================
