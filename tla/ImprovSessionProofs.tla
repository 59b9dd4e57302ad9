-------------------------- MODULE ImprovSessionProofs --------------------------
(* Proofs about ImprovSession: for any number of prompts and restarts that a   *)
(* run told to go on resumes its conversation, and, for one prompt at a time   *)
(* in one life of the CLI, that a cancellation reaches the agents, that each   *)
(* movement ends once and that the web is told so.                             *)
EXTENDS ImprovSession, SequenceTheorems, TLAPS

Movements == [seq : Nat, outcome : {"pending", "done", "cancelled", "error"}]

-------------------------------------------------------------------------------
(* The history                                                                 *)

(* Recording a movement replaces one or adds one.                              *)
LEMMA RecordedType ==
    ASSUME NEW log \in Seq(Movements), NEW n \in Nat,
           NEW o \in {"pending", "done", "cancelled", "error"}
    PROVE  Recorded(log, n, o) \in Seq(Movements)
<1>1. Movement(n, o) \in Movements
  BY DEF Movement, Movements
<1>2. Append(log, Movement(n, o)) \in Seq(Movements)
  BY <1>1, AppendProperties
<1>3. ASSUME NEW k PROVE [log EXCEPT ![k] = Movement(n, o)] \in Seq(Movements)
  <2>1. log \in [1..Len(log) -> Movements] /\ Len(log) \in Nat
    BY LenProperties
  <2>2. [log EXCEPT ![k] = Movement(n, o)] \in [1..Len(log) -> Movements]
    BY <1>1, <2>1
  <2> QED
    BY <2>1, <2>2, IsASeq
<1> QED
  BY <1>2, <1>3 DEF Recorded

-------------------------------------------------------------------------------
(* Types: what is a flag, and what is not                                      *)

Flags ==
    /\ isExecuting \in BOOLEAN /\ cancelled \in BOOLEAN
    /\ cancelCompleteEmitted \in BOOLEAN /\ autoContinuePending \in BOOLEAN
    /\ claudeSessionId \in BOOLEAN /\ savedSessionId \in BOOLEAN
    /\ isFirstPrompt \in BOOLEAN /\ isResumedSession \in BOOLEAN
    /\ webExecuting \in BOOLEAN

Counts ==
    /\ autoContinueCount \in 0..MAX_AUTO_CONTINUES /\ callbacks \in Nat
    /\ currentSequenceNumber \in Nat
    /\ movements \in Seq(Movements)
    /\ prompts \in 0..MaxPrompts /\ restarts \in 0..MaxRestarts

Activations ==
    /\ currentRunner \in Execs \cup {None}
    /\ pc \in [Execs -> {"idle", "eta", "launching", "running", "assess", "judge",
                         "backoff", "select"}]
    /\ seq \in [Execs -> Nat]
    /\ retryNumber \in [Execs -> 0..maxRetries]
    /\ recovery \in [Execs -> {"none", "fresh", "resume"}]
    /\ own \in [Execs -> {"task", "goOn"}] /\ prompt \in [Execs -> {"task", "goOn"}]
    /\ useResume \in [Execs -> BOOLEAN]
    /\ flag \in [Execs -> {"none", "resume", "continue"}]
    /\ result \in [Execs -> Results]
    /\ killed \subseteq Execs
    /\ ends \in [Execs -> Nat]

(* A model is only asked whether an answer is complete while a retry is left.  *)
JudgesSound == \A x \in Execs : pc[x] = "judge" => MayRetry(x)

LEMMA TypeParts == TypeOK <=> Flags /\ Counts /\ Activations
BY Zenon DEF TypeOK, Flags, Counts, Activations, Movements

LEMMA TypeInit == Init => Flags /\ Counts /\ Activations
<1> SUFFICES ASSUME Init PROVE Flags /\ Counts /\ Activations
  OBVIOUS
<1>1. Flags
  BY DEF Init, Flags
<1>2. Counts
  BY ImprovConstants, EmptySeq DEF Init, Counts, ImprovConstants, MAX_AUTO_CONTINUES
<1>3. Activations
  BY DEF Init, Activations, maxRetries, NoResult, Results
<1> QED
  BY <1>1, <1>2, <1>3

(* A second retry budget is never opened: the strategies ask for it.           *)
LEMMA RetryBudget ==
    ASSUME Activations, NEW x \in Execs, MayRetry(x)
    PROVE  NextRetry(x) \in 0..maxRetries
BY DEF Activations, MayRetry, NextRetry, maxRetries

LEMMA FlagsStep == Flags /\ [Next]_vars => Flags'
<1> SUFFICES ASSUME Flags, [Next]_vars PROVE Flags'
  OBVIOUS
<1> USE DEF Flags, vars, autoVars, cancelVars, identity, retryVars, runVars, bounds
<1>1. ASSUME NEW x \in Execs, Execute(x) \/ AutoContinue(x) PROVE Flags'
  BY <1>1 DEF Execute, AutoContinue, Enqueue
<1>2. ASSUME NEW x \in Execs, StartMovement(x) \/ Retry(x) \/ Spawn(x) PROVE Flags'
  BY <1>2 DEF StartMovement, Retry, Spawn, Elsewhere
<1>3. ASSUME NEW x \in Execs, StartCancelled(x) \/ RetryCancelled(x) PROVE Flags'
  BY <1>3 DEF StartCancelled, RetryCancelled, EndCancelled, ResetExecutionState, Announce, Elsewhere
<1>4. ASSUME NEW x \in Execs, StartFailed(x) \/ LaunchFailed(x) \/ RetryFailed(x) PROVE Flags'
  BY <1>4 DEF StartFailed, LaunchFailed, RetryFailed, EndFailed, ResetExecutionState, Announce, Elsewhere
<1>5. ASSUME NEW x \in Execs, RunEnds(x) \/ AskWhetherFinished(x) \/ AskForBest(x) PROVE Flags'
  BY <1>5 DEF RunEnds, AskWhetherFinished, AskForBest
<1>6. ASSUME NEW x \in Execs,
             RetryCrash(x) \/ RetryContextLoss(x) \/ RetryToolTimeout(x) \/ RetryUnfinished(x)
      PROVE  Flags'
  BY <1>6 DEF RetryCrash, RetryContextLoss, RetryToolTimeout, RetryUnfinished, GoAgain, Waits
<1>7. ASSUME NEW x \in Execs, RunCancelled(x) PROVE Flags'
  BY <1>7 DEF RunCancelled, EndCancelled, ResetExecutionState, Announce
<1>8. ASSUME NEW x \in Execs, Complete(x) PROVE Flags'
  BY <1>8 DEF Complete, ScheduleAutoContinue, Announce
<1>9. CASE DropAutoContinue \/ Cancel \/ UNCHANGED vars
  BY <1>9 DEF DropAutoContinue, Cancel
<1>10. CASE Restart
  BY <1>10 DEF Restart
<1> QED
  BY <1>1, <1>2, <1>3, <1>4, <1>5, <1>6, <1>7, <1>8, <1>9, <1>10 DEF Next, ExecStep

LEMMA CountsStep == Counts /\ Activations /\ [Next]_vars => Counts'
<1> SUFFICES ASSUME Counts, Activations, [Next]_vars PROVE Counts'
  OBVIOUS
<1> USE ImprovConstants, LenProperties
    DEF Counts, ImprovConstants, MAX_AUTO_CONTINUES, vars, autoVars, cancelVars, identity,
        retryVars, runVars, bounds
<1>0. ASSUME NEW x \in Execs PROVE seq[x] \in Nat /\ Begun(x) \in Seq(Movements)
  <2>1. seq[x] \in Nat
    BY DEF Activations
  <2>2. Movement(seq[x], "pending") \in Movements
    BY <2>1 DEF Movement, Movements
  <2> QED
    BY <2>1, <2>2, AppendProperties DEF Begun
<1>1. ASSUME NEW x \in Execs, Execute(x) \/ AutoContinue(x) PROVE Counts'
  BY <1>1 DEF Execute, AutoContinue, Enqueue
<1>2. ASSUME NEW x \in Execs, StartMovement(x) \/ Retry(x) \/ Spawn(x) PROVE Counts'
  BY <1>0, <1>2 DEF StartMovement, Retry, Spawn, Elsewhere
<1>3. ASSUME NEW x \in Execs, StartCancelled(x) \/ RetryCancelled(x) PROVE Counts'
  BY <1>0, <1>3, RecordedType DEF StartCancelled, RetryCancelled, EndCancelled, Elsewhere
<1>4. ASSUME NEW x \in Execs, StartFailed(x) \/ LaunchFailed(x) \/ RetryFailed(x) PROVE Counts'
  BY <1>0, <1>4, RecordedType DEF StartFailed, LaunchFailed, RetryFailed, EndFailed, Elsewhere
<1>5. ASSUME NEW x \in Execs, RunEnds(x) \/ AskWhetherFinished(x) \/ AskForBest(x) PROVE Counts'
  BY <1>5 DEF RunEnds, AskWhetherFinished, AskForBest
<1>6. ASSUME NEW x \in Execs,
             RetryCrash(x) \/ RetryContextLoss(x) \/ RetryToolTimeout(x) \/ RetryUnfinished(x)
      PROVE  Counts'
  BY <1>6 DEF RetryCrash, RetryContextLoss, RetryToolTimeout, RetryUnfinished, Waits
<1>7. ASSUME NEW x \in Execs, RunCancelled(x) PROVE Counts'
  BY <1>0, <1>7, RecordedType DEF RunCancelled, EndCancelled
<1>8. ASSUME NEW x \in Execs, Complete(x) PROVE Counts'
  <2>1. movements' \in Seq(Movements)
    BY <1>0, <1>8, RecordedType DEF Complete
  <2>2. autoContinueCount' \in 0..1 /\ callbacks' \in Nat
    BY <1>8 DEF Complete, ScheduleAutoContinue, MayAutoContinue, CountContinued
  <2> QED
    BY <1>8, <2>1, <2>2 DEF Complete
<1>9. CASE Cancel
  BY <1>9, RecordedType DEF Cancel
<1>10. CASE DropAutoContinue \/ UNCHANGED vars
  BY <1>10 DEF DropAutoContinue
<1>11. CASE Restart
  BY <1>11 DEF Restart
<1> QED
  BY <1>1, <1>2, <1>3, <1>4, <1>5, <1>6, <1>7, <1>8, <1>9, <1>10, <1>11 DEF Next, ExecStep

LEMMA ActivationsStep == Counts /\ Activations /\ JudgesSound /\ [Next]_vars => Activations'
<1> SUFFICES ASSUME Counts, Activations, JudgesSound, [Next]_vars PROVE Activations'
  OBVIOUS
<1> USE DEF Activations, vars, autoVars, cancelVars, identity, retryVars, runVars, bounds
<1>1. ASSUME NEW x \in Execs, Execute(x) \/ AutoContinue(x) PROVE Activations'
  <2>1. Len(movements) + 1 \in Nat /\ NoResult \in Results /\ 0 \in 0..maxRetries
    BY LenProperties DEF Counts, NoResult, Results, maxRetries
  <2>2. PICK given \in {"task", "goOn"} : Enqueue(x, given)
    BY <1>1 DEF Execute, AutoContinue
  <2> QED
    BY <1>1, <2>1, <2>2 DEF Enqueue, Goto
<1>2. ASSUME NEW x \in Execs, StartMovement(x) \/ Retry(x) PROVE Activations'
  <2>1. /\ useResume' = [useResume EXCEPT ![x] = Resumes(x)] /\ Resumes(x) \in BOOLEAN
        /\ UNCHANGED <<seq, own, retryNumber, prompt, result, ends>>
        /\ recovery' = [recovery EXCEPT ![x] = "none"]
        /\ \E f \in {"none", "resume", "continue"} : flag' = [flag EXCEPT ![x] = f]
        /\ \E l \in {"launching", "running"} : pc' = [pc EXCEPT ![x] = l]
        /\ currentRunner' = x /\ killed' = killed \ {x}
    BY <1>2 DEF StartMovement, Retry, Launch, Goto, Elsewhere, Resumes
  <2> QED
    BY <2>1
<1>3. ASSUME NEW x \in Execs, StartCancelled(x) \/ RetryCancelled(x) PROVE Activations'
  BY <1>3 DEF StartCancelled, RetryCancelled, EndCancelled, Announce, ResetExecutionState,
              Goto, Elsewhere
<1>4. ASSUME NEW x \in Execs, StartFailed(x) \/ LaunchFailed(x) \/ RetryFailed(x)
      PROVE  Activations'
  BY <1>4 DEF StartFailed, LaunchFailed, RetryFailed, EndFailed, Announce, ResetExecutionState,
              Goto, Elsewhere
<1>5. ASSUME NEW x \in Execs,
             Spawn(x) \/ RunEnds(x) \/ AskWhetherFinished(x) \/ AskForBest(x)
      PROVE  Activations'
  BY <1>5 DEF Spawn, RunEnds, AskWhetherFinished, AskForBest, Goto, Elsewhere
<1>6. ASSUME NEW x \in Execs,
             RetryCrash(x) \/ RetryContextLoss(x) \/ RetryToolTimeout(x) \/ RetryUnfinished(x)
      PROVE  Activations'
  <2>1. MayRetry(x)
    BY <1>6 DEF RetryCrash, RetryContextLoss, RetryToolTimeout, RetryUnfinished, Crashed,
                ContextLost, ToolTimedOut, JudgesSound
  <2> QED
    BY <1>6, <2>1, RetryBudget
       DEF RetryCrash, RetryContextLoss, RetryToolTimeout, RetryUnfinished, GoAgain, Waits,
           FirstResumes, TimeoutPrompt, Goto
<1>7. ASSUME NEW x \in Execs, RunCancelled(x) PROVE Activations'
  BY <1>7 DEF RunCancelled, EndCancelled, ResetExecutionState, Announce, Goto
<1>8. ASSUME NEW x \in Execs, Complete(x) PROVE Activations'
  BY <1>8 DEF Complete, Announce, Goto
<1>9. CASE Cancel
  BY <1>9 DEF Cancel, Signalled
<1>10. CASE DropAutoContinue \/ UNCHANGED vars
  BY <1>10 DEF DropAutoContinue
<1>11. CASE Restart
  BY <1>11 DEF Restart
<1> QED
  BY <1>1, <1>2, <1>3, <1>4, <1>5, <1>6, <1>7, <1>8, <1>9, <1>10, <1>11 DEF Next, ExecStep

-------------------------------------------------------------------------------
(* Runs that are told to go on                                                 *)

(* A retry that is to go on will resume: by the session the strategy chose, or *)
(* by the one that the watchdog's checkpoint names.                            *)
GoOnSound ==
    \A x \in Execs :
        /\ pc[x] = "eta" => retryNumber[x] = 0
        /\ pc[x] = "backoff" => retryNumber[x] # 0
        /\ retryNumber[x] = 0 => prompt[x] = own[x]
        /\ pc[x] = "backoff" /\ own[x] = "task" /\ prompt[x] = "goOn" =>
              \/ recovery[x] = "resume"
              \/ recovery[x] = "none" /\ result[x].checkpoint = "resumable"
        /\ pc[x] \in {"launching", "running"} /\ own[x] = "task" /\ prompt[x] = "goOn" =>
              flag[x] = "resume"

LEMMA GoOnStep ==
    Activations /\ JudgesSound /\ GoOnSound /\ [Next]_vars => JudgesSound' /\ GoOnSound'
<1> SUFFICES ASSUME Activations, JudgesSound, GoOnSound, [Next]_vars
             PROVE  JudgesSound' /\ GoOnSound'
  OBVIOUS
<1> USE DEF vars, autoVars, cancelVars, identity, retryVars, runVars, bounds, JudgesSound, MayRetry,
            GoOnSound
<1>1. ASSUME NEW x \in Execs, Execute(x) \/ AutoContinue(x) PROVE JudgesSound' /\ GoOnSound'
  <2>1. PICK given \in {"task", "goOn"} : Enqueue(x, given)
    BY <1>1 DEF Execute, AutoContinue
  <2> QED
    BY <2>1 DEF Enqueue, Goto, Activations
<1>2. ASSUME NEW x \in Execs, StartMovement(x) \/ Retry(x) PROVE JudgesSound' /\ GoOnSound'
  <2>1. /\ UNCHANGED <<retryNumber, own, prompt, result>>
        /\ \E l \in {"launching", "running"} : pc' = [pc EXCEPT ![x] = l]
    BY <1>2 DEF StartMovement, Retry, Launch, Goto, Elsewhere
  <2>2. flag' = [flag EXCEPT ![x] = IF SessionKnown(x) THEN "resume"
                                    ELSE IF Resumes(x) THEN "continue" ELSE "none"]
        /\ recovery' = [recovery EXCEPT ![x] = "none"]
    BY <1>2 DEF StartMovement, Retry, Launch
  <2>3. own[x] = "task" /\ prompt[x] = "goOn" => SessionKnown(x)
    BY <1>2 DEF StartMovement, Retry, SessionKnown, Resumes
  <2> QED
    BY <2>1, <2>2, <2>3 DEF Activations
<1>3. ASSUME NEW x \in Execs,
             \/ StartCancelled(x) \/ RetryCancelled(x) \/ RunCancelled(x)
             \/ StartFailed(x) \/ LaunchFailed(x) \/ RetryFailed(x) \/ Complete(x)
      PROVE  JudgesSound' /\ GoOnSound'
  <2>1. pc' = [pc EXCEPT ![x] = "idle"] /\ UNCHANGED <<retryVars, own, flag, result>>
    BY <1>3 DEF StartCancelled, RetryCancelled, RunCancelled, EndCancelled, StartFailed,
                LaunchFailed, RetryFailed, EndFailed, Complete, Goto, Elsewhere
  <2> QED
    BY <2>1 DEF Activations
<1>4. ASSUME NEW x \in Execs, Spawn(x) PROVE JudgesSound' /\ GoOnSound'
  BY <1>4 DEF Spawn, Goto, Elsewhere, Activations
<1>5. ASSUME NEW x \in Execs, RunEnds(x) PROVE JudgesSound' /\ GoOnSound'
  <2>1. /\ pc' = [pc EXCEPT ![x] = "assess"] /\ UNCHANGED <<retryVars, own, flag>>
        /\ \E r \in Results : result' = [result EXCEPT ![x] = r]
    BY <1>5 DEF RunEnds, Goto
  <2> QED
    BY <2>1 DEF Activations
<1>6. ASSUME NEW x \in Execs, AskWhetherFinished(x) \/ AskForBest(x)
      PROVE  JudgesSound' /\ GoOnSound'
  <2>1. \/ pc' = [pc EXCEPT ![x] = "judge"] /\ MayRetry(x)
        \/ pc' = [pc EXCEPT ![x] = "select"]
    BY <1>6 DEF AskWhetherFinished, AskForBest, Doubtful, Goto
  <2>2. UNCHANGED <<retryVars, own, flag, result>>
    BY <1>6 DEF AskWhetherFinished, AskForBest
  <2> QED
    BY <2>1, <2>2 DEF Activations
<1>7. ASSUME NEW x \in Execs,
             RetryCrash(x) \/ RetryContextLoss(x) \/ RetryToolTimeout(x) \/ RetryUnfinished(x)
      PROVE  JudgesSound' /\ GoOnSound'
  <2>1. /\ pc' = [pc EXCEPT ![x] = "backoff"] /\ UNCHANGED <<own, flag, result>>
        /\ retryNumber' = [retryNumber EXCEPT ![x] = retryNumber[x] + 1]
    BY <1>7 DEF RetryCrash, RetryContextLoss, RetryToolTimeout, RetryUnfinished, GoAgain, Waits,
                Goto, NextRetry
  <2>2. retryNumber[x] + 1 # 0
    BY DEF Activations, maxRetries
  <2>3. \E how \in {"none", "fresh", "resume"}, what \in {"task", "goOn"} :
           /\ recovery' = [recovery EXCEPT ![x] = how] /\ prompt' = [prompt EXCEPT ![x] = what]
           /\ own[x] = "task" /\ what = "goOn" =>
                               \/ how = "resume"
                               \/ how = "none" /\ result[x].checkpoint = "resumable"
    <3>0. own[x] \in {"task", "goOn"}
      BY DEF Activations
    <3>1. CASE RetryCrash(x)
      BY <3>0, <3>1 DEF RetryCrash, GoAgain, FirstResumes
    <3>2. CASE RetryContextLoss(x)
      BY <3>0, <3>2 DEF RetryContextLoss, GoAgain, FirstResumes
    <3>3. CASE RetryToolTimeout(x)
      BY <3>0, <3>3 DEF RetryToolTimeout, GoAgain, TimeoutPrompt
    <3>4. CASE RetryUnfinished(x)
      BY <3>4 DEF RetryUnfinished, GoAgain
    <3> QED
      BY <1>7, <3>1, <3>2, <3>3, <3>4
  <2> QED
    BY <2>1, <2>2, <2>3 DEF Activations
<1>8. CASE DropAutoContinue \/ Cancel \/ UNCHANGED vars
  BY <1>8 DEF DropAutoContinue, Cancel
<1>9. CASE Restart
  BY <1>9 DEF Restart
<1> QED
  BY <1>1, <1>2, <1>3, <1>4, <1>5, <1>6, <1>7, <1>8, <1>9 DEF Next, ExecStep

SoundTypes == Flags /\ Counts /\ Activations /\ JudgesSound /\ GoOnSound

LEMMA SoundTypesInvariant == Spec => []SoundTypes
<1>1. Init => SoundTypes
  <2> SUFFICES ASSUME Init PROVE JudgesSound /\ GoOnSound
    BY TypeInit DEF SoundTypes
  <2> QED
    BY DEF Init, JudgesSound, GoOnSound
<1>2. SoundTypes /\ [Next]_vars => SoundTypes'
  BY FlagsStep, CountsStep, ActivationsStep, GoOnStep DEF SoundTypes
<1> QED
  BY <1>1, <1>2, PTL DEF Spec

(* The session's fields, its history and its activations are what their types  *)
(* say: the retry strategies share a budget of maxRetries, and a prompt is     *)
(* continued by itself at most MAX_AUTO_CONTINUES times.                       *)
THEOREM ImprovTypeCorrect == Spec => []TypeOK
<1>1. SoundTypes => TypeOK
  BY TypeParts DEF SoundTypes
<1> QED
  BY <1>1, SoundTypesInvariant, PTL

(* A prompt of the user that is retried is told only to go on where its        *)
(* conversation is resumed, however many prompts execute at once and wherever  *)
(* the CLI was restarted (retry-recovery-strategies.ts, determineResumeStrategy). *)
THEOREM GoOnIsResumedHolds == Spec => []GoOnIsResumed
<1>1. SoundTypes => GoOnIsResumed
  BY DEF SoundTypes, GoOnSound, GoOnIsResumed
<1> QED
  BY <1>1, SoundTypesInvariant, PTL

-------------------------------------------------------------------------------
(* One prompt at a time, in one life of the CLI                                *)

(* One activation, the ETA profile cached, and no restart: the setting of the  *)
(* run that checks the same.                                                   *)
OnePrompt == /\ \A x, y \in Execs : x = y
             /\ SlowEta = FALSE /\ MaxRestarts = 0

(* A prompt is enriched only after a restart; a run of Claude is the           *)
(* session's runner until it is signalled, and none begins once cancelled.     *)
Reached ==
    /\ ~isResumedSession
    /\ \A x \in Execs :
          /\ pc[x] # "launching"
          /\ pc[x] = "eta" => ~cancelled
          /\ pc[x] = "running" => currentRunner = x \/ x \in killed
          /\ pc[x] = "running" /\ cancelled => x \in killed

(* Movements are numbered in order; one that executes is the last, recorded    *)
(* once its activation has its ETA profile.                                    *)
Numbers ==
    /\ \A k \in 1..Len(movements) : movements[k].seq = k
    /\ \A x \in Execs :
          /\ pc[x] = "eta" => seq[x] = Len(movements) + 1
          /\ Live(x) /\ pc[x] # "eta" => seq[x] = Len(movements) /\ seq[x] # 0
          /\ Live(x) => seq[x] = currentSequenceNumber

(* Only an activation executes.                                                *)
Busy == isExecuting \/ webExecuting => Execs # {}

(* What was announced: nothing while the movement executes and is not          *)
(* cancelled, once after that.                                                 *)
Announced ==
    /\ Busy
    /\ \A x \in Execs :
          /\ pc[x] = "eta" => ~cancelCompleteEmitted /\ isExecuting
          /\ Live(x) => /\ ends[x] = IF cancelCompleteEmitted THEN 1 ELSE 0
                        /\ isExecuting <=> ~cancelCompleteEmitted
                        /\ cancelCompleteEmitted => cancelled
                        /\ pc[x] # "eta" => (webExecuting <=> isExecuting)
          /\ ~Live(x) => /\ ~isExecuting /\ ~webExecuting
                         /\ ends[x] = IF seq[x] = 0 THEN 0 ELSE 1

(* Every movement, made or about to be made, is that of a prompt or of the one *)
(* continuation that a prompt may have.                                        *)
Starting == IF \E x \in Execs : pc[x] = "eta" THEN 1 ELSE 0
Pending == IF autoContinuePending THEN 1 ELSE 0
Budget ==
    /\ currentSequenceNumber <= Len(movements) + Starting
    /\ IF prompts = 0
       THEN Len(movements) = 0 /\ ~autoContinuePending /\ \A x \in Execs : ~Live(x)
       ELSE Len(movements) + Starting + Pending + (1 - autoContinueCount) <= 2 * prompts

OneInv == OnePrompt /\ SoundTypes /\ Reached /\ Numbers /\ Announced

(* Recording a movement that the history has keeps numbers and length.         *)
LEMMA RecordedKeeps ==
    ASSUME NEW log \in Seq(Movements), \A k \in 1..Len(log) : log[k].seq = k,
           NEW n \in 1..Len(log), NEW o \in {"pending", "done", "cancelled", "error"}
    PROVE  /\ Len(Recorded(log, n, o)) = Len(log)
           /\ \A k \in 1..Len(log) : Recorded(log, n, o)[k].seq = k
<1>1. Numbered(log, n) = {n}
  BY DEF Numbered
<1>2. Recorded(log, n, o) = [log EXCEPT ![n] = Movement(n, o)]
  <2> DEFINE k == CHOOSE k \in Numbered(log, n) : \A j \in Numbered(log, n) : k <= j
  <2>1. n \in Numbered(log, n) /\ \A j \in Numbered(log, n) : n <= j
    BY <1>1
  <2>2. k \in Numbered(log, n)
    BY <2>1
  <2>3. k = n
    BY <1>1, <2>2
  <2> HIDE DEF k
  <2> QED
    BY <1>1, <2>3 DEF Recorded, k
<1>3. log \in [1..Len(log) -> Movements]
  BY LenProperties
<1> QED
  BY <1>2, <1>3, LenProperties DEF Movement

(* Beginning a movement adds the next number.                                  *)
LEMMA BegunAdds ==
    ASSUME Counts, Activations, Numbers, NEW x \in Execs, pc[x] = "eta"
    PROVE  /\ Begun(x) \in Seq(Movements) /\ Len(Begun(x)) = Len(movements) + 1
           /\ seq[x] \in 1..Len(Begun(x))
           /\ \A k \in 1..Len(Begun(x)) : Begun(x)[k].seq = k
<1>1. seq[x] = Len(movements) + 1 /\ movements \in Seq(Movements) /\ seq[x] \in Nat
  BY DEF Numbers, Counts, Activations
<1>2. Movement(seq[x], "pending") \in Movements
  BY <1>1 DEF Movement, Movements
<1> QED
  BY <1>1, <1>2, AppendProperties, LenProperties DEF Begun, Numbers, Movement

(* How the steps of the one activation change the history.                     *)
LEMMA EndedHistory ==
    ASSUME OneInv, NEW x \in Execs, NEW log \in Seq(Movements),
           \/ pc[x] = "eta" /\ log = Begun(x)
           \/ Live(x) /\ pc[x] # "eta" /\ log = movements,
           NEW o \in {"pending", "done", "cancelled", "error"},
           movements' = log \/ movements' = Recorded(log, seq[x], o)
    PROVE  /\ Len(movements') = IF pc[x] = "eta" THEN Len(movements) + 1 ELSE Len(movements)
           /\ \A k \in 1..Len(movements') : movements'[k].seq = k
<1> USE DEF OneInv, SoundTypes
<1>1. /\ seq[x] \in 1..Len(log) /\ \A k \in 1..Len(log) : log[k].seq = k
      /\ Len(log) = IF pc[x] = "eta" THEN Len(movements) + 1 ELSE Len(movements)
  <2>1. CASE pc[x] = "eta"
    BY <2>1, BegunAdds
  <2>2. CASE pc[x] # "eta"
    BY <2>2, LenProperties DEF Numbers, Counts, Activations
  <2> QED
    BY <2>1, <2>2
<1> QED
  BY <1>1, RecordedKeeps

(* Steps that move an activation on.                                           *)
Moves(x) ==
    /\ pc[x] \in {"running", "assess", "judge"}
    /\ \E l \in {"assess", "judge", "select", "backoff"} : pc' = [pc EXCEPT ![x] = l]
    /\ UNCHANGED <<isExecuting, cancelled, cancelCompleteEmitted, autoContinueCount,
                   autoContinuePending, currentSequenceNumber, movements, isResumedSession,
                   seq, webExecuting, ends, prompts>>

LEMMA MoveSteps ==
    ASSUME OneInv, NEW x \in Execs,
           \/ Spawn(x) \/ RunEnds(x) \/ RetryCrash(x) \/ RetryContextLoss(x)
           \/ RetryToolTimeout(x) \/ AskWhetherFinished(x) \/ RetryUnfinished(x) \/ AskForBest(x)
    PROVE  Moves(x)
<1> USE DEF Moves, Goto, cancelVars, autoVars, identity, bounds
<1>1. ~Spawn(x)
  BY DEF OneInv, Reached, Spawn
<1>2. CASE RunEnds(x)
  BY <1>2 DEF RunEnds
<1>3. CASE RetryCrash(x) \/ RetryContextLoss(x) \/ RetryToolTimeout(x)
  BY <1>3 DEF RetryCrash, RetryContextLoss, RetryToolTimeout, Assessed, GoAgain, Waits
<1>4. CASE RetryUnfinished(x)
  BY <1>4 DEF RetryUnfinished, GoAgain, Waits
<1>5. CASE AskWhetherFinished(x)
  BY <1>5 DEF AskWhetherFinished, Assessed
<1>6. CASE AskForBest(x)
  BY <1>6 DEF AskForBest, Accepted
<1> QED
  BY <1>1, <1>2, <1>3, <1>4, <1>5, <1>6

(* Steps that end an activation.                                               *)
Returns(x) ==
    /\ Live(x) /\ pc' = [pc EXCEPT ![x] = "idle"]
    /\ UNCHANGED <<cancelled, cancelCompleteEmitted, currentSequenceNumber, isResumedSession,
                   seq, prompts>>
    /\ ~isExecuting' /\ ~webExecuting' /\ ends'[x] = 1
    /\ Len(movements') = IF pc[x] = "eta" THEN Len(movements) + 1 ELSE Len(movements)
    /\ \A k \in 1..Len(movements') : movements'[k].seq = k
    /\ \/ autoContinueCount = 0 /\ autoContinueCount' = 1 /\ autoContinuePending'
       \/ UNCHANGED <<autoContinueCount, autoContinuePending>>

(* What is announced of an activation at its end.                              *)
LEMMA AnnouncedOnce ==
    ASSUME OneInv, NEW x \in Execs, Live(x),
           \/ cancelCompleteEmitted /\ ends' = ends /\ webExecuting' = (webExecuting \/ pc[x] = "eta")
           \/ cancelCompleteEmitted /\ ends' = ends /\ webExecuting' = webExecuting
           \/ ~cancelCompleteEmitted /\ Announce(x)
    PROVE  ~webExecuting' /\ ends'[x] = 1
<1>1. /\ ends \in [Execs -> Nat] /\ ends[x] = IF cancelCompleteEmitted THEN 1 ELSE 0
      /\ cancelCompleteEmitted => pc[x] # "eta" /\ ~webExecuting
  BY DEF OneInv, SoundTypes, Activations, Announced
<1>2. CASE cancelCompleteEmitted
  <2>1. ends' = ends /\ ends[x] = 1 /\ pc[x] # "eta" /\ ~webExecuting
    BY <1>1, <1>2
  <2>2. ~webExecuting'
    BY <1>2, <2>1, Zenon
  <2> QED
    BY <2>1, <2>2
<1>3. CASE ~cancelCompleteEmitted
  BY <1>1, <1>3 DEF Announce
<1> QED
  BY <1>2, <1>3

LEMMA ReturnSteps ==
    ASSUME OneInv, NEW x \in Execs,
           \/ StartCancelled(x) \/ RetryCancelled(x) \/ RunCancelled(x) \/ StartFailed(x)
           \/ LaunchFailed(x) \/ RetryFailed(x) \/ Complete(x)
    PROVE  Returns(x)
<1> USE DEF Goto, cancelVars, autoVars, identity, bounds
<1>1. ~StartCancelled(x) /\ ~LaunchFailed(x)
  BY DEF OneInv, Reached, StartCancelled, LaunchFailed
<1>2. /\ Live(x) /\ pc' = [pc EXCEPT ![x] = "idle"]
      /\ UNCHANGED <<cancelled, cancelCompleteEmitted, currentSequenceNumber,
                     isResumedSession, seq, prompts>>
      /\ isExecuting' = FALSE
  BY <1>1 DEF RetryCancelled, RunCancelled, StartFailed, RetryFailed, Complete, Live, Elsewhere,
              EndCancelled, EndFailed, ResetExecutionState, Accepted
<1>3. ~webExecuting' /\ ends'[x] = 1
  <2>1. CASE StartFailed(x)
    <3>1. ~cancelCompleteEmitted
      BY <2>1 DEF StartFailed, OneInv, Announced
    <3> QED
      BY <1>2, <2>1, <3>1, AnnouncedOnce DEF StartFailed, EndFailed
  <2>2. CASE RetryFailed(x)
    <3>1. ~cancelCompleteEmitted
      BY <1>2, <2>2 DEF RetryFailed, StillWanted, OneInv, Announced
    <3> QED
      BY <1>2, <2>2, <3>1, AnnouncedOnce DEF RetryFailed, EndFailed
  <2>3. CASE RetryCancelled(x) \/ RunCancelled(x)
    BY <1>2, <2>3, AnnouncedOnce DEF RetryCancelled, RunCancelled, EndCancelled
  <2>4. CASE Complete(x)
    BY <1>2, <2>4, AnnouncedOnce DEF Complete
  <2> QED
    BY <1>1, <2>1, <2>2, <2>3, <2>4
<1>4. /\ Len(movements') = IF pc[x] = "eta" THEN Len(movements) + 1 ELSE Len(movements)
      /\ \A k \in 1..Len(movements') : movements'[k].seq = k
  <2>0. movements \in Seq(Movements) /\ (pc[x] = "eta" => Begun(x) \in Seq(Movements))
    BY BegunAdds DEF OneInv, SoundTypes, Counts
  <2>1. CASE StartFailed(x)
    <3>1. pc[x] = "eta" /\ movements' = Recorded(Begun(x), seq[x], "error")
      BY <2>1 DEF StartFailed, EndFailed
    <3> QED
      BY <1>2, <2>0, <3>1, EndedHistory
  <2>2. CASE ~StartFailed(x)
    <3>1. pc[x] # "eta" /\ \/ movements' = movements
                           \/ movements' = Recorded(movements, seq[x], "cancelled")
                           \/ movements' = Recorded(movements, seq[x], "error")
                           \/ movements' = Recorded(movements, seq[x], "done")
      BY <1>1, <2>2 DEF RetryCancelled, RunCancelled, RetryFailed, Complete, EndCancelled,
                        EndFailed, Accepted
    <3> QED
      BY <1>2, <2>0, <3>1, EndedHistory
  <2> QED
    BY <2>1, <2>2
<1>5. \/ autoContinueCount = 0 /\ autoContinueCount' = 1 /\ autoContinuePending'
      \/ UNCHANGED <<autoContinueCount, autoContinuePending>>
  <2>1. CASE Complete(x)
    BY <2>1 DEF Complete, ScheduleAutoContinue, MayAutoContinue, CountContinued,
                MAX_AUTO_CONTINUES, OneInv, SoundTypes, Counts
  <2>2. CASE ~Complete(x)
    BY <1>1, <2>2 DEF RetryCancelled, RunCancelled, StartFailed, RetryFailed, Elsewhere
  <2> QED
    BY <2>1, <2>2
<1> QED
  BY <1>2, <1>3, <1>4, <1>5 DEF Returns

(* Steps that begin an activation, for a prompt or a continuation.             *)
Begins(x) ==
    /\ pc[x] = "idle" /\ pc' = [pc EXCEPT ![x] = "eta"]
    /\ isExecuting' /\ ~cancelled' /\ ~cancelCompleteEmitted'
    /\ seq' = [seq EXCEPT ![x] = Len(movements) + 1]
    /\ currentSequenceNumber' = Len(movements) + 1
    /\ ends' = [ends EXCEPT ![x] = 0]
    /\ UNCHANGED <<movements, webExecuting, isResumedSession>>
    /\ ~autoContinuePending'
    /\ \/ prompts' = prompts + 1 /\ autoContinueCount' = 0
       \/ UNCHANGED <<prompts, autoContinueCount>> /\ autoContinuePending

LEMMA BeginSteps ==
    ASSUME NEW x \in Execs, Execute(x) \/ AutoContinue(x)
    PROVE  Begins(x)
<1>1. CASE Execute(x)
  BY <1>1 DEF Execute, Enqueue, Begins, Goto, identity
<1>2. CASE AutoContinue(x)
  BY <1>2 DEF AutoContinue, Enqueue, Begins, Goto, identity, Superseded
<1> QED
  BY <1>1, <1>2

(* Steps that give an activation its runner.                                   *)
Launches(x) ==
    /\ pc[x] \in {"eta", "backoff"} /\ ~cancelled
    /\ pc' = [pc EXCEPT ![x] = "running"] /\ currentRunner' = x
    /\ UNCHANGED <<isExecuting, cancelled, cancelCompleteEmitted, autoContinueCount,
                   autoContinuePending, currentSequenceNumber, isResumedSession, seq, ends,
                   prompts>>
    /\ IF pc[x] = "eta" THEN movements' = Begun(x) /\ webExecuting'
                        ELSE UNCHANGED <<movements, webExecuting>>

LEMMA LaunchSteps ==
    ASSUME OneInv, NEW x \in Execs, StartMovement(x) \/ Retry(x)
    PROVE  Launches(x)
<1>1. ~Enriches(x)
  BY DEF OneInv, Reached, Enriches
<1> USE <1>1 DEF Launches, Launch, Goto, Elsewhere, cancelVars, autoVars, identity, bounds
<1>2. CASE StartMovement(x)
  BY <1>2 DEF StartMovement
<1>3. CASE Retry(x)
  BY <1>3 DEF Retry, StillWanted
<1> QED
  BY <1>2, <1>3

(* Every step is one of these, or one of the session as a whole.               *)
LEMMA StepKinds ==
    ASSUME OneInv, Next
    PROVE  \/ \E x \in Execs : Begins(x) \/ Launches(x) \/ Moves(x) \/ Returns(x)
           \/ DropAutoContinue \/ Cancel
<1>1. ~Restart
  BY DEF Restart, OneInv, OnePrompt, SoundTypes, Counts
<1> QED
  BY <1>1, MoveSteps, ReturnSteps, BeginSteps, LaunchSteps DEF Next, ExecStep

(* While an activation waits for its ETA profile, nothing interrupts it.       *)
LEMMA NotInterrupted ==
    ASSUME OnePrompt, Interruptible, NEW x \in Execs
    PROVE  pc[x] # "eta"
BY DEF OnePrompt, Interruptible

LEMMA ReachedStep == OneInv /\ [Next]_vars => Reached'
<1> SUFFICES ASSUME OneInv, [Next]_vars PROVE Reached'
  OBVIOUS
<1> USE DEF OneInv, OnePrompt, SoundTypes
<1>0. pc \in [Execs -> {"idle", "eta", "launching", "running", "assess", "judge", "backoff", "select"}]
  BY DEF Activations
<1>1. ASSUME NEW x \in Execs, Begins(x) \/ Moves(x) \/ Returns(x) PROVE Reached'
  BY <1>0, <1>1 DEF Reached, Begins, Moves, Returns
<1>2. ASSUME NEW x \in Execs, Launches(x) PROVE Reached'
  BY <1>0, <1>2 DEF Reached, Launches
<1>3. CASE Cancel
  <2>1. /\ cancelled' /\ pc' = pc /\ isResumedSession' = isResumedSession
        /\ killed' = killed \cup {x \in Execs : currentRunner = x /\ pc[x] = "running"}
        /\ Interruptible
    BY <1>3 DEF Cancel, Signalled, identity
  <2> QED
    BY <2>1, NotInterrupted DEF Reached
<1>4. CASE DropAutoContinue \/ UNCHANGED vars
  BY <1>4 DEF DropAutoContinue, vars, cancelVars, identity, runVars, Reached
<1> QED
  BY <1>1, <1>2, <1>3, <1>4, StepKinds

LEMMA NumbersStep == OneInv /\ [Next]_vars => Numbers'
<1> SUFFICES ASSUME OneInv, [Next]_vars PROVE Numbers'
  OBVIOUS
<1> USE DEF OneInv, OnePrompt, SoundTypes
<1>0. /\ pc \in [Execs -> {"idle", "eta", "launching", "running", "assess", "judge", "backoff", "select"}]
      /\ seq \in [Execs -> Nat] /\ Len(movements) \in Nat
  BY LenProperties DEF Activations, Counts
<1>1. ASSUME NEW x \in Execs, Begins(x) PROVE Numbers'
  BY <1>0, <1>1 DEF Numbers, Begins, Live
<1>2. ASSUME NEW x \in Execs, Launches(x) PROVE Numbers'
  <2>1. CASE pc[x] = "eta"
    BY <1>0, <1>2, <2>1, BegunAdds DEF Numbers, Launches, Live
  <2>2. CASE pc[x] # "eta"
    BY <1>0, <1>2, <2>2 DEF Numbers, Launches, Live
  <2> QED
    BY <2>1, <2>2
<1>3. ASSUME NEW x \in Execs, Moves(x) PROVE Numbers'
  BY <1>0, <1>3 DEF Numbers, Moves, Live
<1>4. ASSUME NEW x \in Execs, Returns(x) PROVE Numbers'
  BY <1>0, <1>4 DEF Numbers, Returns, Live
<1>5. CASE Cancel
  <2>1. UNCHANGED <<pc, seq, currentSequenceNumber>> /\ Interruptible
    BY <1>5 DEF Cancel
  <2>2. Len(movements') = Len(movements) /\ \A k \in 1..Len(movements') : movements'[k].seq = k
    <3>1. CASE movements' = movements
      BY <3>1 DEF Numbers
    <3>2. CASE movements' # movements
      <4>1. movements' = Recorded(movements, currentSequenceNumber, "cancelled") /\ isExecuting
        BY <1>5, <3>2 DEF Cancel
      <4>2. PICK x \in Execs : Live(x)
        BY <4>1 DEF Announced, Busy
      <4>3. currentSequenceNumber \in 1..Len(movements)
        <5>1. pc[x] # "eta"
          BY <2>1, NotInterrupted
        <5>2. seq[x] = Len(movements) /\ seq[x] # 0 /\ seq[x] = currentSequenceNumber
          BY <4>2, <5>1 DEF Numbers
        <5> QED
          BY <1>0, <5>2
      <4> QED
        BY <4>1, <4>3, RecordedKeeps DEF Counts, Numbers
    <3> QED
      BY <3>1, <3>2
  <2> QED
    BY <2>1, <2>2 DEF Numbers, Live
<1>6. CASE DropAutoContinue \/ UNCHANGED vars
  BY <1>6 DEF DropAutoContinue, vars, Numbers, Live
<1> QED
  BY <1>1, <1>2, <1>3, <1>4, <1>5, <1>6, StepKinds

LEMMA AnnouncedStep == OneInv /\ [Next]_vars => Announced'
<1> SUFFICES ASSUME OneInv, [Next]_vars PROVE Announced'
  OBVIOUS
<1> USE DEF OneInv, OnePrompt, SoundTypes
<1>0. /\ pc \in [Execs -> {"idle", "eta", "launching", "running", "assess", "judge", "backoff", "select"}]
      /\ seq \in [Execs -> Nat] /\ ends \in [Execs -> Nat] /\ isExecuting \in BOOLEAN
  BY DEF Activations, Flags
<1>1. ASSUME NEW x \in Execs, Begins(x) PROVE Announced'
  BY <1>0, <1>1 DEF Announced, Busy, Begins, Live
<1>2. ASSUME NEW x \in Execs, Launches(x) PROVE Announced'
  BY <1>0, <1>2 DEF Announced, Busy, Launches, Live
<1>3. ASSUME NEW x \in Execs, Moves(x) PROVE Announced'
  BY <1>0, <1>3 DEF Announced, Busy, Moves, Live
<1>4. ASSUME NEW x \in Execs, Returns(x) PROVE Announced'
  <2>1. seq[x] # 0 /\ seq' = seq
    BY <1>0, <1>4 DEF Returns, Live, Numbers
  <2>2. \A y \in Execs : pc'[y] = "idle" /\ ends'[y] = 1 /\ seq'[y] # 0
    BY <1>0, <1>4, <2>1 DEF Returns
  <2>3. ~isExecuting' /\ ~webExecuting'
    BY <1>4 DEF Returns
  <2> QED
    BY <2>2, <2>3 DEF Announced, Busy, Live
<1>5. CASE Cancel
  <2>1. UNCHANGED <<pc, seq>> /\ Interruptible /\ cancelled'
    BY <1>5 DEF Cancel
  <2>2. CASE isExecuting /\ ~cancelCompleteEmitted
    <3>1. /\ cancelCompleteEmitted' /\ ~isExecuting' /\ ~webExecuting'
          /\ ends' = [x \in Execs |-> IF pc[x] # "idle" /\ seq[x] = currentSequenceNumber
                                      THEN ends[x] + 1 ELSE ends[x]]
      BY <1>5, <2>2 DEF Cancel
    <3>2. ASSUME NEW x \in Execs
          PROVE  Live(x) /\ pc[x] # "eta" /\ ends[x] = 0 /\ seq[x] = currentSequenceNumber
      BY <2>1, <2>2, NotInterrupted DEF Announced, Numbers
    <3>3. \A x \in Execs : ends'[x] = 1
      BY <3>1, <3>2 DEF Live
    <3> QED
      BY <2>1, <3>1, <3>2, <3>3 DEF Announced, Busy, Live
  <2>3. CASE ~(isExecuting /\ ~cancelCompleteEmitted)
    <3>1. UNCHANGED <<cancelCompleteEmitted, isExecuting, webExecuting, ends>>
      BY <1>5, <2>3 DEF Cancel
    <3> QED
      BY <2>1, <3>1 DEF Announced, Busy, Live
  <2> QED
    BY <2>2, <2>3
<1>6. CASE DropAutoContinue \/ UNCHANGED vars
  BY <1>6 DEF DropAutoContinue, vars, cancelVars, Announced, Busy, Live
<1> QED
  BY <1>1, <1>2, <1>3, <1>4, <1>5, <1>6, StepKinds

LEMMA BudgetStep == OneInv /\ Budget /\ [Next]_vars => Budget'
<1> SUFFICES ASSUME OneInv, Budget, [Next]_vars PROVE Budget'
  OBVIOUS
<1> USE DEF OneInv, OnePrompt, SoundTypes
<1>0. /\ pc \in [Execs -> {"idle", "eta", "launching", "running", "assess", "judge", "backoff", "select"}]
      /\ Len(movements) \in Nat /\ prompts \in Nat /\ autoContinueCount \in 0..1
      /\ currentSequenceNumber \in Nat /\ autoContinuePending \in BOOLEAN
      /\ Starting \in 0..1 /\ Pending \in 0..1
  BY ImprovConstants, LenProperties
     DEF Activations, Counts, Flags, Starting, Pending, ImprovConstants, MAX_AUTO_CONTINUES
<1>1. ASSUME NEW x \in Execs, Begins(x) PROVE Budget'
  <2>1. Starting = 0 /\ Starting' = 1 /\ Pending' = 0 /\ movements' = movements
    BY <1>0, <1>1 DEF Begins, Starting, Pending
  <2>2. CASE prompts' = prompts + 1 /\ autoContinueCount' = 0
    BY <1>0, <1>1, <2>1, <2>2 DEF Budget, Begins
  <2>3. CASE UNCHANGED <<prompts, autoContinueCount>> /\ autoContinuePending
    BY <1>0, <1>1, <2>1, <2>3 DEF Budget, Begins, Pending
  <2> QED
    BY <1>1, <2>2, <2>3 DEF Begins
<1>2. ASSUME NEW x \in Execs, Launches(x) PROVE Budget'
  <2>1. /\ prompts' = prompts /\ prompts # 0 /\ Starting' = 0 /\ Pending' = Pending
        /\ UNCHANGED <<autoContinueCount, currentSequenceNumber, autoContinuePending>>
    BY <1>0, <1>2 DEF Launches, Starting, Pending, Budget, Live
  <2>2. CASE pc[x] = "eta"
    <3>1. Len(movements') = Len(movements) + 1 /\ Starting = 1
      BY <1>2, <2>2, BegunAdds DEF Launches, Starting
    <3> QED
      BY <1>0, <2>1, <3>1 DEF Budget
  <2>3. CASE pc[x] # "eta"
    <3>1. movements' = movements /\ Starting = 0
      BY <1>2, <2>3 DEF Launches, Starting
    <3> QED
      BY <1>0, <2>1, <3>1 DEF Budget
  <2> QED
    BY <2>2, <2>3
<1>3. ASSUME NEW x \in Execs, Moves(x) PROVE Budget'
  <2>1. /\ prompts' = prompts /\ prompts # 0 /\ Starting' = 0 /\ Starting = 0 /\ Pending' = Pending
        /\ UNCHANGED <<autoContinueCount, currentSequenceNumber, movements>>
    BY <1>0, <1>3 DEF Moves, Starting, Pending, Budget, Live
  <2> QED
    BY <1>0, <2>1 DEF Budget
<1>4. ASSUME NEW x \in Execs, Returns(x) PROVE Budget'
  <2>1. /\ prompts' = prompts /\ prompts # 0 /\ Starting' = 0
        /\ Starting = IF pc[x] = "eta" THEN 1 ELSE 0
        /\ UNCHANGED <<currentSequenceNumber>>
    BY <1>0, <1>4 DEF Returns, Starting, Budget, Live
  <2>2. Len(movements') + Starting' = Len(movements) + Starting
    BY <1>0, <1>4, <2>1 DEF Returns
  <2>3. Pending' - autoContinueCount' <= Pending - autoContinueCount
    BY <1>0, <1>4 DEF Returns, Pending
  <2>4. Len(movements') \in Nat /\ Pending' \in 0..1 /\ autoContinueCount' \in 0..1
    BY <1>0, <1>4, <2>1 DEF Returns, Pending
  <2> QED
    <3>1. /\ currentSequenceNumber <= Len(movements) + Starting
          /\ Len(movements) + Starting + Pending + (1 - autoContinueCount) <= 2 * prompts
      BY <2>1 DEF Budget
    <3>2. /\ currentSequenceNumber' <= Len(movements') + Starting'
          /\ Len(movements') + Starting' + Pending' + (1 - autoContinueCount') <= 2 * prompts'
      <4> DEFINE a == Len(movements)  a1 == Len(movements')  b == Starting  b1 == Starting'
                 c == Pending  c1 == Pending'  d == autoContinueCount  d1 == autoContinueCount'
      <4>0. /\ a \in Nat /\ b \in 0..1 /\ c \in 0..1 /\ d \in 0..1 /\ prompts \in Nat
            /\ currentSequenceNumber \in Nat
        BY <1>0
      <4>1. /\ a1 \in Nat /\ b1 = 0 /\ c1 \in 0..1 /\ d1 \in 0..1
            /\ a1 + b1 = a + b /\ c1 - d1 <= c - d
        BY <2>1, <2>2, <2>3, <2>4
      <4>2. currentSequenceNumber <= a + b /\ a + b + c + (1 - d) <= 2 * prompts
        BY <3>1
      <4> HIDE DEF a, a1, b, b1, c, c1, d, d1
      <4>3. currentSequenceNumber <= a1 + b1 /\ a1 + b1 + c1 + (1 - d1) <= 2 * prompts
        BY <4>0, <4>1, <4>2
      <4> QED
        BY <2>1, <4>3 DEF a1, b1, c1, d1
    <3> QED
      BY <2>1, <3>2 DEF Budget
<1>5. CASE Cancel
  <2>1. /\ UNCHANGED <<autoContinueCount, autoContinuePending, currentSequenceNumber, pc, prompts>>
    BY <1>5 DEF Cancel, autoVars, bounds
  <2>2. Len(movements') = Len(movements)
    <3>1. Numbers'
      BY NumbersStep
    <3>2. CASE movements' = movements
      BY <3>2
    <3>3. CASE movements' # movements
      <4>1. movements' = Recorded(movements, currentSequenceNumber, "cancelled") /\ isExecuting
            /\ Interruptible
        BY <1>5, <3>3 DEF Cancel
      <4>2. PICK x \in Execs : Live(x)
        BY <4>1 DEF Announced, Busy
      <4>3. currentSequenceNumber \in 1..Len(movements)
        <5>1. pc[x] # "eta"
          BY <4>1, NotInterrupted
        <5>2. seq[x] = Len(movements) /\ seq[x] # 0 /\ seq[x] = currentSequenceNumber
          BY <4>2, <5>1 DEF Numbers
        <5> QED
          BY <1>0, <5>2
      <4> QED
        BY <4>1, <4>3, RecordedKeeps DEF Counts, Numbers
    <3> QED
      BY <3>2, <3>3
  <2> QED
    BY <2>1, <2>2 DEF Budget, Starting, Pending, Live
<1>6. CASE DropAutoContinue \/ UNCHANGED vars
  <2>1. UNCHANGED <<movements, autoContinueCount, autoContinuePending, currentSequenceNumber,
                    pc, prompts>>
    BY <1>6 DEF DropAutoContinue, vars, autoVars, bounds
  <2> QED
    BY <2>1 DEF Budget, Starting, Pending, Live
<1> QED
  BY <1>1, <1>2, <1>3, <1>4, <1>5, <1>6, StepKinds

LEMMA OneInvariant == OnePrompt /\ Spec => [](OneInv /\ Budget)
<1>1. OnePrompt /\ Init => OneInv /\ Budget
  <2> SUFFICES ASSUME OnePrompt, Init PROVE OneInv /\ Budget
    OBVIOUS
  <2>1. SoundTypes
    BY TypeInit DEF SoundTypes, Init, JudgesSound, GoOnSound
  <2>2. Reached /\ Numbers /\ Announced /\ Budget
    BY DEF Init, Reached, Numbers, Announced, Busy, Live, Budget, Starting
  <2> QED
    BY <2>1, <2>2 DEF OneInv
<1>2. OneInv /\ Budget /\ [Next]_vars => (OneInv /\ Budget)'
  <2> SUFFICES ASSUME OneInv, Budget, [Next]_vars PROVE (OneInv /\ Budget)'
    OBVIOUS
  <2>1. SoundTypes'
    BY FlagsStep, CountsStep, ActivationsStep, GoOnStep DEF OneInv, SoundTypes
  <2>2. OnePrompt'
    BY DEF OneInv, OnePrompt
  <2> QED
    BY <2>1, <2>2, ReachedStep, NumbersStep, AnnouncedStep, BudgetStep DEF OneInv
<1> QED
  BY <1>1, <1>2, PTL DEF Spec

(* After cancel() no run of Claude goes on or begins that was not signalled    *)
(* (cancel, handleCancelledExecution, the checks of the retry loop).           *)
THEOREM CancelReachesAgentsHolds == OnePrompt /\ Spec => []CancelReachesAgents
<1>1. OneInv => CancelReachesAgents
  BY DEF OneInv, Reached, CancelReachesAgents
<1> QED
  BY <1>1, OneInvariant, PTL

(* Every movement ends in exactly one completion or error, and a prompt is     *)
(* continued by itself at most once (executePrompt, cancel, maybeAutoContinue).*)
THEOREM EndsOnceHolds == OnePrompt /\ Spec => []EndsOnce
<1>1. OneInv /\ Budget => EndsOnce
  <2> SUFFICES ASSUME OneInv, Budget PROVE EndsOnce
    OBVIOUS
  <2> USE DEF OneInv, SoundTypes
  <2>1. \A x \in Execs : ends[x] <= 1 /\ (~Live(x) /\ seq[x] # 0 => ends[x] = 1)
    <3> SUFFICES ASSUME NEW x \in Execs
                 PROVE  ends[x] <= 1 /\ (~Live(x) /\ seq[x] # 0 => ends[x] = 1)
      OBVIOUS
    <3>1. ends[x] = 0 \/ ends[x] = 1
      BY DEF Announced
    <3>2. ~Live(x) /\ seq[x] # 0 => ends[x] = 1
      BY DEF Announced
    <3> QED
      BY <3>1, <3>2
  <2>2. ContinuedOnce
    <3>1. Len(movements) \in Nat /\ prompts \in Nat /\ currentSequenceNumber \in Nat
      BY ImprovConstants, LenProperties DEF Counts, ImprovConstants
    <3>2. Starting \in 0..1 /\ Pending \in 0..1 /\ 1 - autoContinueCount \in 0..1
      BY DEF Starting, Pending, Counts, MAX_AUTO_CONTINUES
    <3>3. prompts = 0 => Starting = 0
      BY DEF Budget, Starting, Live
    <3>4. currentSequenceNumber <= 2 * prompts
      BY <3>1, <3>2, <3>3 DEF Budget
    <3> QED
      BY <3>1, <3>4 DEF ContinuedOnce, MAX_AUTO_CONTINUES
  <2> QED
    BY <2>1, <2>2 DEF EndsOnce
<1> QED
  BY <1>1, OneInvariant, PTL

(* The last tabStateChanged says whether the session executes.                 *)
THEOREM WebAgreesHolds == OnePrompt /\ Spec => []WebAgrees
<1>1. OneInv => WebAgrees
  <2> SUFFICES ASSUME OneInv, \A x \in Execs : pc[x] # "eta" PROVE webExecuting <=> isExecuting
    BY DEF WebAgrees, OneInv, SoundTypes, Flags
  <2> QED
    BY DEF OneInv, Announced, Busy
<1> QED
  BY <1>1, OneInvariant, PTL
===============================================================================
