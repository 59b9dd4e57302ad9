------------------------- MODULE PlanExecutorProofs -------------------------
(***************************************************************************)
(* What is proved of PlanExecutor, for every board, every number of issues *)
(* and every choice of the other constants.                                *)
(***************************************************************************)
EXTENDS PlanExecutor, TLAPS

(* The value 3 of the two caps is all a proof needs to know of them.         *)
LEMMA Caps == /\ MAX_REVIEW_ATTEMPTS = 3 /\ MAX_CONSECUTIVE_EMPTY_WAVES = 3
              /\ 0 \in 0 .. MAX_CONSECUTIVE_EMPTY_WAVES - 1
  BY DEF MAX_REVIEW_ATTEMPTS, MAX_CONSECUTIVE_EMPTY_WAVES

(* Epics only ever move to another status (reconcileEpicStatuses).           *)
LEMMA ReconciledType ==
    ASSUME disk \in [Issues -> Lines]
    PROVE  Reconciled(disk) \in [Issues -> Lines]
  BY DEF Reconciled, Lines, Statuses, Terminal, Stale

LEMMA ParentsDoneType ==
    ASSUME NEW d \in [Issues -> Lines], NEW i \in Issues
    PROVE  ParentsDone(d, i) \in [Issues -> Lines]
  BY DEF ParentsDone, Lines, Statuses, Terminal

(* Writing a status keeps the disk well formed.                              *)
LEMMA WriteType ==
    ASSUME TypeOK, NEW i \in Issues, NEW s \in Statuses, Write(i, s)
    PROVE  disk' \in [Issues -> Lines] /\ quoted' \subseteq Issues
  BY DEF TypeOK, Write, Lines
(* A step of a wave loop keeps the state well formed.                        *)
LEMMA RunStepType ==
    ASSUME ConstantsAssumption, TypeOK, NEW r \in Runs, RunStep(r)
    PROVE  TypeOK'
<1> USE DEF TypeOK
<1>1. CASE Recover(r)
  BY <1>1, WriteType, ConstantsAssumption DEF Recover, Statuses, vars, diskVars, execVars, ctlVars, waveVars
<1>2. CASE EnterLoop(r)
  BY <1>2, ConstantsAssumption DEF EnterLoop, vars, diskVars, execVars, ctlVars, waveVars
<1>3. CASE LeaveLoop(r)
  BY <1>3, ConstantsAssumption DEF LeaveLoop, Finish, Verdict, vars, diskVars, execVars, ctlVars, waveVars
<1>4. CASE PickUnloadable(r)
  BY <1>4, ConstantsAssumption DEF PickUnloadable, Picks, Finish, Verdict, vars, diskVars, execVars, ctlVars, waveVars
<1>5. CASE PickReady(r)
  BY <1>5, ConstantsAssumption DEF PickReady, Picks, Ready, Activated, vars, diskVars, execVars, ctlVars, waveVars
<1>6. CASE PickDead(r)
  BY <1>6, ConstantsAssumption DEF PickDead, Picks, Finish, Verdict, Activated, vars, diskVars, execVars, ctlVars, waveVars
<1>7. CASE PickNothing(r)
  BY <1>7, ConstantsAssumption DEF PickNothing, Picks, Finish, Verdict, Activated, vars, diskVars, execVars, ctlVars, waveVars
<1>8. CASE PickAllDone(r)
  BY <1>8, ConstantsAssumption DEF PickAllDone, Picks, Activated, vars, diskVars, execVars, ctlVars, waveVars
<1>9. CASE CompleteBoard(r)
  BY <1>9, ConstantsAssumption DEF CompleteBoard, Finish, Verdict, vars, diskVars, execVars, ctlVars, waveVars
<1>10. CASE BeginWave(r)
  BY <1>10, ConstantsAssumption DEF BeginWave, FirstOf, vars, diskVars, execVars, ctlVars, waveVars
<1>11. CASE Mark(r)
  BY <1>11, WriteType, ConstantsAssumption DEF Mark, Statuses, Stale, vars, diskVars, execVars, ctlVars, waveVars
<1>12. CASE Spawn(r)
  BY <1>12, ConstantsAssumption DEF Spawn, vars, diskVars, execVars, ctlVars, waveVars
<1>13. CASE Settled(r)
  BY <1>13, ConstantsAssumption DEF Settled, vars, diskVars, execVars, ctlVars, waveVars
<1>14. CASE EndWave(r)
  <2>1. zero[r] \in 0..2
    BY Caps
  <2>2. zero[r] + 1 < 3 \/ progress[r]
    BY <1>14, Caps DEF EndWave, GoesOn
  <2>3. EmptyWaves(r) \in 0..2
    BY <2>1, <2>2 DEF EmptyWaves
  <2>4. zero' \in [Runs -> 0 .. MAX_CONSECUTIVE_EMPTY_WAVES - 1]
    BY <1>14, <2>3, Caps DEF EndWave
  <2>5. disk' \in [Issues -> Lines] /\ quoted' \subseteq Issues
    BY <1>14, ReconciledType DEF EndWave, CloseWave
  <2> QED
    BY <1>14, <2>4, <2>5 DEF EndWave, CloseWave, vars, diskVars, execVars, ctlVars, waveVars
<1>15. CASE Stall(r)
  BY <1>15, Caps, ReconciledType, ConstantsAssumption DEF Stall, WaveDone, CloseWave, Finish, Verdict, vars, diskVars, execVars, ctlVars, waveVars
<1>16. ASSUME NEW i \in Issues, ReconcileMissing(r, i) PROVE TypeOK'
  BY <1>16, ConstantsAssumption DEF ReconcileMissing, Takes, vars, diskVars, execVars, ctlVars, waveVars
<1>17. ASSUME NEW i \in Issues, ReconcileIncomplete(r, i) PROVE TypeOK'
  BY <1>17, WriteType, ConstantsAssumption DEF ReconcileIncomplete, Takes, Statuses, vars, diskVars, execVars, ctlVars, waveVars
<1>18. ASSUME NEW i \in Issues, ReconcileUngated(r, i) PROVE TypeOK'
  BY <1>18, WriteType, ConstantsAssumption DEF ReconcileUngated, Takes, Statuses, Terminal, vars, diskVars, execVars, ctlVars, waveVars
<1>19. ASSUME NEW i \in Issues, ReviewAbandon(r, i) PROVE TypeOK'
  BY <1>19, WriteType, ConstantsAssumption DEF ReviewAbandon, Takes, Statuses, Terminal, vars, diskVars, execVars, ctlVars, waveVars
<1>20. ASSUME NEW i \in Issues, ReviewBegin(r, i) PROVE TypeOK'
  BY <1>20, WriteType, ConstantsAssumption DEF ReviewBegin, Takes, Statuses, Stale, vars, diskVars, execVars, ctlVars, waveVars
<1>21. ASSUME NEW i \in Issues, NEW passed \in BOOLEAN, ReviewEnd(r, i, passed)
       PROVE  TypeOK'
  <2>1. StatusAfterReview(passed) \in Statuses
    BY DEF StatusAfterReview, Statuses, Terminal
  <2>2. disk' \in [Issues -> Lines] /\ quoted' \subseteq Issues
    BY <1>21, <2>1, WriteType DEF ReviewEnd
  <2>3. progress' \in [Runs -> BOOLEAN]
    BY <1>21, Zenon DEF ReviewEnd
  <2>4. reviews' \in [Issues -> Nat]
    BY <1>21 DEF ReviewEnd
  <2> QED
    BY <1>21, <2>2, <2>3, <2>4 DEF ReviewEnd, vars, diskVars, execVars, ctlVars, waveVars
<1> QED
  BY <1>1, <1>2, <1>3, <1>4, <1>5, <1>6, <1>7, <1>8, <1>9, <1>10, <1>11, <1>12, <1>13, <1>14, <1>15, <1>16, <1>17, <1>18, <1>19, <1>20, <1>21 DEF RunStep

(* So does everything the agents, the user and a crash do.                   *)
LEMMA StartType ==
    ASSUME ConstantsAssumption, TypeOK, NEW r \in Runs,
           NEW scope \in Epics \cup {NoEpic}, Start(r, scope)
    PROVE  TypeOK'
<1>1. perms' \in BOOLEAN
  BY Zenon DEF Start, SettingsAtStart, TypeOK
<1>2. zero' \in [Runs -> 0 .. MAX_CONSECUTIVE_EMPTY_WAVES - 1]
  BY Caps DEF Start, TypeOK
<1>3. left' \in [Runs -> SUBSET Issues]
  BY DEF Start, Recoverable, TypeOK
<1>4. UNCHANGED <<disk, quoted, reviews, approved, ctlVars, wave, cur, agents,
                 progress, edits, crashes>>
  BY DEF Start
<1>5. /\ pc' \in [Runs -> {"idle", "recover", "pick", "limit", "mark", "agents",
                           "reconcile", "review", "completeBoard"}]
      /\ status' = "executing" /\ shouldStop' = FALSE /\ shouldPause' = FALSE
      /\ epicScope' = scope /\ emitted' \subseteq {"complete", "error"}
      /\ board' \in {"draft", "active", "completed", "archived"}
  BY DEF Start, Activated, TypeOK
<1> QED
  BY <1>1, <1>2, <1>3, <1>4, <1>5 DEF TypeOK, ctlVars

LEMMA OtherStepType ==
    ASSUME ConstantsAssumption, TypeOK,
           \/ \E r \in Runs : AgentStep(r)
           \/ Command \/ UserEdit \/ Crash
    PROVE  TypeOK'
<1>1. ASSUME NEW r \in Runs, NEW i \in Issues, AgentReports(r, i) PROVE TypeOK'
  <2>1. AgentStatuses \subseteq Statuses
    BY ConstantsAssumption DEF Statuses, Stale, Terminal
  <2>2. disk' \in [Issues -> Lines] /\ quoted' \subseteq Issues
    BY <1>1, <2>1, WriteType DEF AgentReports
  <2> QED
    BY <1>1, <2>2 DEF AgentReports, TypeOK, vars, diskVars, execVars, ctlVars, waveVars
<1>2. ASSUME NEW r \in Runs, NEW i \in Issues, AgentExits(r, i) PROVE TypeOK'
  BY <1>2 DEF AgentExits, TypeOK, vars, diskVars, execVars, ctlVars, waveVars
<1>3. CASE Command
  <2>1. ASSUME NEW r \in Runs, Execute(r) \/ Resume(r) \/ \E e \in Epics : ExecuteEpic(r, e)
        PROVE  TypeOK'
    BY <2>1, StartType DEF Execute, Resume, ExecuteEpic, TypeOK
  <2>2. CASE Pause
    BY <2>2 DEF Pause, TypeOK, vars, diskVars, execVars, ctlVars, waveVars
  <2>3. CASE Stop
    BY <2>3 DEF Stop, TypeOK, vars, diskVars, execVars, ctlVars, waveVars
  <2> QED
    BY <1>3, <2>1, <2>2, <2>3 DEF Command
<1>4. CASE UserEdit
  <2>0. Edit => edits' \in 0..MaxEdits
    BY ConstantsAssumption DEF Edit, TypeOK
  <2>1. ASSUME NEW i \in Issues, NEW s \in UserStatuses, UpdateIssue(i, s) PROVE TypeOK'
    <3> DEFINE d == [disk EXCEPT ![i] = s]
    <3>1. d \in [Issues -> Lines]
      BY ConstantsAssumption DEF TypeOK, Lines
    <3>2. disk' \in [Issues -> Lines] /\ quoted' \subseteq Issues
      BY <2>1, <3>1, ParentsDoneType DEF UpdateIssue, TypeOK
    <3> QED
      BY <2>0, <2>1, <3>2 DEF UpdateIssue, TypeOK, vars, diskVars, execVars, ctlVars, waveVars
  <2>2. ASSUME NEW i \in Issues, DeleteIssue(i) \/ CreateIssue(i) PROVE TypeOK'
    <3>1. disk' \in [Issues -> Lines] /\ quoted' \subseteq Issues
      BY <2>2 DEF DeleteIssue, CreateIssue, TypeOK, Lines, Statuses
    <3> QED
      BY <2>0, <2>2, <3>1 DEF DeleteIssue, CreateIssue, TypeOK, vars, diskVars, execVars, ctlVars, waveVars
  <2>3. CASE ArchiveBoard \/ RestoreBoard
    BY <2>0, <2>3 DEF ArchiveBoard, RestoreBoard, SetBoard, TypeOK, vars, diskVars, execVars, ctlVars, waveVars
  <2> QED
    BY <1>4, <2>1, <2>2, <2>3 DEF UserEdit
<1>5. CASE Crash
  <2>1. crashes' \in 0..MaxCrashes
    BY <1>5, ConstantsAssumption DEF Crash, TypeOK
  <2>2. /\ zero' \in [Runs -> 0 .. MAX_CONSECUTIVE_EMPTY_WAVES - 1]
        /\ pc' \in [Runs -> {"idle", "recover", "pick", "limit", "mark", "agents",
                            "reconcile", "review", "completeBoard"}]
    BY <1>5, Caps DEF Crash
  <2>3. /\ wave' \in [Runs -> SUBSET Issues] /\ left' \in [Runs -> SUBSET Issues]
        /\ cur' \in [Runs -> SUBSET Issues] /\ agents' \in [Runs -> SUBSET Issues]
        /\ progress' \in [Runs -> BOOLEAN]
    BY <1>5 DEF Crash
  <2> QED
    BY <1>5, <2>1, <2>2, <2>3 DEF Crash, TypeOK, diskVars
<1> QED
  BY <1>1, <1>2, <1>3, <1>4, <1>5 DEF AgentStep

LEMMA InitType == ASSUME ConstantsAssumption, Init PROVE TypeOK
<1>1. /\ zero \in [Runs -> 0 .. MAX_CONSECUTIVE_EMPTY_WAVES - 1]
      /\ disk \in [Issues -> Lines] /\ edits \in 0..MaxEdits /\ crashes \in 0..MaxCrashes
  BY Caps, ConstantsAssumption DEF Init, Lines
<1> QED
  BY <1>1 DEF Init, TypeOK

(* Whatever the waves, the agents, the user and crashes do, in any number    *)
(* and order, the files and the executor stay in well-formed states; in      *)
(* particular the count of empty waves never reaches its cap.                *)
THEOREM TypeCorrect == ASSUME ConstantsAssumption PROVE Spec => []TypeOK
<1>1. Init => TypeOK
  BY InitType
<1>2. TypeOK /\ [Next]_vars => TypeOK'
  <2> SUFFICES ASSUME TypeOK, [Next]_vars PROVE TypeOK'
    OBVIOUS
  <2>1. CASE UNCHANGED vars
    BY <2>1 DEF TypeOK, vars, diskVars, execVars, ctlVars, waveVars
  <2>2. CASE Next
    BY <2>2, RunStepType, OtherStepType DEF Next
  <2> QED
    BY <2>1, <2>2
<1> QED
  BY <1>1, <1>2, PTL DEF Spec

-----------------------------------------------------------------------------
(* The review gate.  Only the agents of a wave write `done` without a passed *)
(* review, if they do, so the strengthening says where agents run and what a *)
(* wave still has to reconcile.                                              *)

AgentsBelong == \A r \in Runs :
    /\ agents[r] # {} => pc[r] = "agents"
    /\ agents[r] \subseteq wave[r]
    /\ pc[r] # "review" => cur[r] = {}
    /\ \A i, j \in cur[r] : i = j

Gated == Issues \ (Epics \cup Ungated)

Excused(i) == \/ i \in quoted \/ disk[i] # "done" \/ i \in approved
              \/ "done" \in AgentStatuses /\ \E q \in Runs : i \in InWave(q)

GateInv == TypeOK /\ AgentsBelong /\ \A i \in Gated : Excused(i)

LEMMA GateImplies == GateInv => ReviewGate
  BY DEF GateInv, Gated, Excused, ReviewGate, Worked

LEMMA GateInit ==
    ASSUME ConstantsAssumption, "done" \notin InitStatuses, Init
    PROVE  GateInv
<1>1. TypeOK
  BY InitType
<1> QED
  BY <1>1 DEF Init, GateInv, AgentsBelong, Excused, Gated

(* Agents stay where their wave is.                                          *)
LEMMA BelongStep ==
    ASSUME ConstantsAssumption, TypeOK, AgentsBelong, NEW r \in Runs, RunStep(r)
    PROVE  AgentsBelong'
<1> USE DEF AgentsBelong, TypeOK
<1>1. CASE Recover(r)
  BY <1>1 DEF Recover, waveVars
<1>2. CASE EnterLoop(r)
  BY <1>2 DEF EnterLoop, waveVars
<1>3. CASE LeaveLoop(r)
  BY <1>3 DEF LeaveLoop, Finish, waveVars
<1>4. CASE PickUnloadable(r)
  BY <1>4 DEF PickUnloadable, Picks, Finish, waveVars
<1>5. CASE PickReady(r)
  BY <1>5 DEF PickReady, Picks, waveVars
<1>6. CASE PickDead(r)
  BY <1>6 DEF PickDead, Picks, Finish, waveVars
<1>7. CASE PickNothing(r)
  BY <1>7 DEF PickNothing, Picks, Finish, waveVars
<1>8. CASE PickAllDone(r)
  BY <1>8 DEF PickAllDone, Picks, waveVars
<1>9. CASE CompleteBoard(r)
  BY <1>9 DEF CompleteBoard, Finish, waveVars
<1>10. CASE BeginWave(r)
  BY <1>10 DEF BeginWave, FirstOf, waveVars
<1>11. CASE Mark(r)
  BY <1>11 DEF Mark, waveVars
<1>12. CASE Spawn(r)
  BY <1>12 DEF Spawn, waveVars
<1>13. CASE Settled(r)
  BY <1>13 DEF Settled, waveVars
<1>14. CASE EndWave(r)
  BY <1>14 DEF EndWave, WaveDone, CloseWave, waveVars
<1>15. CASE Stall(r)
  BY <1>15 DEF Stall, WaveDone, CloseWave, Finish, waveVars
<1>16. ASSUME NEW i \in Issues,
              \/ ReconcileMissing(r, i) \/ ReconcileIncomplete(r, i)
              \/ ReconcileUngated(r, i) \/ ReviewAbandon(r, i) \/ ReviewBegin(r, i)
              \/ \E passed \in BOOLEAN : ReviewEnd(r, i, passed)
       PROVE  AgentsBelong'
  BY <1>16 DEF ReconcileMissing, ReconcileIncomplete, ReconcileUngated,
               ReviewAbandon, ReviewBegin, ReviewEnd, Takes
<1> QED
  BY <1>1, <1>2, <1>3, <1>4, <1>5, <1>6, <1>7, <1>8, <1>9, <1>10, <1>11, <1>12, <1>13, <1>14, <1>15, <1>16 DEF RunStep

(* A run step takes an issue off a wave only by a status other than done, or *)
(* with a passed review.                                                     *)
LEMMA GateRunStep ==
    ASSUME ConstantsAssumption, GateInv, NEW r \in Runs, RunStep(r),
           NEW g \in Gated
    PROVE  Excused(g)'
<1>1. Excused(g) /\ TypeOK /\ AgentsBelong /\ g \in Issues \ Epics /\ g \notin Ungated
  BY DEF GateInv, Gated
<1> USE <1>1 DEF Excused, InWave, TypeOK, AgentsBelong
<1>2. CASE Recover(r)
  BY <1>2 DEF Recover, Write, waveVars, diskVars
<1>3. CASE EnterLoop(r)
  BY <1>3 DEF EnterLoop, waveVars, diskVars
<1>4. CASE LeaveLoop(r)
  BY <1>4 DEF LeaveLoop, Finish, waveVars, diskVars
<1>5. CASE PickUnloadable(r)
  BY <1>5 DEF PickUnloadable, Picks, Finish, waveVars, diskVars
<1>6. CASE PickReady(r)
  BY <1>6 DEF PickReady, Picks, waveVars, diskVars
<1>7. CASE PickDead(r)
  BY <1>7 DEF PickDead, Picks, Finish, waveVars, diskVars
<1>8. CASE PickNothing(r)
  BY <1>8 DEF PickNothing, Picks, Finish, waveVars, diskVars
<1>9. CASE PickAllDone(r)
  BY <1>9 DEF PickAllDone, Picks, waveVars, diskVars
<1>10. CASE CompleteBoard(r)
  BY <1>10 DEF CompleteBoard, Finish, waveVars, diskVars
<1>11. CASE BeginWave(r)
  BY <1>11 DEF BeginWave, FirstOf, waveVars, diskVars
<1>12. CASE Mark(r)
  BY <1>12 DEF Mark, Write, waveVars, diskVars
<1>13. CASE Spawn(r)
  BY <1>13 DEF Spawn, waveVars, diskVars
<1>14. CASE Settled(r)
  BY <1>14 DEF Settled, waveVars, diskVars
<1>15. CASE EndWave(r)
  BY <1>15 DEF EndWave, WaveDone, CloseWave, Reconciled, waveVars, diskVars
<1>16. CASE Stall(r)
  BY <1>16 DEF Stall, WaveDone, CloseWave, Finish, Reconciled, waveVars, diskVars
<1>17. ASSUME NEW i \in Issues, ReconcileMissing(r, i) PROVE Excused(g)'
  BY <1>17 DEF ReconcileMissing, Takes, diskVars
<1>18. ASSUME NEW i \in Issues, ReconcileIncomplete(r, i) PROVE Excused(g)'
  BY <1>18 DEF ReconcileIncomplete, Takes, diskVars, Write
<1>19. ASSUME NEW i \in Issues, ReconcileUngated(r, i) PROVE Excused(g)'
  BY <1>19 DEF ReconcileUngated, Takes, diskVars, Write
<1>20. ASSUME NEW i \in Issues, ReviewAbandon(r, i) PROVE Excused(g)'
  BY <1>20 DEF ReviewAbandon, Takes, diskVars, Write
<1>21. ASSUME NEW i \in Issues, ReviewBegin(r, i) PROVE Excused(g)'
  BY <1>21 DEF ReviewBegin, Takes, diskVars, Write
<1>22. ASSUME NEW i \in Issues, NEW passed \in BOOLEAN, ReviewEnd(r, i, passed)
       PROVE  Excused(g)'
  BY <1>22 DEF ReviewEnd, StatusAfterReview, Write
<1> QED
  BY <1>2, <1>3, <1>4, <1>5, <1>6, <1>7, <1>8, <1>9, <1>10, <1>11, <1>12, <1>13, <1>14, <1>15, <1>16, <1>17, <1>18, <1>19, <1>20, <1>21, <1>22 DEF RunStep

LEMMA BelongOtherStep ==
    ASSUME TypeOK, AgentsBelong,
           \/ \E r \in Runs : AgentStep(r)
           \/ Command \/ UserEdit \/ Crash
    PROVE  AgentsBelong'
<1> USE DEF AgentsBelong, TypeOK
<1>1. ASSUME NEW r \in Runs, AgentStep(r) PROVE AgentsBelong'
  BY <1>1 DEF AgentStep, AgentReports, AgentExits, waveVars
<1>2. ASSUME NEW r \in Runs, NEW scope, Start(r, scope) PROVE AgentsBelong'
  BY <1>2 DEF Start
<1>3. CASE Pause \/ Stop
  BY <1>3 DEF Pause, Stop, waveVars
<1>4. CASE UserEdit
  BY <1>4 DEF UserEdit, UpdateIssue, DeleteIssue, CreateIssue, ArchiveBoard,
             RestoreBoard, SetBoard, waveVars
<1>5. CASE Crash
  BY <1>5 DEF Crash
<1> QED
  BY <1>1, <1>2, <1>3, <1>4, <1>5 DEF Command, Execute, Resume, ExecuteEpic

LEMMA GateOtherStep ==
    ASSUME ConstantsAssumption, "done" \notin AgentStatuses \/ MaxCrashes = 0,
           GateInv,
           \/ \E r \in Runs : AgentStep(r)
           \/ Command \/ UserEdit \/ Crash,
           NEW g \in Gated
    PROVE  Excused(g)'
<1>1. Excused(g) /\ TypeOK /\ AgentsBelong /\ g \in Issues \ Epics
  BY DEF GateInv, Gated
<1> USE <1>1 DEF Excused, InWave, TypeOK, AgentsBelong
<1>2. ASSUME NEW r \in Runs, NEW i \in Issues, AgentReports(r, i)
      PROVE  Excused(g)'
  BY <1>2 DEF AgentReports, Write, ctlVars, waveVars
<1>3. ASSUME NEW r \in Runs, NEW i \in Issues, AgentExits(r, i)
      PROVE  Excused(g)'
  BY <1>3 DEF AgentExits, diskVars
<1>4. ASSUME NEW r \in Runs, NEW scope, Start(r, scope)
      PROVE  Excused(g)'
  BY <1>4 DEF Start
<1>5. CASE Pause \/ Stop
  BY <1>5 DEF Pause, Stop, diskVars, waveVars
<1>6. ASSUME NEW i \in Issues, NEW s \in UserStatuses, UpdateIssue(i, s)
      PROVE  Excused(g)'
  <2> DEFINE d == [disk EXCEPT ![i] = s]
  <2>1. disk'[g] = d[g]
    BY <1>1, <1>6 DEF UpdateIssue, ParentsDone
  <2>2. g \in quoted \cup {i} => g \in quoted'
    BY <1>1, <1>6, <2>1 DEF UpdateIssue
  <2>3. g = i \/ disk'[g] = disk[g]
    BY <2>1
  <2>4. approved' = approved /\ pc' = pc /\ UNCHANGED waveVars
    BY <1>6 DEF UpdateIssue
  <2> QED
    BY <2>2, <2>3, <2>4 DEF waveVars
<1>7. ASSUME NEW i \in Issues, DeleteIssue(i) \/ CreateIssue(i)
      PROVE  Excused(g)'
  BY <1>7 DEF DeleteIssue, CreateIssue, waveVars
<1>8. CASE ArchiveBoard \/ RestoreBoard
  BY <1>8 DEF ArchiveBoard, RestoreBoard, SetBoard, waveVars
<1>9. CASE Crash
  BY <1>9 DEF Crash, diskVars
<1> QED
  BY <1>2, <1>3, <1>4, <1>5, <1>6, <1>7, <1>8, <1>9
     DEF AgentStep, Command, UserEdit, Execute, Resume, ExecuteEpic

(* However many wave loops overlap, and whatever the user edits meanwhile,   *)
(* no issue with a gate is done without a passed review once no wave has it  *)
(* in hand, provided that a crash does not come between the report of an     *)
(* agent that says done and its review.                                      *)
THEOREM ReviewGateHolds ==
    ASSUME ConstantsAssumption, "done" \notin InitStatuses,
           "done" \notin AgentStatuses \/ MaxCrashes = 0
    PROVE  Spec => []ReviewGate
<1>1. Init => GateInv
  BY GateInit
<1>2. GateInv /\ [Next]_vars => GateInv'
  <2> SUFFICES ASSUME GateInv, [Next]_vars PROVE GateInv'
    OBVIOUS
  <2>1. CASE UNCHANGED vars
    BY <2>1 DEF GateInv, TypeOK, AgentsBelong, Excused, InWave, Gated, vars, diskVars, execVars, ctlVars, waveVars
  <2>2. ASSUME NEW r \in Runs, RunStep(r) PROVE GateInv'
    <3>1. TypeOK' /\ AgentsBelong'
      BY <2>2, RunStepType, BelongStep DEF GateInv
    <3>2. \A g \in Gated : Excused(g)'
      BY <2>2, GateRunStep
    <3> QED
      BY <3>1, <3>2 DEF GateInv, Gated
  <2>3. CASE (\E r \in Runs : AgentStep(r)) \/ Command \/ UserEdit \/ Crash
    <3>1. TypeOK'
      BY <2>3, OtherStepType DEF GateInv
    <3>2. AgentsBelong'
      BY <2>3, BelongOtherStep DEF GateInv
    <3>3. \A g \in Gated : Excused(g)'
      BY <2>3, GateOtherStep
    <3> QED
      BY <3>1, <3>2, <3>3 DEF GateInv, Gated
  <2> QED
    BY <2>1, <2>2, <2>3 DEF Next
<1>3. GateInv => ReviewGate
  BY GateImplies
<1> QED
  BY <1>1, <1>2, <1>3, PTL DEF Spec

-----------------------------------------------------------------------------
(* What needs the loops not to overlap: the run below has one loop, sole.    *)

Budgeted == /\ \A i \in Issues : reviews[i] <= MAX_REVIEW_ATTEMPTS
            /\ \A r \in Runs : \A i \in cur[r] : reviews[i] < MAX_REVIEW_ATTEMPTS

BudgetInv == TypeOK /\ AgentsBelong /\ Budgeted

(* The count only moves with the one review that is under way, which began   *)
(* below the cap.                                                            *)
LEMMA BudgetStep ==
    ASSUME ConstantsAssumption, NEW sole, Runs = {sole}, BudgetInv, [Next]_vars
    PROVE  BudgetInv'
<1>1. TypeOK /\ AgentsBelong /\ Budgeted
  BY DEF BudgetInv
<1>2. ASSUME UNCHANGED <<reviews, cur>> PROVE Budgeted'
  BY <1>1, <1>2 DEF Budgeted
<1>3. ASSUME Crash PROVE Budgeted'
  BY <1>1, <1>3 DEF Crash, diskVars, Budgeted
<1>4. ASSUME NEW r \in Runs, NEW i \in Issues, ReviewBegin(r, i) PROVE Budgeted'
  <2>1. reviews[i] < MAX_REVIEW_ATTEMPTS
    BY <1>4 DEF ReviewBegin, MayBeReviewed
  <2> QED
    BY <1>1, <1>4, <2>1 DEF ReviewBegin, TypeOK, Budgeted
<1>5. ASSUME NEW r \in Runs, NEW i \in Issues, NEW passed \in BOOLEAN,
             ReviewEnd(r, i, passed)
      PROVE  Budgeted'
  <2>1. cur' = [q \in Runs |-> {}]
    BY <1>1, <1>5 DEF ReviewEnd, TypeOK
  <2>2. /\ reviews[i] < 3 /\ reviews[i] \in Nat
        /\ reviews' = [reviews EXCEPT ![i] = reviews[i] + 1]
    BY <1>1, <1>5, Caps DEF ReviewEnd, TypeOK, Budgeted
  <2>3. \A j \in Issues : reviews'[j] <= 3
    BY <1>1, <2>2, Caps DEF Budgeted, TypeOK
  <2> QED
    BY <2>1, <2>3, Caps DEF Budgeted
<1>6. ASSUME NEW r \in Runs, RunStep(r) PROVE Budgeted'
  <2>1. \/ UNCHANGED <<reviews, cur>>
        \/ \E i \in Issues : ReviewBegin(r, i)
        \/ \E i \in Issues : \E passed \in BOOLEAN : ReviewEnd(r, i, passed)
    BY <1>6 DEF RunStep, Recover, EnterLoop, LeaveLoop, PickUnloadable,
           PickReady, PickDead, PickNothing, PickAllDone, CompleteBoard,
           BeginWave, Mark, Spawn, Settled, ReconcileMissing,
           ReconcileIncomplete, ReconcileUngated, ReviewAbandon, EndWave,
           Stall, diskVars, waveVars
  <2> QED
    BY <2>1, <1>2, <1>4, <1>5
<1>7. Budgeted'
  <2>1. (\E r \in Runs : AgentStep(r)) \/ Command \/ UserEdit \/ UNCHANGED vars
             => UNCHANGED <<reviews, cur>>
    BY DEF AgentStep, AgentReports, AgentExits, Command, Execute, Resume,
           ExecuteEpic, Start, Pause, Stop, UserEdit, UpdateIssue, DeleteIssue,
           CreateIssue, ArchiveBoard, RestoreBoard, SetBoard, diskVars,
           waveVars, vars
  <2> QED
    BY <1>2, <1>3, <1>6, <2>1 DEF Next
<1>8. TypeOK' /\ AgentsBelong'
  <2>1. CASE UNCHANGED vars
    BY <1>1, <2>1 DEF TypeOK, AgentsBelong, vars, diskVars, execVars, ctlVars, waveVars
  <2> QED
    BY <1>1, <2>1, RunStepType, OtherStepType, BelongStep, BelongOtherStep DEF Next
<1> QED
  BY <1>7, <1>8 DEF BudgetInv

(* With one loop at a time the reviewer is never asked a fourth time about   *)
(* an issue, whatever the user edits and however often the process crashes.  *)
THEOREM ReviewBudgetHolds ==
    ASSUME ConstantsAssumption, NEW sole, Runs = {sole}
    PROVE  Spec => []ReviewBudget
<1>1. Init => BudgetInv
  <2> SUFFICES ASSUME Init PROVE BudgetInv
    OBVIOUS
  <2>1. TypeOK
    BY InitType
  <2> QED
    BY <2>1, Caps DEF Init, BudgetInv, AgentsBelong, Budgeted
<1>2. BudgetInv /\ [Next]_vars => BudgetInv'
  BY BudgetStep
<1>3. BudgetInv => ReviewBudget
  BY DEF BudgetInv, Budgeted, ReviewBudget
<1> QED
  BY <1>1, <1>2, <1>3, PTL DEF Spec

(* The issues of a wave are clear: everything they wait for is closed and    *)
(* outside the wave.  A wave only ever writes the files of its own issues.   *)
Clear(i, w) == \A b \in BlockedBy[i] : disk[b] \in Terminal /\ b \notin w

WavesClear == \A r \in Runs :
    /\ pc[r] \in {"idle", "recover", "pick", "completeBoard"} => wave[r] = {}
    /\ pc[r] \in {"mark", "reconcile", "review"} => left[r] \subseteq wave[r]
    /\ cur[r] \subseteq wave[r]
    /\ \A i \in wave[r] : Clear(i, wave[r])

OrderInv == TypeOK /\ AgentsBelong /\ WavesClear

LEMMA WavesClearRunStep ==
    ASSUME ConstantsAssumption, NEW sole, Runs = {sole}, OrderInv, RunStep(sole)
    PROVE  WavesClear'
<1>0. TypeOK /\ AgentsBelong /\ WavesClear
  BY DEF OrderInv
<1> USE <1>0 DEF TypeOK, WavesClear, Clear
<1>1. CASE Recover(sole)
  BY <1>1 DEF Recover, Write, waveVars, diskVars
<1>2. CASE EnterLoop(sole)
  BY <1>2 DEF EnterLoop, waveVars, diskVars
<1>3. CASE LeaveLoop(sole)
  BY <1>3 DEF LeaveLoop, Finish, waveVars, diskVars
<1>4. CASE PickUnloadable(sole)
  BY <1>4 DEF PickUnloadable, Picks, Finish, waveVars, diskVars
<1>5. CASE PickReady(sole)
  BY <1>5, ConstantsAssumption DEF PickReady, Picks, Ready, Terminal, waveVars, diskVars
<1>6. CASE PickDead(sole)
  BY <1>6 DEF PickDead, Picks, Finish, waveVars, diskVars
<1>7. CASE PickNothing(sole)
  BY <1>7 DEF PickNothing, Picks, Finish, waveVars, diskVars
<1>8. CASE PickAllDone(sole)
  BY <1>8 DEF PickAllDone, Picks, waveVars, diskVars
<1>9. CASE CompleteBoard(sole)
  BY <1>9 DEF CompleteBoard, Finish, waveVars, diskVars
<1>10. CASE BeginWave(sole)
  BY <1>10 DEF BeginWave, FirstOf, AgentsBelong, waveVars, diskVars
<1>11. CASE Mark(sole)
  BY <1>11 DEF Mark, Write, waveVars, diskVars
<1>12. CASE Spawn(sole)
  BY <1>12 DEF Spawn, waveVars, diskVars
<1>13. CASE Settled(sole)
  BY <1>13 DEF Settled, waveVars, diskVars
<1>14. CASE EndWave(sole)
  BY <1>14 DEF EndWave, WaveDone, CloseWave, AgentsBelong, waveVars, diskVars
<1>15. CASE Stall(sole)
  BY <1>15 DEF Stall, WaveDone, CloseWave, Finish, AgentsBelong, waveVars, diskVars
<1>16. ASSUME NEW i \in Issues, ReconcileMissing(sole, i) PROVE WavesClear'
  BY <1>16 DEF ReconcileMissing, Takes, diskVars
<1>17. ASSUME NEW i \in Issues, ReconcileIncomplete(sole, i) PROVE WavesClear'
  BY <1>17 DEF ReconcileIncomplete, Takes, diskVars, Write
<1>18. ASSUME NEW i \in Issues, ReconcileUngated(sole, i) PROVE WavesClear'
  BY <1>18 DEF ReconcileUngated, Takes, diskVars, Write
<1>19. ASSUME NEW i \in Issues, ReviewAbandon(sole, i) PROVE WavesClear'
  BY <1>19 DEF ReviewAbandon, Takes, diskVars, Write
<1>20. ASSUME NEW i \in Issues, ReviewBegin(sole, i) PROVE WavesClear'
  BY <1>20 DEF ReviewBegin, Takes, diskVars, Write
<1>21. ASSUME NEW i \in Issues, NEW passed \in BOOLEAN, ReviewEnd(sole, i, passed)
       PROVE  WavesClear'
  BY <1>21 DEF ReviewEnd, Write
<1> QED
  BY <1>1, <1>2, <1>3, <1>4, <1>5, <1>6, <1>7, <1>8, <1>9, <1>10, <1>11, <1>12, <1>13, <1>14, <1>15, <1>16, <1>17, <1>18, <1>19, <1>20, <1>21 DEF RunStep

LEMMA WavesClearOtherStep ==
    ASSUME ConstantsAssumption, NEW sole, Runs = {sole}, MaxEdits = 0, OrderInv,
           \/ AgentStep(sole)
           \/ Command \/ UserEdit \/ Crash
    PROVE  WavesClear'
<1>0. TypeOK /\ AgentsBelong /\ WavesClear
  BY DEF OrderInv
<1> USE <1>0 DEF TypeOK, WavesClear, Clear
<1>1. ASSUME NEW i \in Issues, AgentReports(sole, i) PROVE WavesClear'
  <2>1. i \in wave[sole]
    BY <1>1 DEF AgentReports, AgentsBelong
  <2> QED
    BY <1>1, <2>1 DEF AgentReports, Write, waveVars
<1>2. ASSUME NEW i \in Issues, AgentExits(sole, i) PROVE WavesClear'
  BY <1>2 DEF AgentExits, diskVars
<1>3. ASSUME NEW scope, Start(sole, scope) PROVE WavesClear'
  BY <1>3 DEF Start
<1>4. CASE Pause \/ Stop
  BY <1>4 DEF Pause, Stop, diskVars, waveVars
<1>5. ~UserEdit
  BY DEF UserEdit, UpdateIssue, DeleteIssue, CreateIssue, ArchiveBoard,
         RestoreBoard, SetBoard, Edit
<1>6. CASE Crash
  BY <1>6 DEF Crash, diskVars
<1> QED
  BY <1>1, <1>2, <1>3, <1>4, <1>5, <1>6
     DEF AgentStep, Command, Execute, Resume, ExecuteEpic

(* As long as only the executor and its agents write the files, an agent     *)
(* works on an issue only while everything it is blocked by is closed: no    *)
(* failed review, stale recovery or crash reopens a blocker under a          *)
(* dependent that is being worked on.                                        *)
THEOREM DependencyOrderHolds ==
    ASSUME ConstantsAssumption, NEW sole, Runs = {sole}, MaxEdits = 0
    PROVE  Spec => []DependencyOrder
<1>1. Init => OrderInv
  <2> SUFFICES ASSUME Init PROVE OrderInv
    OBVIOUS
  <2>1. TypeOK
    BY InitType
  <2> QED
    BY <2>1 DEF Init, OrderInv, AgentsBelong, WavesClear
<1>2. OrderInv /\ [Next]_vars => OrderInv'
  <2> SUFFICES ASSUME OrderInv, [Next]_vars PROVE OrderInv'
    OBVIOUS
  <2>1. CASE UNCHANGED vars
    BY <2>1 DEF OrderInv, TypeOK, AgentsBelong, WavesClear, Clear, vars, diskVars,
                execVars, ctlVars, waveVars
  <2>2. CASE RunStep(sole)
    BY <2>2, RunStepType, BelongStep, WavesClearRunStep DEF OrderInv
  <2>3. CASE AgentStep(sole) \/ Command \/ UserEdit \/ Crash
    BY <2>3, OtherStepType, BelongOtherStep, WavesClearOtherStep DEF OrderInv
  <2> QED
    BY <2>1, <2>2, <2>3 DEF Next
<1>3. OrderInv => DependencyOrder
  BY DEF OrderInv, AgentsBelong, WavesClear, Clear, DependencyOrder
<1> QED
  BY <1>1, <1>2, <1>3, PTL DEF Spec

-----------------------------------------------------------------------------
(* The permissions of the agents: installed from the start of a wave to its  *)
(* end.  What a crash leaves installed, the next start removes.              *)

UnderWay(r) == pc[r] \in {"mark", "agents", "reconcile", "review"}

PermsRight == /\ \A r \in Runs : UnderWay(r) => perms
              /\ perms /\ status # "none" => \E r \in Runs : UnderWay(r)
              /\ status = "none" => \A r \in Runs : pc[r] = "idle"

PermsInv == TypeOK /\ AgentsBelong /\ PermsRight

LEMMA PermsRunStep ==
    ASSUME ConstantsAssumption, NEW sole, Runs = {sole}, PermsInv, RunStep(sole)
    PROVE  PermsRight'
<1>0. TypeOK /\ PermsRight
  BY DEF PermsInv
<1> USE <1>0 DEF TypeOK, PermsRight, UnderWay
<1>1. CASE Recover(sole)
  BY <1>1 DEF Recover, execVars
<1>2. CASE EnterLoop(sole)
  BY <1>2 DEF EnterLoop, execVars
<1>3. CASE LeaveLoop(sole)
  BY <1>3 DEF LeaveLoop, Finish, Verdict, execVars
<1>4. CASE PickUnloadable(sole)
  BY <1>4 DEF PickUnloadable, Picks, Finish, Verdict, execVars
<1>5. CASE PickReady(sole)
  BY <1>5 DEF PickReady, Picks, execVars
<1>6. CASE PickDead(sole)
  BY <1>6 DEF PickDead, Picks, Finish, Verdict, execVars
<1>7. CASE PickNothing(sole)
  BY <1>7 DEF PickNothing, Picks, Finish, Verdict, execVars
<1>8. CASE PickAllDone(sole)
  BY <1>8 DEF PickAllDone, Picks, execVars
<1>9. CASE CompleteBoard(sole)
  BY <1>9 DEF CompleteBoard, Finish, Verdict, execVars
<1>10. CASE BeginWave(sole)
  BY <1>10 DEF BeginWave, execVars
<1>11. CASE Mark(sole)
  BY <1>11 DEF Mark, execVars
<1>12. CASE Spawn(sole)
  BY <1>12 DEF Spawn, execVars
<1>13. CASE Settled(sole)
  BY <1>13 DEF Settled, execVars
<1>14. CASE EndWave(sole)
  BY <1>14 DEF EndWave, WaveDone, CloseWave, execVars
<1>15. CASE Stall(sole)
  BY <1>15 DEF Stall, Finish, Verdict, WaveDone, CloseWave, execVars
<1>16. ASSUME NEW i \in Issues, ReconcileMissing(sole, i) PROVE PermsRight'
  BY <1>16 DEF ReconcileMissing, Takes, execVars
<1>17. ASSUME NEW i \in Issues, ReconcileIncomplete(sole, i) PROVE PermsRight'
  BY <1>17 DEF ReconcileIncomplete, Takes, execVars
<1>18. ASSUME NEW i \in Issues, ReconcileUngated(sole, i) PROVE PermsRight'
  BY <1>18 DEF ReconcileUngated, Takes, execVars
<1>19. ASSUME NEW i \in Issues, ReviewAbandon(sole, i) PROVE PermsRight'
  BY <1>19 DEF ReviewAbandon, Takes, execVars
<1>20. ASSUME NEW i \in Issues, ReviewBegin(sole, i) PROVE PermsRight'
  BY <1>20 DEF ReviewBegin, Takes, execVars
<1>21. ASSUME NEW i \in Issues, NEW passed \in BOOLEAN, ReviewEnd(sole, i, passed)
       PROVE  PermsRight'
  BY <1>21 DEF ReviewEnd, execVars
<1> QED
  BY <1>1, <1>2, <1>3, <1>4, <1>5, <1>6, <1>7, <1>8, <1>9, <1>10, <1>11, <1>12, <1>13, <1>14, <1>15, <1>16, <1>17, <1>18, <1>19, <1>20, <1>21 DEF RunStep

(* With one loop at a time the agents always have their permissions, and the *)
(* user's own settings are back between waves, after a crash too.            *)
THEOREM PermissionsFollowWavesHolds ==
    ASSUME ConstantsAssumption, NEW sole, Runs = {sole}
    PROVE  Spec => []PermissionsFollowWaves
<1>1. Init => PermsInv
  <2> SUFFICES ASSUME Init PROVE PermsInv
    OBVIOUS
  <2>1. TypeOK
    BY InitType
  <2> QED
    BY <2>1 DEF Init, PermsInv, AgentsBelong, PermsRight, UnderWay
<1>2. PermsInv /\ [Next]_vars => PermsInv'
  <2> SUFFICES ASSUME PermsInv, [Next]_vars PROVE PermsInv'
    OBVIOUS
  <2>1. CASE UNCHANGED vars
    BY <2>1 DEF PermsInv, TypeOK, AgentsBelong, PermsRight, UnderWay, vars, diskVars,
                execVars, ctlVars, waveVars
  <2>2. CASE RunStep(sole)
    BY <2>2, RunStepType, BelongStep, PermsRunStep DEF PermsInv
  <2>3. CASE AgentStep(sole) \/ Command \/ UserEdit \/ Crash
    <3>1. ASSUME NEW scope, Start(sole, scope) PROVE PermsRight'
      <4>1. perms /\ status # "none" => FALSE
        BY <3>1 DEF Start, PermsInv, PermsRight, UnderWay
      <4>2. ~ perms'
        BY <3>1, <4>1, Zenon DEF Start, SettingsAtStart
      <4>3. status' = "executing" /\ ~ UnderWay(sole)'
        BY <3>1 DEF Start, PermsInv, TypeOK, UnderWay
      <4> QED
        BY <4>2, <4>3 DEF PermsRight
    <3>2. ASSUME Crash PROVE PermsRight'
      BY <3>2 DEF Crash, PermsRight, UnderWay
    <3>3. ASSUME AgentStep(sole) \/ Pause \/ Stop \/ UserEdit PROVE PermsRight'
      <4>1. UNCHANGED <<perms, pc>> /\ (UNCHANGED status \/ Stop)
        BY <3>3 DEF AgentStep, AgentReports, AgentExits, Pause, Stop, UserEdit, UpdateIssue,
               DeleteIssue, CreateIssue, ArchiveBoard, RestoreBoard, SetBoard, execVars
      <4>2. (status' = "none" <=> status = "none")
        BY <4>1 DEF Stop
      <4> QED
        BY <4>1, <4>2 DEF PermsInv, PermsRight, UnderWay
    <3>4. Command =>
            \/ \E scope \in Epics \cup {epicScope, NoEpic} : Start(sole, scope)
            \/ Pause \/ Stop
      BY DEF Command, Execute, Resume, ExecuteEpic
    <3>5. PermsRight'
      BY <2>3, <3>1, <3>2, <3>3, <3>4
    <3> QED
      BY <2>3, <3>5, OtherStepType, BelongOtherStep DEF PermsInv
  <2> QED
    BY <2>1, <2>2, <2>3 DEF Next
<1>3. PermsInv => PermissionsFollowWaves
  BY DEF PermsInv, AgentsBelong, PermsRight, UnderWay, PermissionsFollowWaves
<1> QED
  BY <1>1, <1>2, <1>3, PTL DEF Spec
-----------------------------------------------------------------------------
(* What a run leaves behind.  At every point of a loop what is in progress   *)
(* or in review is what the loop still has to come to.                       *)

Closed == \A i \in Issues : disk[i] \in Terminal \cup {"absent"}

Drained == \A r \in Runs :
    /\ pc[r] = "recover" => Stuck(disk) \subseteq left[r]
    /\ pc[r] = "mark" => left[r] \subseteq wave[r]
    /\ pc[r] \in {"mark", "agents"} => Stuck(disk) \subseteq wave[r]
    /\ pc[r] \in {"reconcile", "review"} => Stuck(disk) \subseteq left[r] \cup cur[r]
    /\ pc[r] \in {"pick", "limit"} \/ (pc[r] = "idle" /\ status # "none")
           => Stuck(disk) = {}
    /\ pc[r] = "completeBoard" => Closed
    /\ board = "completed" => Closed /\ pc[r] \in {"idle", "pick"}
    /\ pc[r] # "idle" => status \in {"executing", "stopping"}

DrainInv == TypeOK /\ AgentsBelong /\ Drained /\ board # "archived" /\ CompleteMeansDrained

LEMMA DrainRunStep ==
    ASSUME ConstantsAssumption, NEW sole, Runs = {sole}, DrainInv, RunStep(sole)
    PROVE  Drained' /\ board' # "archived" /\ CompleteMeansDrained'
<1>0. TypeOK /\ AgentsBelong /\ Drained /\ board # "archived" /\ CompleteMeansDrained
  BY DEF DrainInv
<1> DEFINE Goal == Drained /\ board # "archived" /\ CompleteMeansDrained
<1> USE <1>0 DEF TypeOK, Drained, Closed, Stuck, CompleteMeansDrained, Ready
<1>1. CASE Recover(sole)
  BY <1>1 DEF Recover, Write, Terminal, Stale, execVars, diskVars, waveVars
<1>2. CASE EnterLoop(sole)
  BY <1>2 DEF EnterLoop, Terminal, Stale, execVars, diskVars, waveVars
<1>3. CASE LeaveLoop(sole)
  BY <1>3 DEF LeaveLoop, Finish, Verdict, Terminal, Stale, execVars, diskVars, waveVars
<1>4. CASE PickUnloadable(sole)
  BY <1>4 DEF PickUnloadable, Picks, CanLoad, Finish, Verdict, Terminal, Stale, execVars, diskVars, waveVars
<1>5. CASE PickReady(sole)
  BY <1>5 DEF PickReady, Picks, Activated, CanLoad, Terminal, Stale, execVars, diskVars, waveVars
<1>6. CASE PickDead(sole)
  BY <1>6 DEF PickDead, Picks, Activated, CanLoad, Finish, Verdict, Terminal, Stale, execVars, diskVars, waveVars
<1>7. CASE PickNothing(sole)
  BY <1>7 DEF PickNothing, Picks, Activated, CanLoad, InScope, Finish, Verdict, Terminal, Stale, execVars, diskVars, waveVars
<1>8. CASE PickAllDone(sole)
  BY <1>8 DEF PickAllDone, Picks, Activated, CanLoad, AllDone, Terminal, Stale, execVars, diskVars, waveVars
<1>9. CASE CompleteBoard(sole)
  BY <1>9 DEF CompleteBoard, Finish, Verdict, Terminal, Stale, execVars, diskVars, waveVars
<1>10. CASE BeginWave(sole)
  BY <1>10 DEF BeginWave, FirstOf, Terminal, Stale, execVars, diskVars, waveVars
<1>11. CASE Mark(sole)
  BY <1>11 DEF Mark, Write, Terminal, Stale, execVars, diskVars, waveVars
<1>12. CASE Spawn(sole)
  BY <1>12 DEF Spawn, AgentsBelong, Terminal, Stale, execVars, diskVars, waveVars
<1>13. CASE Settled(sole)
  BY <1>13 DEF Settled, AgentsBelong, Terminal, Stale, execVars, diskVars, waveVars
<1>14. CASE EndWave(sole)
  BY <1>14 DEF EndWave, WaveDone, CloseWave, Reconciled, AgentsBelong, Terminal, Stale, execVars, diskVars, waveVars
<1>15. CASE Stall(sole)
  BY <1>15 DEF Stall, Finish, Verdict, WaveDone, CloseWave, Reconciled, AgentsBelong, Terminal, Stale, execVars, diskVars, waveVars
<1>16. ASSUME NEW i \in Issues, ReconcileMissing(sole, i) PROVE Goal'
  BY <1>16 DEF ReconcileMissing, Takes, AgentsBelong, Terminal, Stale, execVars, diskVars, waveVars
<1>17. ASSUME NEW i \in Issues, ReconcileIncomplete(sole, i) PROVE Goal'
  BY <1>17 DEF ReconcileIncomplete, Takes, AgentsBelong, Write, Terminal, Stale, execVars, diskVars, waveVars
<1>18. ASSUME NEW i \in Issues, ReconcileUngated(sole, i) PROVE Goal'
  BY <1>18 DEF ReconcileUngated, Takes, AgentsBelong, Write, Terminal, Stale, execVars, diskVars, waveVars
<1>19. ASSUME NEW i \in Issues, ReviewAbandon(sole, i) PROVE Goal'
  BY <1>19 DEF ReviewAbandon, Takes, AgentsBelong, Write, Terminal, Stale, execVars, diskVars, waveVars
<1>20. ASSUME NEW i \in Issues, ReviewBegin(sole, i) PROVE Goal'
  BY <1>20 DEF ReviewBegin, Takes, AgentsBelong, Write, Terminal, Stale, execVars, diskVars, waveVars
<1>21. ASSUME NEW i \in Issues, NEW passed \in BOOLEAN, ReviewEnd(sole, i, passed)
       PROVE  Goal'
  BY <1>21 DEF ReviewEnd, AgentsBelong, StatusAfterReview, Write, Terminal, Stale, execVars, diskVars, waveVars
<1> QED
  BY <1>1, <1>2, <1>3, <1>4, <1>5, <1>6, <1>7, <1>8, <1>9, <1>10, <1>11, <1>12, <1>13, <1>14, <1>15, <1>16, <1>17, <1>18, <1>19, <1>20, <1>21 DEF RunStep

LEMMA DrainOtherStep ==
    ASSUME ConstantsAssumption, NEW sole, Runs = {sole}, MaxEdits = 0, DrainInv,
           AgentStep(sole) \/ Command \/ UserEdit \/ Crash
    PROVE  Drained' /\ board' # "archived" /\ CompleteMeansDrained'
<1>0. TypeOK /\ AgentsBelong /\ Drained /\ board # "archived" /\ CompleteMeansDrained
  BY DEF DrainInv
<1> DEFINE Goal == Drained /\ board # "archived" /\ CompleteMeansDrained
<1> USE <1>0 DEF TypeOK, Drained, Closed, Stuck, CompleteMeansDrained, Ready
<1>1. ASSUME NEW i \in Issues, AgentReports(sole, i) PROVE Goal'
  BY <1>1 DEF AgentReports, Write, AgentsBelong, execVars, waveVars
<1>2. ASSUME NEW i \in Issues, AgentExits(sole, i) PROVE Goal'
  BY <1>2 DEF AgentExits, AgentsBelong, InScope, execVars, diskVars
<1>3. ASSUME NEW scope, Start(sole, scope) PROVE Goal'
  BY <1>3 DEF Start, CanLoad, Activated, Recoverable, Stale, Terminal
<1>4. CASE Pause \/ Stop
  BY <1>4 DEF Pause, Stop, InScope, diskVars, waveVars
<1>5. ~UserEdit
  BY DEF UserEdit, UpdateIssue, DeleteIssue, CreateIssue, ArchiveBoard,
         RestoreBoard, SetBoard, Edit
<1>6. CASE Crash
  BY <1>6 DEF Crash, diskVars
<1> QED
  BY <1>1, <1>2, <1>3, <1>4, <1>5, <1>6
     DEF AgentStep, Command, Execute, Resume, ExecuteEpic

LEMMA DrainStart == ASSUME ConstantsAssumption, Init PROVE DrainInv
<1>1. TypeOK
  BY InitType
<1> QED
  BY <1>1 DEF Init, DrainInv, AgentsBelong, Drained, CompleteMeansDrained

LEMMA DrainStep ==
    ASSUME ConstantsAssumption, NEW sole, Runs = {sole}, MaxEdits = 0,
           DrainInv, [Next]_vars
    PROVE  DrainInv'
<1>1. CASE UNCHANGED vars
  BY <1>1 DEF DrainInv, TypeOK, AgentsBelong, Drained, Closed, Stuck, Ready, InScope,
              CompleteMeansDrained, vars, diskVars, execVars, ctlVars, waveVars
<1>2. CASE RunStep(sole)
  BY <1>2, RunStepType, BelongStep, DrainRunStep DEF DrainInv
<1>3. CASE AgentStep(sole) \/ Command \/ UserEdit \/ Crash
  BY <1>3, OtherStepType, BelongOtherStep, DrainOtherStep DEF DrainInv
<1> QED
  BY <1>1, <1>2, <1>3 DEF Next

(* As long as only the executor and its agents write the files, a run that   *)
(* ended leaves nothing in progress or in review behind, whatever stopped,   *)
(* paused or stalled it, and is complete only if nothing was left to run.    *)
THEOREM NothingLeftRunningHolds ==
    ASSUME ConstantsAssumption, NEW sole, Runs = {sole}, MaxEdits = 0
    PROVE  Spec => []NothingLeftRunning
<1>1. Init => DrainInv
  BY DrainStart
<1>2. DrainInv /\ [Next]_vars => DrainInv'
  BY DrainStep
<1>3. DrainInv => NothingLeftRunning
  BY DEF DrainInv, Drained, Live, NothingLeftRunning
<1> QED
  BY <1>1, <1>2, <1>3, PTL DEF Spec

(* Under the same assumptions a board is marked completed only when every    *)
(* issue on it is done or cancelled: only the loop that found nothing left   *)
(* marks it.                                                                 *)
THEOREM BoardCompletedWhenDoneHolds ==
    ASSUME ConstantsAssumption, NEW sole, Runs = {sole}, MaxEdits = 0
    PROVE  Spec => BoardCompletedWhenDone
<1> DEFINE Right == board # "completed" /\ board' = "completed" =>
                        \A i \in Issues : disk[i] \in Terminal \cup {"absent"}
<1>1. Init => DrainInv
  BY DrainStart
<1>2. DrainInv /\ [Next]_vars => DrainInv'
  BY DrainStep
<1>3. DrainInv /\ [Next]_vars => [Right]_vars
  <2> SUFFICES ASSUME DrainInv, [Next]_vars, board # "completed", board' = "completed"
               PROVE  Closed
    BY DEF Closed
  <2>1. CASE RunStep(sole)
    <3>1. CASE CompleteBoard(sole)
      BY <3>1 DEF CompleteBoard, DrainInv, Drained
    <3>2. CASE ~ CompleteBoard(sole)
      <4>1. board' \in {board, Activated}
        BY <2>1, <3>2
           DEF RunStep, Recover, EnterLoop, LeaveLoop, PickUnloadable, PickReady, PickDead,
               PickNothing, PickAllDone, BeginWave, Mark, Spawn, Settled, ReconcileMissing,
               ReconcileIncomplete, ReconcileUngated, ReviewAbandon, ReviewBegin, ReviewEnd,
               EndWave, Stall, diskVars
      <4> QED
        BY <4>1 DEF Activated
    <3> QED
      BY <3>1, <3>2
  <2>2. CASE AgentStep(sole) \/ Command \/ UserEdit \/ Crash
    <3>1. ~ UserEdit
      BY DEF UserEdit, UpdateIssue, DeleteIssue, CreateIssue, ArchiveBoard,
             RestoreBoard, SetBoard, Edit, DrainInv, TypeOK
    <3>2. board' \in {board, Activated}
      BY <2>2, <3>1 DEF AgentStep, AgentReports, AgentExits, Command, Execute, Resume,
                         ExecuteEpic, Start, Pause, Stop, Crash, diskVars
    <3> QED
      BY <3>2 DEF Activated
  <2>3. CASE UNCHANGED vars
    BY <2>3 DEF vars, diskVars
  <2> QED
    BY <2>1, <2>2, <2>3 DEF Next
<1> QED
  BY <1>1, <1>2, <1>3, PTL DEF Spec, BoardCompletedWhenDone

-----------------------------------------------------------------------------
(* The life cycle of an issue.  The invariant says that what a loop is about *)
(* to take up is open, and, unless agents write done, what it works on too.  *)
Picked == \A r \in Runs :
    /\ wave[r] \subseteq Tasks
    /\ pc[r] = "recover" => \A i \in left[r] : disk[i] \notin Terminal
    /\ pc[r] = "limit" => \A i \in wave[r] : disk[i] \notin Terminal
    /\ pc[r] = "mark" => \A i \in left[r] : disk[i] \notin Terminal
    /\ cur[r] \cap left[r] = {}
    /\ pc[r] \in {"reconcile", "review"} => left[r] \subseteq wave[r]
    /\ "done" \notin AgentStatuses =>
          \A i \in Marked(r) \cup cur[r] : disk[i] \notin Terminal

LifeInv == OrderInv /\ Picked

(* What the refinement mapping shows of an issue when there is one loop.     *)
LEMMA PhaseOf ==
    ASSUME NEW sole, Runs = {sole}, NEW i
    PROVE  Phase(i) = IF pc[sole] = "review" /\ i \in cur[sole] THEN "reviewing"
                      ELSE IF i \in Marked(sole) THEN "working"
                      ELSE IF disk[i] \in Terminal THEN disk[i] ELSE "open"
  BY DEF Phase

LEMMA PickedRunStep ==
    ASSUME ConstantsAssumption, NEW sole, Runs = {sole}, LifeInv, RunStep(sole)
    PROVE  Picked'
<1>0. TypeOK /\ AgentsBelong /\ Picked
  BY DEF LifeInv, OrderInv
<1> USE <1>0 DEF TypeOK, Picked, Marked, AgentsBelong
<1>1. CASE Recover(sole)
  BY <1>1 DEF Recover, Write, waveVars, diskVars, Terminal
<1>2. CASE EnterLoop(sole)
  BY <1>2 DEF EnterLoop, waveVars, diskVars
<1>3. CASE LeaveLoop(sole)
  BY <1>3 DEF LeaveLoop, Finish, waveVars, diskVars
<1>4. CASE PickUnloadable(sole)
  BY <1>4 DEF PickUnloadable, Picks, Finish, waveVars, diskVars
<1>5. CASE PickReady(sole)
  BY <1>5 DEF PickReady, Picks, Ready, Tasks, Terminal, waveVars, diskVars
<1>6. CASE PickDead(sole)
  BY <1>6 DEF PickDead, Picks, Finish, waveVars, diskVars
<1>7. CASE PickNothing(sole)
  BY <1>7 DEF PickNothing, Picks, Finish, waveVars, diskVars
<1>8. CASE PickAllDone(sole)
  BY <1>8 DEF PickAllDone, Picks, waveVars, diskVars
<1>9. CASE CompleteBoard(sole)
  BY <1>9 DEF CompleteBoard, Finish, waveVars, diskVars
<1>10. CASE BeginWave(sole)
  BY <1>10 DEF BeginWave, FirstOf, waveVars, diskVars
<1>11. CASE Mark(sole)
  BY <1>11 DEF Mark, Write, Terminal, waveVars, diskVars
<1>12. CASE Spawn(sole)
  BY <1>12 DEF Spawn, waveVars, diskVars
<1>13. CASE Settled(sole)
  BY <1>13 DEF Settled, waveVars, diskVars
<1>14. CASE EndWave(sole)
  BY <1>14 DEF EndWave, WaveDone, CloseWave, waveVars, diskVars
<1>15. CASE Stall(sole)
  BY <1>15 DEF Stall, WaveDone, CloseWave, Finish, waveVars, diskVars
<1>16. ASSUME NEW i \in Issues, ReconcileMissing(sole, i) PROVE Picked'
  BY <1>16 DEF ReconcileMissing, Takes, diskVars
<1>17. ASSUME NEW i \in Issues, ReconcileIncomplete(sole, i) PROVE Picked'
  BY <1>17 DEF ReconcileIncomplete, Takes, diskVars, Write
<1>18. ASSUME NEW i \in Issues, ReconcileUngated(sole, i) PROVE Picked'
  BY <1>18 DEF ReconcileUngated, Takes, diskVars, Write
<1>19. ASSUME NEW i \in Issues, ReviewAbandon(sole, i) PROVE Picked'
  BY <1>19 DEF ReviewAbandon, Takes, diskVars, Write
<1>20. ASSUME NEW i \in Issues, ReviewBegin(sole, i) PROVE Picked'
  BY <1>20 DEF ReviewBegin, Takes, diskVars, Write, Terminal
<1>21. ASSUME NEW i \in Issues, NEW passed \in BOOLEAN, ReviewEnd(sole, i, passed)
       PROVE  Picked'
  BY <1>21 DEF ReviewEnd, Write
<1> QED
  BY <1>1, <1>2, <1>3, <1>4, <1>5, <1>6, <1>7, <1>8, <1>9, <1>10, <1>11, <1>12, <1>13, <1>14, <1>15, <1>16, <1>17, <1>18, <1>19, <1>20, <1>21 DEF RunStep

LEMMA PickedOtherStep ==
    ASSUME ConstantsAssumption, NEW sole, Runs = {sole}, MaxEdits = 0, LifeInv,
           AgentStep(sole) \/ Command \/ Crash
    PROVE  Picked'
<1>0. TypeOK /\ AgentsBelong /\ Picked
  BY DEF LifeInv, OrderInv
<1> USE <1>0 DEF TypeOK, Picked, Marked
<1>1. ASSUME NEW i \in Issues, AgentReports(sole, i) PROVE Picked'
  <2>1. pc[sole] = "agents"
    BY <1>1 DEF AgentReports, AgentsBelong
  <2>2. UNCHANGED <<pc, wave, left, cur>>
    BY <1>1 DEF AgentReports, waveVars
  <2>3. \A j \in Issues : disk[j] \notin Terminal /\ "done" \notin AgentStatuses
                            => disk'[j] \notin Terminal
    BY <1>1, ConstantsAssumption DEF AgentReports, Write, Terminal
  <2> QED
    BY <2>1, <2>2, <2>3
<1>2. ASSUME NEW i \in Issues, AgentExits(sole, i) PROVE Picked'
  BY <1>2 DEF AgentExits, diskVars
<1>3. ASSUME NEW scope, Start(sole, scope) PROVE Picked'
  BY <1>3 DEF Start, Recoverable, Stale, Terminal, AgentsBelong
<1>4. CASE Pause \/ Stop
  BY <1>4 DEF Pause, Stop, diskVars, waveVars
<1>5. CASE Crash
  BY <1>5 DEF Crash, diskVars
<1> QED
  BY <1>1, <1>2, <1>3, <1>4, <1>5
     DEF AgentStep, Command, Execute, Resume, ExecuteEpic

(* A step that changes what is seen of no issue, or of one, in its life.     *)
LEMMA LifeStays ==
    ASSUME \A j \in Tasks : Phase(j)' = Phase(j) /\ reviews'[j] = reviews[j]
    PROVE  UNCHANGED Life!lifeVars
<1>1. [j \in Tasks |-> Phase(j)'] = [j \in Tasks |-> Phase(j)]
  OBVIOUS
<1>2. [j \in Tasks |-> reviews'[j]] = [j \in Tasks |-> reviews[j]]
  OBVIOUS
<1> QED
  BY <1>1, <1>2 DEF Life!lifeVars

LEMMA LifeMoves ==
    ASSUME NEW i \in Tasks, NEW from, NEW to, Phase(i) = from, Phase(i)' = to,
           \A j \in Tasks \ {i} : Phase(j)' = Phase(j)
    PROVE  Life!Move(i, from, to)
<1>1. [j \in Tasks |-> Phase(j)'] = [[j \in Tasks |-> Phase(j)] EXCEPT ![i] = to]
  OBVIOUS
<1> QED
  BY <1>1 DEF Life!Move

LEMMA TriesStay ==
    ASSUME UNCHANGED reviews
    PROVE  [j \in Tasks |-> reviews[j]]' = [j \in Tasks |-> reviews[j]]
  OBVIOUS

(* Each step of a loop is a step of the life of at most one issue.           *)
LEMMA LifeRunStep ==
    ASSUME ConstantsAssumption, NEW sole, Runs = {sole}, LifeInv, RunStep(sole)
    PROVE  [Life!Next]_(Life!lifeVars)
<1>0. TypeOK /\ AgentsBelong /\ Picked /\ WavesClear
  BY DEF LifeInv, OrderInv
<1>p. /\ \A j \in Tasks : Phase(j) =
           IF pc[sole] = "review" /\ j \in cur[sole] THEN "reviewing"
           ELSE IF j \in Marked(sole) THEN "working"
           ELSE IF disk[j] \in Terminal THEN disk[j] ELSE "open"
      /\ \A j \in Tasks : Phase(j)' =
           IF pc'[sole] = "review" /\ j \in cur'[sole] THEN "reviewing"
           ELSE IF j \in Marked(sole)' THEN "working"
           ELSE IF disk'[j] \in Terminal THEN disk'[j] ELSE "open"
  BY PhaseOf DEF Phase
<1>t. Tasks \subseteq Issues
  BY DEF Tasks
\* Steps that nobody sees.
<1>s. ASSUME \A j \in Tasks : Phase(j)' = Phase(j), UNCHANGED reviews
      PROVE  [Life!Next]_(Life!lifeVars)
  BY <1>s, LifeStays
<1>u. ASSUME UNCHANGED <<disk, reviews, wave, left, cur>>,
             /\ pc[sole] \notin {"mark", "agents", "reconcile", "review"}
             /\ pc'[sole] \notin {"mark", "agents", "reconcile", "review"}
      PROVE  [Life!Next]_(Life!lifeVars)
  BY <1>p, <1>s, <1>u DEF Marked
<1>1. CASE Recover(sole)
  <2>1. PICK i \in left[sole] : Write(i, "todo")
    BY <1>1 DEF Recover
  <2>2. /\ disk[i] \notin Terminal /\ disk'[i] \notin Terminal /\ UNCHANGED <<pc, cur, reviews>>
        /\ \A j \in Issues \ {i} : disk'[j] = disk[j]
        /\ pc[sole] = "recover"
    BY <1>0, <1>1, <2>1 DEF Recover, Picked, Write, TypeOK, Terminal, waveVars, diskVars
  <2>3. \A j \in Tasks : Phase(j)' = Phase(j)
    BY <1>p, <1>t, <2>2 DEF Marked
  <2> QED
    BY <1>s, <2>2, <2>3
<1>2. CASE EnterLoop(sole)
  BY <1>0, <1>2, <1>u DEF EnterLoop, waveVars, diskVars, TypeOK
<1>3. CASE LeaveLoop(sole)
  BY <1>0, <1>3, <1>u DEF LeaveLoop, Finish, waveVars, diskVars, TypeOK
<1>4. CASE PickUnloadable(sole)
  BY <1>0, <1>4, <1>u DEF PickUnloadable, Picks, Finish, waveVars, diskVars, TypeOK
<1>5. CASE PickReady(sole)
  <2>1. UNCHANGED <<disk, reviews, cur>> /\ pc[sole] = "pick" /\ pc'[sole] = "limit"
    BY <1>0, <1>5 DEF PickReady, Picks, TypeOK
  <2>2. \A j \in Tasks : Phase(j)' = Phase(j)
    BY <1>p, <2>1 DEF Marked
  <2> QED
    BY <1>s, <2>1, <2>2
<1>6. CASE PickDead(sole)
  BY <1>0, <1>6, <1>u DEF PickDead, Picks, Finish, waveVars, diskVars, TypeOK
<1>7. CASE PickNothing(sole)
  BY <1>0, <1>7, <1>u DEF PickNothing, Picks, Finish, waveVars, diskVars, TypeOK
<1>8. CASE PickAllDone(sole)
  BY <1>0, <1>8, <1>u DEF PickAllDone, Picks, waveVars, diskVars, TypeOK
<1>9. CASE CompleteBoard(sole)
  BY <1>0, <1>9, <1>u DEF CompleteBoard, Finish, waveVars, diskVars, TypeOK
<1>10. CASE BeginWave(sole)
  <2>1. /\ UNCHANGED <<disk, reviews, cur>> /\ pc[sole] = "limit" /\ pc'[sole] = "mark"
        /\ wave'[sole] = left'[sole]
    BY <1>0, <1>10 DEF BeginWave, TypeOK, diskVars
  <2>2. \A j \in Tasks : Phase(j)' = Phase(j)
    BY <1>p, <2>1 DEF Marked
  <2> QED
    BY <1>s, <2>1, <2>2
<1>11. CASE Mark(sole)
  <2>1. PICK i \in left[sole] : Write(i, "in_progress") /\ left' = [left EXCEPT ![sole] = @ \ {i}]
    BY <1>11 DEF Mark
  <2>2. /\ pc[sole] = "mark" /\ UNCHANGED <<pc, cur, wave, reviews>>
        /\ left'[sole] = left[sole] \ {i} /\ i \in wave[sole] /\ i \in Tasks
        /\ disk[i] \notin Terminal /\ \A j \in Issues \ {i} : disk'[j] = disk[j]
    BY <1>0, <1>11, <2>1 DEF Mark, Write, TypeOK, Picked, WavesClear
  <2>3. Marked(sole) = wave[sole] \ left[sole] /\ Marked(sole)' = wave[sole] \ left'[sole]
    BY <2>2 DEF Marked
  <2>4. Phase(i) = "open" /\ Phase(i)' = "working"
    BY <1>p, <2>2, <2>3
  <2>5. \A j \in Tasks \ {i} : Phase(j)' = Phase(j)
    BY <1>p, <1>t, <2>2, <2>3
  <2>6. \A b \in BlockedBy[i] \cap Tasks : Phase(b) \in {"done", "cancelled"}
    <3>1. \A b \in BlockedBy[i] : disk[b] \in Terminal /\ b \notin wave[sole]
      BY <1>0, <2>2 DEF WavesClear, Clear
    <3> QED
      BY <1>p, <2>2, <2>3, <3>1 DEF Terminal
  <2>7. Life!Move(i, "open", "working")
    BY <2>2, <2>4, <2>5, LifeMoves
  <2>8. Life!Pick(i)
    BY <2>2, <2>6, <2>7 DEF Life!Pick, Life!Closed
  <2> QED
    BY <2>2, <2>8 DEF Life!Next
<1>12. CASE Spawn(sole)
  <2>1. /\ UNCHANGED <<disk, reviews, cur, wave>> /\ pc[sole] = "mark" /\ pc'[sole] = "agents"
        /\ left[sole] = {}
    BY <1>0, <1>12 DEF Spawn, TypeOK, diskVars
  <2>2. \A j \in Tasks : Phase(j)' = Phase(j)
    BY <1>p, <2>1 DEF Marked
  <2> QED
    BY <1>s, <2>1, <2>2
<1>13. CASE Settled(sole)
  <2>1. /\ UNCHANGED <<disk, reviews, cur, wave>> /\ pc[sole] = "agents"
        /\ pc'[sole] = "reconcile" /\ left'[sole] = wave[sole]
    BY <1>0, <1>13 DEF Settled, TypeOK, diskVars
  <2>2. \A j \in Tasks : Phase(j)' = Phase(j)
    BY <1>p, <2>1 DEF Marked
  <2> QED
    BY <1>s, <2>1, <2>2
\* A loop lets go of an issue: what its phase becomes is what its file says.
<1>r. ASSUME NEW i \in Issues, NEW to, Takes(sole, i), UNCHANGED <<reviews, pc, cur>>,
             \A j \in Issues \ {i} : disk'[j] = disk[j],
             to = IF disk'[i] \in Terminal THEN disk'[i] ELSE "open"
      PROVE  i \in Tasks /\ Life!Move(i, "working", to)
  <2>1. /\ pc[sole] = "reconcile" /\ left'[sole] = left[sole] \ {i} /\ i \in left[sole]
        /\ i \in Tasks /\ cur[sole] = {}
    BY <1>0, <1>r DEF Takes, TypeOK, Picked, AgentsBelong
  <2>2. Marked(sole) = left[sole] /\ Marked(sole)' = left'[sole]
    BY <1>r, <2>1 DEF Marked
  <2>3. Phase(i) = "working" /\ Phase(i)' = to
    BY <1>p, <1>r, <2>1, <2>2
  <2>4. \A j \in Tasks \ {i} : Phase(j)' = Phase(j)
    BY <1>p, <1>r, <1>t, <2>1, <2>2
  <2> QED
    BY <2>1, <2>3, <2>4, LifeMoves
<1>16. ASSUME NEW i \in Issues, ReconcileMissing(sole, i) PROVE [Life!Next]_(Life!lifeVars)
  <2>1. i \in Tasks /\ Life!Move(i, "working", "open") /\ UNCHANGED reviews
    BY <1>16, <1>r DEF ReconcileMissing, diskVars, Terminal
  <2>2. Life!GiveBack(i)
    BY <2>1 DEF Life!GiveBack
  <2> QED
    BY <2>1, <2>2 DEF Life!Next
<1>17. ASSUME NEW i \in Issues, ReconcileIncomplete(sole, i) PROVE [Life!Next]_(Life!lifeVars)
  <2>1. disk'[i] = "todo" /\ \A j \in Issues \ {i} : disk'[j] = disk[j]
    BY <1>0, <1>17 DEF ReconcileIncomplete, Write, TypeOK
  <2>2. i \in Tasks /\ Life!Move(i, "working", "open") /\ UNCHANGED reviews
    BY <1>17, <1>r, <2>1 DEF ReconcileIncomplete, Terminal
  <2>3. Life!GiveBack(i)
    BY <2>2 DEF Life!GiveBack
  <2> QED
    BY <2>2, <2>3 DEF Life!Next
<1>18. ASSUME NEW i \in Issues, ReconcileUngated(sole, i) PROVE [Life!Next]_(Life!lifeVars)
  <2>1. disk'[i] = "done" /\ \A j \in Issues \ {i} : disk'[j] = disk[j]
    BY <1>0, <1>18 DEF ReconcileUngated, ReadsAs, Write, TypeOK
  <2>2. i \in Tasks /\ i \in Ungated /\ Life!Move(i, "working", "done") /\ UNCHANGED reviews
    BY <1>18, <1>r, <2>1 DEF ReconcileUngated, Terminal
  <2>3. Life!Accept(i)
    BY <2>2 DEF Life!Accept
  <2> QED
    BY <2>2, <2>3 DEF Life!Next
<1>19. ASSUME NEW i \in Issues, ReviewAbandon(sole, i) PROVE [Life!Next]_(Life!lifeVars)
  <2>1. disk'[i] = "cancelled" /\ \A j \in Issues \ {i} : disk'[j] = disk[j]
    BY <1>0, <1>19 DEF ReviewAbandon, ReadsAs, Write, TypeOK
  <2>2. /\ i \in Tasks /\ i \notin Ungated /\ Life!Move(i, "working", "cancelled")
        /\ UNCHANGED reviews
    BY <1>19, <1>r, <2>1 DEF ReviewAbandon, Terminal
  <2>3. reviews[i] >= MAX_REVIEW_ATTEMPTS
    BY <1>0, <1>19, Caps DEF ReviewAbandon, MayBeReviewed, TypeOK
  <2>4. Life!Abandon(i)
    BY <2>2, <2>3 DEF Life!Abandon
  <2> QED
    BY <2>2, <2>4 DEF Life!Next
<1>20. ASSUME NEW i \in Issues, ReviewBegin(sole, i) PROVE [Life!Next]_(Life!lifeVars)
  <2>1. /\ pc[sole] = "reconcile" /\ pc'[sole] = "review" /\ i \in left[sole]
        /\ left'[sole] = left[sole] \ {i} /\ cur'[sole] = {i} /\ cur[sole] = {}
        /\ i \in Tasks /\ i \notin Ungated /\ reviews[i] < MAX_REVIEW_ATTEMPTS
        /\ UNCHANGED reviews /\ \A j \in Issues \ {i} : disk'[j] = disk[j]
    BY <1>0, <1>20 DEF ReviewBegin, Takes, MayBeReviewed, TypeOK, Picked, AgentsBelong, Write
  <2>2. Marked(sole) = left[sole] /\ Marked(sole)' = left'[sole]
    BY <2>1 DEF Marked
  <2>3. Phase(i) = "working" /\ Phase(i)' = "reviewing"
    BY <1>p, <2>1, <2>2
  <2>4. \A j \in Tasks \ {i} : Phase(j)' = Phase(j)
    BY <1>p, <1>t, <2>1, <2>2
  <2>5. Life!Move(i, "working", "reviewing")
    BY <2>1, <2>3, <2>4, LifeMoves
  <2>6. Life!Review(i)
    BY <2>1, <2>5 DEF Life!Review
  <2> QED
    BY <2>1, <2>6 DEF Life!Next
<1>21. ASSUME NEW i \in Issues, NEW passed \in BOOLEAN, ReviewEnd(sole, i, passed)
       PROVE  [Life!Next]_(Life!lifeVars)
  <2>1. /\ pc[sole] = "review" /\ pc'[sole] = "reconcile" /\ i \in cur[sole]
        /\ cur'[sole] = {} /\ UNCHANGED left /\ i \in Tasks /\ i \notin left[sole]
        /\ \A j \in cur[sole] : j = i
        /\ \A j \in Issues \ {i} : disk'[j] = disk[j]
        /\ disk'[i] \in {"done", "todo", "absent"}
        /\ reviews' = [reviews EXCEPT ![i] = @ + 1]
    BY <1>0, <1>21 DEF ReviewEnd, StatusAfterReview, TypeOK, Picked, AgentsBelong, WavesClear, Write
  <2>2. Marked(sole) = left[sole] /\ Marked(sole)' = left[sole]
    BY <2>1 DEF Marked
  <2>3. Phase(i) = "reviewing" /\ Phase(i)' \in {"done", "open"}
    BY <1>p, <2>1, <2>2 DEF Terminal
  <2>4. \A j \in Tasks \ {i} : Phase(j)' = Phase(j)
    BY <1>p, <1>t, <2>1, <2>2
  <2>5. Life!Move(i, "reviewing", "done") \/ Life!Move(i, "reviewing", "open")
    BY <2>1, <2>3, <2>4, LifeMoves
  <2>6. [j \in Tasks |-> reviews'[j]] = [[j \in Tasks |-> reviews[j]] EXCEPT ![i] = @ + 1]
    BY <1>0, <1>t, <2>1 DEF TypeOK
  <2>7. Life!Conclude(i)
    BY <2>5, <2>6 DEF Life!Conclude
  <2> QED
    BY <2>1, <2>7 DEF Life!Next
\* The end of a wave changes the files of epics only.
<1>22. ASSUME CloseWave(sole), WaveDone(sole), UNCHANGED <<reviews, left, cur>>,
              pc'[sole] \in {"pick", "idle"}
       PROVE  [Life!Next]_(Life!lifeVars)
  <2>1. /\ pc[sole] = "reconcile" /\ left[sole] = {} /\ cur[sole] = {}
        /\ \A j \in Tasks : disk'[j] = disk[j]
    BY <1>0, <1>22 DEF CloseWave, WaveDone, Reconciled, Tasks, AgentsBelong
  <2>2. Marked(sole) = {} /\ Marked(sole)' = {}
    BY <1>22, <2>1 DEF Marked
  <2>3. \A j \in Tasks : Phase(j)' = Phase(j)
    BY <1>22, <1>p, <2>1, <2>2
  <2> QED
    BY <1>22, <1>s, <2>3
<1>14. CASE EndWave(sole)
  BY <1>0, <1>14, <1>22 DEF EndWave, TypeOK
<1>15. CASE Stall(sole)
  BY <1>0, <1>15, <1>22 DEF Stall, Finish, TypeOK
<1> QED
  BY <1>1, <1>2, <1>3, <1>4, <1>5, <1>6, <1>7, <1>8, <1>9, <1>10, <1>11, <1>12, <1>13, <1>14, <1>15, <1>16, <1>17, <1>18, <1>19, <1>20, <1>21 DEF RunStep

(* So is a step of an agent or of the user; a crash interrupts them all.     *)
LEMMA LifeOtherStep ==
    ASSUME ConstantsAssumption, NEW sole, Runs = {sole}, MaxEdits = 0, LifeInv,
           "done" \notin AgentStatuses \/ MaxCrashes = 0,
           AgentStep(sole) \/ Command \/ Crash
    PROVE  [Life!Next]_(Life!lifeVars)
<1>0. TypeOK /\ AgentsBelong /\ Picked
  BY DEF LifeInv, OrderInv
<1>p. /\ \A j \in Tasks : Phase(j) =
           IF pc[sole] = "review" /\ j \in cur[sole] THEN "reviewing"
           ELSE IF j \in Marked(sole) THEN "working"
           ELSE IF disk[j] \in Terminal THEN disk[j] ELSE "open"
      /\ \A j \in Tasks : Phase(j)' =
           IF pc'[sole] = "review" /\ j \in cur'[sole] THEN "reviewing"
           ELSE IF j \in Marked(sole)' THEN "working"
           ELSE IF disk'[j] \in Terminal THEN disk'[j] ELSE "open"
  BY PhaseOf DEF Phase
<1>s. ASSUME \A j \in Tasks : Phase(j)' = Phase(j), UNCHANGED reviews
      PROVE  [Life!Next]_(Life!lifeVars)
  BY <1>s, LifeStays
<1>1. ASSUME NEW i \in Issues, AgentReports(sole, i) PROVE [Life!Next]_(Life!lifeVars)
  <2>1. /\ pc[sole] = "agents" /\ i \in wave[sole] /\ UNCHANGED <<pc, wave, left, cur, reviews>>
        /\ \A j \in Issues \ {i} : disk'[j] = disk[j]
    BY <1>0, <1>1 DEF AgentReports, AgentsBelong, Write, TypeOK, waveVars
  <2>2. Marked(sole) = wave[sole] /\ Marked(sole)' = wave[sole]
    BY <2>1 DEF Marked
  <2>3. \A j \in Tasks : Phase(j)' = Phase(j)
    BY <1>p, <2>1, <2>2 DEF Tasks
  <2> QED
    BY <1>s, <2>1, <2>3
<1>2. ASSUME UNCHANGED <<disk, reviews, pc, wave, left, cur>>
      PROVE  [Life!Next]_(Life!lifeVars)
  BY <1>2, <1>p, <1>s DEF Marked
<1>3. ASSUME NEW i \in Issues, AgentExits(sole, i) PROVE [Life!Next]_(Life!lifeVars)
  BY <1>2, <1>3 DEF AgentExits, diskVars
<1>4. ASSUME NEW scope, Start(sole, scope) PROVE [Life!Next]_(Life!lifeVars)
  <2>1. /\ UNCHANGED <<disk, reviews, wave, cur>> /\ pc[sole] = "idle"
        /\ pc'[sole] \in {"recover", "pick"}
    BY <1>0, <1>4 DEF Start, TypeOK
  <2>2. \A j \in Tasks : Phase(j)' = Phase(j)
    BY <1>p, <2>1 DEF Marked
  <2> QED
    BY <1>s, <2>1, <2>2
<1>5. CASE Pause \/ Stop
  BY <1>2, <1>5 DEF Pause, Stop, diskVars, waveVars
<1>6. CASE Crash
  <2>1. "done" \notin AgentStatuses
    BY <1>6, <1>0 DEF Crash, TypeOK
  <2>2. UNCHANGED <<disk, reviews>> /\ pc'[sole] = "idle"
    BY <1>6 DEF Crash, diskVars
  <2>3. \A j \in Tasks : Phase(j)' = IF Phase(j) \in Life!Closed THEN Phase(j) ELSE "open"
    <3>1. \A j \in Marked(sole) \cup cur[sole] : disk[j] \notin Terminal
      BY <1>0, <2>1 DEF Picked
    <3>2. Marked(sole)' = {}
      BY <2>2 DEF Marked
    <3> QED
      BY <1>p, <2>2, <3>1, <3>2 DEF Life!Closed, Terminal
  <2>4. Life!Interrupt
    <3>1. [j \in Tasks |-> Phase(j)'] =
            [j \in Tasks |-> IF [k \in Tasks |-> Phase(k)][j] \in Life!Closed
                             THEN [k \in Tasks |-> Phase(k)][j] ELSE "open"]
      BY <2>3
    <3> QED
      BY <2>2, <3>1 DEF Life!Interrupt
  <2> QED
    BY <2>4 DEF Life!Next
<1> QED
  BY <1>1, <1>3, <1>4, <1>5, <1>6
     DEF AgentStep, Command, Execute, Resume, ExecuteEpic

(* As long as only the executor and its agents write the files, each issue   *)
(* goes through the life cycle the board promises (IssueLifecycle), provided *)
(* that a crash does not come between the report of an agent that says done  *)
(* and its review.                                                           *)
THEOREM ImplementsLifecycleHolds ==
    ASSUME ConstantsAssumption, NEW sole, Runs = {sole}, MaxEdits = 0,
           "done" \notin AgentStatuses \/ MaxCrashes = 0
    PROVE  Spec => ImplementsLifecycle
<1>1. Init => LifeInv /\ Life!Init
  <2> SUFFICES ASSUME Init PROVE LifeInv /\ Life!Init
    OBVIOUS
  <2>1. TypeOK
    BY InitType
  <2>2. LifeInv
    BY <2>1 DEF Init, LifeInv, OrderInv, AgentsBelong, WavesClear, Picked, Marked
  <2>3. \A j \in Tasks : Phase(j) = IF disk[j] \in Terminal THEN disk[j] ELSE "open"
    BY PhaseOf DEF Init, Marked
  <2>4. \A j \in Tasks : Phase(j) \in {"open"} \cup Life!Closed
    BY <2>3 DEF Life!Closed, Terminal
  <2>5. \A j \in Tasks : reviews[j] = 0
    BY DEF Init, Tasks
  <2> QED
    BY <2>2, <2>4, <2>5 DEF Life!Init
<1>2. LifeInv /\ [Next]_vars => LifeInv' /\ [Life!Next]_(Life!lifeVars)
  <2> SUFFICES ASSUME LifeInv, [Next]_vars
               PROVE  LifeInv' /\ [Life!Next]_(Life!lifeVars)
    OBVIOUS
  <2>0. ~ UserEdit
    BY DEF UserEdit, UpdateIssue, DeleteIssue, CreateIssue, ArchiveBoard,
           RestoreBoard, SetBoard, Edit, LifeInv, OrderInv, TypeOK
  <2>1. CASE UNCHANGED vars
    <3>1. LifeInv'
      BY <2>1 DEF LifeInv, OrderInv, TypeOK, AgentsBelong, WavesClear, Clear, Picked,
                  Marked, vars, diskVars, execVars, ctlVars, waveVars
    <3>2. \A j \in Tasks : Phase(j)' = Phase(j) /\ reviews'[j] = reviews[j]
      BY <2>1 DEF Phase, Marked, vars, diskVars, waveVars
    <3> QED
      BY <3>1, <3>2, LifeStays
  <2>2. CASE RunStep(sole)
    BY <2>2, RunStepType, BelongStep, WavesClearRunStep, PickedRunStep, LifeRunStep
       DEF LifeInv, OrderInv
  <2>3. CASE AgentStep(sole) \/ Command \/ Crash
    BY <2>3, OtherStepType, BelongOtherStep, WavesClearOtherStep, PickedOtherStep,
       LifeOtherStep DEF LifeInv, OrderInv
  <2> QED
    BY <2>0, <2>1, <2>2, <2>3 DEF Next
<1> QED
  BY <1>1, <1>2, PTL DEF Spec, ImplementsLifecycle, Life!Spec

=============================================================================
