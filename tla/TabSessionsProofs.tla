--------------------------- MODULE TabSessionsProofs ---------------------------
(* Proofs about TabSessions, for any number of webs, sessions, prompts and    *)
(* restarts.                                                                  *)
EXTENDS TabSessions, TLAPS

(* Until the tab is removed the only session in memory is that of its         *)
(* record: a message makes another one only when the record's is gone.        *)
OneSession == ~removed => live \subseteq {regSession}

(* A prompt that has run is known to the tracker until its ack has arrived.   *)
RunsAreKnown ==
    \A m \in Messages :
        /\ ran[m] <= 1
        /\ ran[m] = 1 => m \in known \/ outbox[m] = "acked"
        /\ outbox[m] = "acked" => m \in everRan

-------------------------------------------------------------------------------
(* Types                                                                      *)

(* The flags of the tab's record, and everything else.                        *)
Flags == /\ persisted \in BOOLEAN /\ override \in BOOLEAN
         /\ wanted \in BOOLEAN /\ removed \in BOOLEAN

Places ==
    /\ conns \subseteq Webs
    /\ tabMap \in [Webs -> used \cup {None}]
    /\ \A w \in Webs \ conns : tabMap[w] = None
    /\ used \subseteq Sessions /\ live \subseteq used
    /\ running \subseteq used /\ continuing \subseteq used
    /\ abandoned \subseteq running \cup continuing
    /\ files \subseteq used /\ deleted \subseteq used
    /\ regSession \in used \cup {None}
    /\ outbox \in [Messages -> {"new", "sent", "acked"}]
    /\ known \subseteq everRan /\ everRan \subseteq Messages
    /\ ran \in [Messages -> Nat]
    /\ restarts \in 0..MaxRestarts

(* What executes, or is about to go on, and was not abandoned is in memory.   *)
InMemory == /\ (running \cup continuing) \ abandoned \subseteq live
            /\ saved \subseteq live

LEMMA TypeParts == Flags /\ Places /\ InMemory => TypeOK
BY Zenon DEF TypeOK, Flags, Places, InMemory

LEMMA PlacesInit == Init => Flags /\ Places /\ InMemory
<1>1. Init => Flags
  BY DEF Init, Flags
<1>2. Init => Places /\ InMemory
  BY TabConstants DEF Init, Places, InMemory, TabConstants
<1> QED
  BY <1>1, <1>2

(* The session a web's command reaches was given out before.                  *)
LEMMA TargetUsed ==
    ASSUME Places, NEW w \in Webs
    PROVE  Target(w) \in used \cup {None}
BY DEF Target, Places

LEMMA FlagsStep == Flags /\ [Next]_vars => Flags'
<1> SUFFICES ASSUME Flags, [Next]_vars PROVE Flags'
  OBVIOUS
<1> USE DEF Flags, vars, sessVars, diskVars, regVars, idVars
<1>1. ASSUME NEW w \in Webs,
             \/ CreateTab(w) \/ StartSession(w) \/ ResumeHistorical(w) \/ NewSession(w)
      PROVE  Flags'
  BY <1>1 DEF CreateTab, StartSession, ResumeHistorical, NewSession, Register, FlagOfNewSession
<1>2. ASSUME NEW w \in Webs,
             \/ Connect(w) \/ Close(w) \/ Reattach(w) \/ ResumeFromDisk(w) \/ SetEngine(w)
             \/ RemoveTab(w)
      PROVE  Flags'
  BY <1>2 DEF Connect, Close, Reattach, ResumeFromDisk, SetEngine, RemoveTab
<1>3. ASSUME NEW w \in Webs, NEW m \in Messages, Execute(w, m) \/ ExecuteAgain(w, m)
      PROVE  Flags'
  BY <1>3 DEF Execute, ExecuteAgain, MarkedWhenHeld
<1>4. ASSUME NEW m \in Messages, Lose(m) \/ Expire(m) PROVE Flags'
  BY <1>4 DEF Lose, Expire
<1>5. ASSUME NEW s \in Sessions, Begin(s) \/ Finish(s) \/ Continue(s) \/ DeleteHistory(s)
      PROVE  Flags'
  BY <1>5 DEF Begin, Finish, WriteHistory, Continue, DeleteHistory
<1>6. CASE Restart
  BY <1>6 DEF Restart
<1>7. CASE UNCHANGED vars
  BY <1>7
<1> QED
  BY <1>1, <1>2, <1>3, <1>4, <1>5, <1>6, <1>7 DEF Next

LEMMA PlacesMessages ==
    ASSUME Places, NEW w \in Webs,
           \/ CreateTab(w) \/ Reattach(w) \/ ResumeFromDisk(w) \/ StartSession(w)
           \/ ResumeHistorical(w) \/ NewSession(w) \/ SetEngine(w) \/ RemoveTab(w)
    PROVE  Places'
<1> USE TabConstants DEF Places, TabConstants, sessVars, diskVars, regVars, idVars
<1>1. CASE CreateTab(w)
  BY <1>1 DEF CreateTab, Fresh, Hold, Map, Register
<1>2. CASE Reattach(w)
  BY <1>2, TargetUsed DEF Reattach, Map
<1>3. CASE ResumeFromDisk(w)
  BY <1>3 DEF ResumeFromDisk, Hold, Map
<1>4. CASE StartSession(w)
  BY <1>4 DEF StartSession, Fresh, Hold, Map, Register
<1>5. CASE ResumeHistorical(w)
  BY <1>5 DEF ResumeHistorical, Fresh, Hold, Map, Register
<1>6. CASE NewSession(w)
  <2>1. Target(w) \in used
    BY <1>6, TargetUsed DEF NewSession, Commands
  <2>2. /\ running' = running /\ continuing' = continuing /\ abandoned \subseteq abandoned'
        /\ abandoned' \subseteq running \cup continuing /\ conns' = conns
    BY <1>6 DEF NewSession
  <2>3. PICK s \in Sessions : /\ tabMap' = [tabMap EXCEPT ![w] = s] /\ used' = used \cup {s}
                              /\ live' = (live \ {Target(w)}) \cup {s}
                              /\ regSession' \in {regSession, s}
                              /\ files' = files \cup {Target(w)}
    BY <1>6 DEF NewSession, Fresh, Map
  <2> QED
    BY <1>6, <2>1, <2>2, <2>3 DEF NewSession, Commands
<1>7. CASE SetEngine(w)
  BY <1>7 DEF SetEngine
<1>8. CASE RemoveTab(w)
  BY <1>8 DEF RemoveTab
<1> QED
  BY <1>1, <1>2, <1>3, <1>4, <1>5, <1>6, <1>7, <1>8

LEMMA PlacesPrompts ==
    ASSUME Places, NEW m \in Messages,
           \/ \E w \in Webs : Execute(w, m) \/ ExecuteAgain(w, m)
           \/ Lose(m) \/ Expire(m)
    PROVE  Places'
<1> USE TabConstants DEF TabConstants, sessVars, diskVars, regVars, idVars
<1>1. ASSUME NEW w \in Webs, Execute(w, m) PROVE Places'
  <2>1. Target(w) \in used
    BY <1>1, TargetUsed DEF Execute, Commands
  <2>2. outbox' \in [Messages -> {"new", "sent", "acked"}]
    BY <1>1 DEF Execute, Acked, Places
  <2>3. /\ tabMap' = [tabMap EXCEPT ![w] = Target(w)] /\ used' = used \cup {Target(w)}
        /\ conns' = conns /\ w \in conns
        /\ live' = live \cup {Target(w)} /\ running' = running \cup {Target(w)}
        /\ ran' = [ran EXCEPT ![m] = @ + 1] /\ known' = known \cup {m} /\ everRan' = everRan \cup {m}
        /\ UNCHANGED <<continuing, abandoned, files, deleted, regSession, restarts>>
    BY <1>1 DEF Execute, Commands, Hold, Map, Recorded
  <2> QED
    BY <2>1, <2>2, <2>3 DEF Places
<1>2. ASSUME NEW w \in Webs, ExecuteAgain(w, m) PROVE Places'
  <2>1. Target(w) \in used
    BY <1>2, TargetUsed DEF ExecuteAgain, Commands
  <2>2. outbox' \in [Messages -> {"new", "sent", "acked"}]
    BY <1>2 DEF ExecuteAgain, Acked, Places
  <2>3. /\ tabMap' = [tabMap EXCEPT ![w] = Target(w)] /\ used' = used \cup {Target(w)}
        /\ conns' = conns /\ w \in conns
        /\ live' = live \cup {Target(w)} /\ running' = running
        /\ ran' = ran /\ known' = known /\ everRan' = everRan
        /\ UNCHANGED <<continuing, abandoned, files, deleted, regSession, restarts>>
    BY <1>2 DEF ExecuteAgain, Commands, Hold, Map
  <2> QED
    BY <2>1, <2>2, <2>3 DEF Places
<1>3. CASE Lose(m)
  BY <1>3 DEF Lose, Places
<1>4. CASE Expire(m)
  BY <1>4 DEF Expire, Places
<1> QED
  BY <1>1, <1>2, <1>3, <1>4

LEMMA PlacesSessions ==
    ASSUME Places, NEW s \in Sessions,
           Begin(s) \/ Finish(s) \/ Continue(s) \/ DeleteHistory(s)
    PROVE  Places'
<1> USE DEF Places, sessVars, diskVars, regVars, idVars
<1>1. CASE Begin(s)
  BY <1>1 DEF Begin, WriteHistory
<1>2. CASE Finish(s)
  BY <1>2 DEF Finish, WriteHistory
<1>3. CASE Continue(s)
  BY <1>3 DEF Continue
<1>4. CASE DeleteHistory(s)
  BY <1>4 DEF DeleteHistory
<1> QED
  BY <1>1, <1>2, <1>3, <1>4

LEMMA PlacesStep == Places /\ [Next]_vars => Places'
<1> SUFFICES ASSUME Places, [Next]_vars PROVE Places'
  OBVIOUS
<1>1. ASSUME NEW w \in Webs, Connect(w) PROVE Places'
  BY <1>1 DEF Places, Connect, sessVars, diskVars, regVars, idVars
<1>2. ASSUME NEW w \in Webs, Close(w) PROVE Places'
  BY <1>2 DEF Places, Close, Map, Destroyed, diskVars, regVars, idVars
<1>3. CASE Restart
  <2>1. regSession' \in used' \cup {None}
    BY <1>3 DEF Places, Restart
  <2> QED
    BY <1>3, <2>1, TabConstants DEF Places, TabConstants, Restart, diskVars
<1>4. CASE UNCHANGED vars
  BY <1>4 DEF Places, vars, sessVars, diskVars, regVars, idVars
<1> QED
  BY <1>1, <1>2, <1>3, <1>4, PlacesMessages, PlacesPrompts, PlacesSessions DEF Next

-------------------------------------------------------------------------------
(* Sessions in memory                                                         *)

LEMMA InMemoryStep == Places /\ InMemory /\ [Next]_vars => InMemory'
<1> SUFFICES ASSUME Places, InMemory, [Next]_vars PROVE InMemory'
  OBVIOUS
<1> USE DEF InMemory, vars, sessVars, diskVars, regVars, idVars
<1>1. ASSUME NEW w \in Webs,
             \/ CreateTab(w) \/ StartSession(w) \/ ResumeHistorical(w) \/ ResumeFromDisk(w)
      PROVE  InMemory'
  BY <1>1 DEF CreateTab, StartSession, ResumeHistorical, ResumeFromDisk, Hold
<1>2. ASSUME NEW w \in Webs, NewSession(w) PROVE InMemory'
  BY <1>2 DEF NewSession
<1>3. ASSUME NEW w \in Webs, Close(w) PROVE InMemory'
  BY <1>3 DEF Close, Destroyed
<1>4. ASSUME NEW w \in Webs, Connect(w) \/ Reattach(w) \/ SetEngine(w) \/ RemoveTab(w)
      PROVE  InMemory'
  BY <1>4 DEF Connect, Reattach, SetEngine, RemoveTab
<1>5. ASSUME NEW w \in Webs, NEW m \in Messages, Execute(w, m) \/ ExecuteAgain(w, m)
      PROVE  InMemory'
  BY <1>5 DEF Execute, ExecuteAgain, Hold
<1>6. ASSUME NEW m \in Messages, Lose(m) \/ Expire(m) PROVE InMemory'
  BY <1>6 DEF Lose, Expire
<1>7. ASSUME NEW s \in Sessions, Begin(s) \/ Finish(s) \/ Continue(s) \/ DeleteHistory(s)
      PROVE  InMemory'
  <2>1. CASE Begin(s)
    BY <2>1 DEF Begin
  <2>2. CASE Finish(s)
    BY <2>2 DEF Finish
  <2>3. CASE Continue(s) \/ DeleteHistory(s)
    BY <2>3 DEF Continue, DeleteHistory
  <2> QED
    BY <1>7, <2>1, <2>2, <2>3
<1>8. CASE Restart
  BY <1>8 DEF Restart
<1>9. CASE UNCHANGED vars
  BY <1>9
<1> QED
  BY <1>1, <1>2, <1>3, <1>4, <1>5, <1>6, <1>7, <1>8, <1>9 DEF Next

(* Before the tab is removed a web's command reaches the record's session.    *)
LEMMA TargetIsRecords ==
    ASSUME OneSession, ~removed, NEW w \in Webs
    PROVE  Target(w) = regSession
BY DEF OneSession, Target

LEMMA OneSessionStep == Places /\ InMemory /\ OneSession /\ [Next]_vars => OneSession'
<1> SUFFICES ASSUME Places, InMemory, OneSession, [Next]_vars, ~removed'
             PROVE  live' \subseteq {regSession'}
  BY DEF OneSession
<1> USE DEF vars, sessVars, diskVars, regVars, idVars
<1>1. ASSUME NEW w \in Webs, CreateTab(w) PROVE live' \subseteq {regSession'}
  BY <1>1 DEF CreateTab, Hold, Register, Places
<1>2. ASSUME NEW w \in Webs,
             StartSession(w) \/ ResumeHistorical(w) \/ ResumeFromDisk(w)
      PROVE  live' \subseteq {regSession'}
  <2>1. ~removed
    BY <1>2 DEF StartSession, ResumeHistorical, ResumeFromDisk, Register
  <2>2. live = {}
    BY <1>2, <2>1, TargetIsRecords
       DEF StartSession, ResumeHistorical, ResumeFromDisk, OneSession
  <2> QED
    BY <1>2, <2>2 DEF StartSession, ResumeHistorical, ResumeFromDisk, Hold, Register
<1>3. ASSUME NEW w \in Webs, NewSession(w) PROVE live' \subseteq {regSession'}
  <2>1. ~removed
    BY <1>3 DEF NewSession
  <2>2. Target(w) = regSession /\ regSession # None /\ live \subseteq {regSession}
    BY <1>3, <2>1, TargetIsRecords DEF NewSession, Commands, OneSession
  <2> QED
    BY <1>3, <2>2 DEF NewSession
<1>4. ASSUME NEW w \in Webs, Close(w) PROVE live' \subseteq {regSession'}
  BY <1>4 DEF Close, OneSession
<1>5. ASSUME NEW w \in Webs, Connect(w) \/ Reattach(w) \/ SetEngine(w) \/ RemoveTab(w)
      PROVE  live' \subseteq {regSession'}
  BY <1>5 DEF Connect, Reattach, SetEngine, RemoveTab, OneSession
<1>6. ASSUME NEW w \in Webs, NEW m \in Messages, Execute(w, m) \/ ExecuteAgain(w, m)
      PROVE  live' \subseteq {regSession'}
  <2>1. ~removed /\ regSession' = regSession
    BY <1>6 DEF Execute, ExecuteAgain
  <2> QED
    BY <1>6, <2>1, TargetIsRecords DEF Execute, ExecuteAgain, Hold, OneSession
<1>7. ASSUME NEW m \in Messages, Lose(m) \/ Expire(m) PROVE live' \subseteq {regSession'}
  BY <1>7 DEF Lose, Expire, OneSession
<1>8. ASSUME NEW s \in Sessions, Begin(s) \/ Finish(s) \/ Continue(s) \/ DeleteHistory(s)
      PROVE  live' \subseteq {regSession'}
  BY <1>8 DEF Begin, Finish, Continue, DeleteHistory, OneSession
<1>9. CASE Restart
  BY <1>9 DEF Restart
<1>10. CASE UNCHANGED vars
  BY <1>10 DEF OneSession
<1> QED
  BY <1>1, <1>2, <1>3, <1>4, <1>5, <1>6, <1>7, <1>8, <1>9, <1>10 DEF Next

(* Only the record's own session can mark it as persisted.                    *)
LEMMA SweepStep ==
    Places /\ InMemory /\ OneSession /\ SweepsOnlyDeleted /\ [Next]_vars => SweepsOnlyDeleted'
<1> SUFFICES ASSUME Places, InMemory, OneSession, SweepsOnlyDeleted, [Next]_vars,
                    ~removed', regSession' # None, persisted'
             PROVE  regSession' \in files' \cup deleted'
  BY DEF SweepsOnlyDeleted
<1> USE DEF vars, sessVars, diskVars, regVars, idVars, SweepsOnlyDeleted
<1>1. ASSUME NEW w \in Webs,
             \/ CreateTab(w) \/ StartSession(w) \/ ResumeHistorical(w)
      PROVE  regSession' \in files' \cup deleted'
  BY <1>1 DEF CreateTab, StartSession, ResumeHistorical, Register
<1>2. ASSUME NEW w \in Webs, ResumeFromDisk(w) PROVE regSession' \in files' \cup deleted'
  BY <1>2 DEF ResumeFromDisk
<1>3. ASSUME NEW w \in Webs, NewSession(w) PROVE regSession' \in files' \cup deleted'
  BY <1>3 DEF NewSession, FlagOfNewSession
<1>4. ASSUME NEW w \in Webs,
             Connect(w) \/ Close(w) \/ Reattach(w) \/ SetEngine(w) \/ RemoveTab(w)
      PROVE  regSession' \in files' \cup deleted'
  BY <1>4 DEF Connect, Close, Reattach, SetEngine, RemoveTab
<1>5. ASSUME NEW w \in Webs, NEW m \in Messages, Execute(w, m) \/ ExecuteAgain(w, m)
      PROVE  regSession' \in files' \cup deleted'
  BY <1>5 DEF Execute, ExecuteAgain, MarkedWhenHeld
<1>6. ASSUME NEW m \in Messages, Lose(m) \/ Expire(m)
      PROVE  regSession' \in files' \cup deleted'
  BY <1>6 DEF Lose, Expire
<1>7. ASSUME NEW s \in Sessions, Begin(s) \/ Finish(s)
      PROVE  regSession' \in files' \cup deleted'
  <2>1. /\ s \in running /\ removed' = removed /\ regSession' = regSession
        /\ files' = files \cup {s} /\ deleted' = deleted
    BY <1>7 DEF Begin, Finish, WriteHistory
  <2> ~removed
    BY <2>1
  <2>2. CASE persisted
    BY <2>1, <2>2
  <2>3. CASE ~persisted
    <3>1. s \notin abandoned
      BY <1>7, <2>3 DEF Begin, Finish, WriteHistory
    <3>2. s = regSession
      BY <2>1, <3>1 DEF InMemory, OneSession
    <3> QED
      BY <2>1, <3>2
  <2> QED
    BY <2>2, <2>3
<1>8. ASSUME NEW s \in Sessions, Continue(s) \/ DeleteHistory(s)
      PROVE  regSession' \in files' \cup deleted'
  BY <1>8 DEF Continue, DeleteHistory
<1>9. CASE Restart
  BY <1>9 DEF Restart
<1>10. CASE UNCHANGED vars
  BY <1>10
<1> QED
  BY <1>1, <1>2, <1>3, <1>4, <1>5, <1>6, <1>7, <1>8, <1>9, <1>10 DEF Next

-------------------------------------------------------------------------------
(* Prompts                                                                    *)

LEMMA RunsStep == Places /\ RunsAreKnown /\ [Next]_vars => RunsAreKnown'
<1> SUFFICES ASSUME Places, RunsAreKnown, [Next]_vars, NEW m \in Messages
             PROVE  /\ ran'[m] <= 1
                    /\ ran'[m] = 1 => m \in known' \/ outbox'[m] = "acked"
                    /\ outbox'[m] = "acked" => m \in everRan'
  BY DEF RunsAreKnown
<1> USE DEF Places, RunsAreKnown
<1>1. ASSUME NEW w \in Webs, NEW n \in Messages, Execute(w, n)
      PROVE  /\ ran'[m] <= 1
             /\ ran'[m] = 1 => m \in known' \/ outbox'[m] = "acked"
             /\ outbox'[m] = "acked" => m \in everRan'
  <2>1. ran[n] = 0 /\ known' = known \cup {n} /\ everRan' = everRan \cup {n}
    BY <1>1 DEF Execute, Duplicate, Recorded
  <2>2. ran' = [ran EXCEPT ![n] = 1]
    BY <1>1, <2>1 DEF Execute
  <2>3. m # n => outbox'[m] = outbox[m]
    BY <1>1 DEF Execute, Acked
  <2> QED
    BY <2>1, <2>2, <2>3
<1>2. ASSUME NEW w \in Webs, NEW n \in Messages, ExecuteAgain(w, n)
      PROVE  /\ ran'[m] <= 1
             /\ ran'[m] = 1 => m \in known' \/ outbox'[m] = "acked"
             /\ outbox'[m] = "acked" => m \in everRan'
  <2>1. n \in known /\ ran' = ran /\ known' = known /\ everRan' = everRan
    BY <1>2 DEF ExecuteAgain, Duplicate
  <2>2. m # n => outbox'[m] = outbox[m]
    BY <1>2 DEF ExecuteAgain, Acked
  <2> QED
    BY <2>1, <2>2
<1>3. ASSUME NEW n \in Messages, Lose(n) \/ Expire(n)
      PROVE  /\ ran'[m] <= 1
             /\ ran'[m] = 1 => m \in known' \/ outbox'[m] = "acked"
             /\ outbox'[m] = "acked" => m \in everRan'
  BY <1>3 DEF Lose, Expire
<1>4. ASSUME \/ \E w \in Webs : RemoveTab(w)
             \/ Restart
      PROVE  /\ ran'[m] <= 1
             /\ ran'[m] = 1 => m \in known' \/ outbox'[m] = "acked"
             /\ outbox'[m] = "acked" => m \in everRan'
  BY <1>4 DEF RemoveTab, Restart
<1>5. CASE UNCHANGED idVars
  BY <1>5 DEF idVars
<1>6. \/ \E w \in Webs, n \in Messages : Execute(w, n) \/ ExecuteAgain(w, n)
      \/ \E n \in Messages : Lose(n) \/ Expire(n)
      \/ (\E w \in Webs : RemoveTab(w)) \/ Restart
      \/ UNCHANGED idVars
  BY DEF Next, vars, Connect, Close, CreateTab, Reattach, ResumeFromDisk, StartSession,
         ResumeHistorical, NewSession, SetEngine, Begin, Finish, Continue, DeleteHistory
<1> QED
  BY <1>1, <1>2, <1>3, <1>4, <1>5, <1>6

-------------------------------------------------------------------------------
(* The theorems                                                               *)

TabInv == Flags /\ Places /\ InMemory /\ OneSession /\ SweepsOnlyDeleted /\ RunsAreKnown

LEMMA TabInvariant == Spec => []TabInv
<1>1. Init => TabInv
  <2> SUFFICES ASSUME Init PROVE OneSession /\ SweepsOnlyDeleted /\ RunsAreKnown
    BY PlacesInit DEF TabInv
  <2> QED
    BY DEF Init, OneSession, SweepsOnlyDeleted, RunsAreKnown
<1>2. TabInv /\ [Next]_vars => TabInv'
  BY FlagsStep, PlacesStep, InMemoryStep, OneSessionStep, SweepStep, RunsStep DEF TabInv
<1> QED
  BY <1>1, <1>2, PTL DEF Spec

(* Connections, sessions, files and the tab's record are what their types     *)
(* say: a web is mapped to a session that was given out, and only sessions    *)
(* that execute or are about to are abandoned.                                *)
THEOREM TabTypeCorrect == Spec => []TypeOK
<1>1. TabInv => TypeOK
  BY TypeParts DEF TabInv
<1> QED
  BY <1>1, TabInvariant, PTL

(* A prompt that is sent again until its ack arrives runs at most once, and   *)
(* one that is acknowledged has run (handleExecuteMessage, MsgIdTracker).     *)
THEOREM RunsOnceHolds == Spec => []RunsOnce
<1>1. TabInv => RunsOnce
  BY DEF TabInv, RunsAreKnown, RunsOnce
<1> QED
  BY <1>1, TabInvariant, PTL

(* A restart sweeps a tab only after its history was deleted (sweepGhostTabs).*)
THEOREM SweepsOnlyDeletedHolds == Spec => []SweepsOnlyDeleted
<1>1. TabInv => SweepsOnlyDeleted
  BY DEF TabInv
<1> QED
  BY <1>1, TabInvariant, PTL

(* While a session executes for the tab, a command from any web reaches it    *)
(* (resolveTabSession, cleanupConnectionResources).                           *)
THEOREM CommandsReachTheRunHolds == Spec => []CommandsReachTheRun
<1>1. TabInv => CommandsReachTheRun
  <2> SUFFICES ASSUME TabInv, ~removed, NEW s \in running \ abandoned
               PROVE  s \in live /\ \A w \in conns : Target(w) = s
    BY DEF CommandsReachTheRun
  <2>1. s \in live /\ s = regSession
    BY DEF TabInv, InMemory, OneSession
  <2>2. \A w \in conns : Target(w) = s
    BY <2>1, TargetIsRecords DEF TabInv, Places
  <2> QED
    BY <2>1, <2>2
<1> QED
  BY <1>1, TabInvariant, PTL
===============================================================================
