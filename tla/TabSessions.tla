---------------------------- MODULE TabSessions ----------------------------
(***************************************************************************)
(* One chat tab between the connections of the web clients that show it    *)
(* and the sessions that serve it (server/services/websocket): connections *)
(* come and go, the tab is resolved to a session in memory, in the         *)
(* registry or on disk, and msgIds keep a resent prompt from running twice.*)
(*                                                                         *)
(* A handler runs to its end without an await, so a message is one action. *)
(* What a session does while it executes is ImprovSession's matter, what   *)
(* the webs see of it TabStream's: here it is executing or not.            *)
(***************************************************************************)
EXTENDS Naturals

CONSTANTS
    Webs,          \* web clients, each with a connection of its own
    Sessions,      \* session ids
    Messages,      \* prompts, by msgId
    MaxRestarts,   \* bound: restarts of the CLI
    None

ASSUME TabConstants == None \notin Sessions /\ MaxRestarts \in Nat

VARIABLES
    (* connections *)
    conns,      \* allConnections
    tabMap,     \* [Webs -> the tab's session on that connection]
    (* sessions *)
    live,       \* ids in ctx.sessions
    saved,      \* ids whose manager knows that its file exists
    running,    \* ids of sessions that execute
    continuing, \* ids of those about to execute again (maybeAutoContinue)
    abandoned,  \* of both, those replaced by `new`, or destroyed between two movements
    used,       \* ids ever given out
    files,      \* ids with a history file
    deleted,    \* ids whose file the user deleted
    (* the tab's record in the session registry *)
    regSession, persisted, override,
    wanted,     \* whether the user has set an engine for the tab
    removed,    \* the tab was removed
    (* the webs' outboxes and the MsgIdTracker *)
    outbox,     \* [Messages -> "new", "sent" or "acked"]
    known,
    ran,        \* [Messages -> runs since the tracker was last emptied]
    everRan,
    restarts

sessVars == <<live, saved, running, continuing, abandoned, used>>
diskVars == <<files, deleted>>
regVars == <<regSession, persisted, override, wanted, removed>>
idVars == <<outbox, known, ran, everRan>>
vars == <<conns, tabMap, sessVars, diskVars, regVars, idVars, restarts>>

TypeOK ==
    /\ conns \subseteq Webs
    /\ tabMap \in [Webs -> used \cup {None}]
    /\ \A w \in Webs \ conns : tabMap[w] = None
    /\ used \subseteq Sessions /\ live \subseteq used
    /\ saved \subseteq live
    /\ running \subseteq used /\ continuing \subseteq used
    /\ abandoned \subseteq running \cup continuing
    /\ files \subseteq used /\ deleted \subseteq used
    /\ regSession \in used \cup {None}
    /\ {persisted, override, wanted, removed} \subseteq BOOLEAN
    /\ outbox \in [Messages -> {"new", "sent", "acked"}]
    /\ known \subseteq everRan /\ everRan \subseteq Messages
    /\ ran \in [Messages -> Nat]
    /\ restarts \in 0..MaxRestarts

Init ==
    /\ conns = {} /\ tabMap = [w \in Webs |-> None]
    /\ live = {} /\ saved = {} /\ running = {} /\ continuing = {} /\ abandoned = {}
    /\ used = {}
    /\ files = {} /\ deleted = {}
    /\ regSession = None /\ persisted = FALSE /\ override = FALSE
    /\ wanted = FALSE /\ removed = FALSE
    /\ outbox = [m \in Messages |-> "new"]
    /\ known = {} /\ ran = [m \in Messages |-> 0] /\ everRan = {}
    /\ restarts = 0
-----------------------------------------------------------------------------
(* Sessions and the registry                                                 *)

Fresh == Sessions \ used

(* A session the server has in memory, or has just taken there: from its     *)
(* file, which it then knows of, or anew.                                    *)
Hold(s) ==
    /\ live' = live \cup {s}
    /\ saved' = IF s \notin live /\ s \in files THEN saved \cup {s} ELSE saved
    /\ used' = used \cup {s}

Map(w, s) == tabMap' = [tabMap EXCEPT ![w] = s]

\* The session a command of web w reaches.
Target(w) == IF tabMap[w] \in live THEN tabMap[w] ELSE regSession

(* registerTab: a record made anew, which keeps of the old one only whether  *)
(* the same session was persisted.                                           *)
Register(s) ==
    /\ regSession' = s
    /\ persisted' = (persisted /\ regSession = s)
    /\ override' = FALSE
    /\ UNCHANGED <<wanted, removed>>

\* markTabPersisted, when the session is read from its file
MarkedWhenHeld(s) == persisted \/ (s = regSession /\ s \notin live /\ s \in files)

\* updateTabSession.  Mutant: the flag of the old session stays.
KeptFlag == persisted
FlagOfNewSession == FALSE

\* cleanupConnectionResources.  Mutant: sessions that execute go as well.
EveryMapped(w) == {tabMap[w]}
Destroyed(w) == {tabMap[w]} \ running
-----------------------------------------------------------------------------
(* Connections                                                               *)

Connect(w) ==
    /\ w \notin conns
    /\ conns' = conns \cup {w}
    /\ UNCHANGED <<tabMap, sessVars, diskVars, regVars, idVars, restarts>>

Close(w) ==
    /\ w \in conns
    /\ conns' = conns \ {w} /\ Map(w, None)
    /\ live' = live \ Destroyed(w) /\ saved' = saved \ Destroyed(w)
    /\ abandoned' = abandoned \cup (Destroyed(w) \cap continuing)
    /\ UNCHANGED <<running, continuing, used, diskVars, regVars, idVars, restarts>>
-----------------------------------------------------------------------------
(* Messages about the tab, from a connected web                              *)

CreateTab(w) ==
    /\ w \in conns /\ used = {}
    /\ \E s \in Fresh : Hold(s) /\ Map(w, s) /\ Register(s)
    /\ UNCHANGED <<conns, running, continuing, abandoned, diskVars, idVars, restarts>>

(* initTab and resumeSession: a session in memory is attached again.         *)
Reattach(w) ==
    /\ w \in conns /\ Target(w) \in live
    /\ Map(w, Target(w))
    /\ UNCHANGED <<conns, sessVars, diskVars, regVars, idVars, restarts>>

(* initTab: one that is only on disk is read.                                *)
ResumeFromDisk(w) ==
    /\ w \in conns /\ Target(w) \notin live
    /\ regSession \in files
    /\ Hold(regSession) /\ Map(w, regSession)
    /\ persisted' = TRUE
    /\ UNCHANGED <<conns, running, continuing, abandoned, diskVars, regSession, override, wanted,
                   removed, idVars, restarts>>

(* initTab: otherwise there is a new session, under the id of the record.    *)
StartSession(w) ==
    /\ w \in conns /\ Target(w) \notin live
    /\ regSession \notin files
    /\ \E s \in IF regSession # None THEN {regSession} ELSE Fresh :
          Hold(s) /\ Map(w, s) /\ Register(s)
    /\ UNCHANGED <<conns, running, continuing, abandoned, diskVars, idVars, restarts>>

(* resumeSession: the past session, or a new one if its file is gone.        *)
ResumeHistorical(w) ==
    /\ w \in conns /\ Target(w) \notin live
    /\ \E h \in files \cup deleted :
       \E s \in IF h \in files THEN {h} ELSE Fresh :
          Hold(s) /\ Map(w, s) /\ Register(s)
    /\ UNCHANGED <<conns, running, continuing, abandoned, diskVars, idVars, restarts>>

Commands(w) == w \in conns /\ Target(w) # None

(* `new`: the old session's history is written, and a new session takes its  *)
(* place.                                                                    *)
NewSession(w) ==
    /\ Commands(w)
    /\ LET old == Target(w) IN
       \E s \in Fresh :
          /\ live' = (live \ {old}) \cup {s} /\ used' = used \cup {s}
          /\ saved' = saved \ {old}
          /\ files' = files \cup {old}
          /\ abandoned' = abandoned \cup ({old} \cap (running \cup continuing))
          /\ Map(w, s)
          /\ IF regSession = None
             THEN UNCHANGED <<regSession, persisted>>
             ELSE regSession' = s /\ persisted' = FlagOfNewSession
    /\ UNCHANGED <<conns, running, continuing, deleted, override, wanted, removed, idVars, restarts>>

SetEngine(w) ==
    /\ w \in conns /\ regSession # None
    /\ \E set \in BOOLEAN : override' = set /\ wanted' = set
    /\ UNCHANGED <<conns, tabMap, sessVars, diskVars, regSession, persisted, removed,
                   idVars, restarts>>

(* The session is not touched.                                               *)
RemoveTab(w) ==
    /\ w \in conns /\ used # {}
    /\ regSession' = None /\ persisted' = FALSE /\ override' = FALSE
    /\ wanted' = FALSE /\ removed' = TRUE
    /\ known' = {} /\ ran' = [m \in Messages |-> 0]
    /\ UNCHANGED <<conns, tabMap, sessVars, diskVars, outbox, everRan, restarts>>
-----------------------------------------------------------------------------
(* Prompts                                                                   *)

\* Mutant: an id is looked up and not recorded.
NotRecorded(m) == known
Recorded(m) == known \cup {m}

\* The ack reaches the web or is lost with its connection.
Acked(m) == \E reached \in BOOLEAN :
               outbox' = [outbox EXCEPT ![m] = IF reached THEN "acked" ELSE "sent"]

Duplicate(m) == m \in known

(* A prompt is lost on its way.                                              *)
Lose(m) ==
    /\ outbox[m] = "new" /\ outbox' = [outbox EXCEPT ![m] = "sent"]
    /\ UNCHANGED <<conns, tabMap, sessVars, diskVars, regVars, known, ran, everRan,
                   restarts>>

(* handleExecuteMessage of a prompt that is new to the tracker.              *)
Execute(w, m) ==
    /\ Commands(w) /\ outbox[m] # "acked" /\ ~Duplicate(m)
    /\ LET s == Target(w) IN
       /\ Hold(s) /\ Map(w, s)
       /\ running' = running \cup {s}
       /\ persisted' = MarkedWhenHeld(s)
    /\ known' = Recorded(m)
    /\ ran' = [ran EXCEPT ![m] = @ + 1] /\ everRan' = everRan \cup {m}
    /\ Acked(m)
    /\ UNCHANGED <<conns, continuing, abandoned, diskVars, regSession, override, wanted, removed,
                   restarts>>

ExecuteAgain(w, m) ==
    /\ Commands(w) /\ outbox[m] # "acked" /\ Duplicate(m)
    /\ LET s == Target(w) IN Hold(s) /\ Map(w, s) /\ persisted' = MarkedWhenHeld(s)
    /\ Acked(m)
    /\ UNCHANGED <<conns, running, continuing, abandoned, diskVars, regSession, override, wanted,
                   removed, known, ran, everRan, restarts>>

(* An id expires once the web has stopped sending it.                        *)
Expire(m) ==
    /\ m \in known /\ outbox[m] = "acked"
    /\ known' = known \ {m}
    /\ UNCHANGED <<conns, tabMap, sessVars, diskVars, regVars, outbox, ran, everRan,
                   restarts>>

(* persistHistory, and onHistoryPersisted the first time; the manager of an  *)
(* abandoned session has written its file before.                            *)
WriteHistory(s) ==
    /\ files' = files \cup {s}
    /\ persisted' = (persisted \/ (s \notin saved \cup abandoned /\ regSession # None))

(* executePrompt, once it has its ETA profile.                               *)
Begin(s) ==
    /\ s \in running
    /\ WriteHistory(s) /\ saved' = saved \cup ({s} \ abandoned)
    /\ UNCHANGED <<conns, tabMap, live, running, continuing, abandoned, used, deleted, regSession,
                   override, wanted, removed, idVars, restarts>>

(* The movement is over, or cancelled; the session may go on by itself from  *)
(* a setImmediate, and counts as idle until then.                            *)
Finish(s) ==
    /\ s \in running
    /\ WriteHistory(s) /\ saved' = saved \cup ({s} \ abandoned)
    /\ running' = running \ {s}
    /\ \/ continuing' = continuing \cup {s} /\ UNCHANGED abandoned
       \/ UNCHANGED continuing /\ abandoned' = abandoned \ ({s} \ continuing)
    /\ UNCHANGED <<conns, tabMap, live, used, deleted, regSession, override, wanted,
                   removed, idVars, restarts>>

Continue(s) ==
    /\ s \in continuing /\ continuing' = continuing \ {s}
    /\ running' = running \cup {s}
    /\ UNCHANGED <<conns, tabMap, live, saved, abandoned, used, diskVars, regVars, idVars,
                   restarts>>
-----------------------------------------------------------------------------
(* The CLI and the disk                                                      *)

DeleteHistory(s) ==
    /\ s \in files
    /\ files' = files \ {s} /\ deleted' = deleted \cup {s}
    /\ UNCHANGED <<conns, tabMap, sessVars, regVars, idVars, restarts>>

\* sweepGhostTabs
Ghost == regSession # None /\ persisted /\ regSession \notin files

Restart ==
    /\ restarts < MaxRestarts /\ restarts' = restarts + 1
    /\ conns' = {} /\ tabMap' = [w \in Webs |-> None]
    /\ live' = {} /\ saved' = {} /\ running' = {} /\ continuing' = {} /\ abandoned' = {}
    /\ known' = {} /\ ran' = [m \in Messages |-> 0]
    /\ IF Ghost
       THEN /\ regSession' = None /\ persisted' = FALSE
            /\ override' = FALSE /\ wanted' = FALSE
       ELSE UNCHANGED <<regSession, persisted, override, wanted>>
    /\ UNCHANGED <<used, diskVars, removed, outbox, everRan>>

Next ==
    \/ \E w \in Webs :
          \/ Connect(w) \/ Close(w) \/ CreateTab(w) \/ Reattach(w) \/ ResumeFromDisk(w)
          \/ StartSession(w) \/ ResumeHistorical(w) \/ NewSession(w) \/ SetEngine(w)
          \/ RemoveTab(w)
          \/ \E m \in Messages : Execute(w, m) \/ ExecuteAgain(w, m)
    \/ \E m \in Messages : Lose(m) \/ Expire(m)
    \/ \E s \in Sessions : Begin(s) \/ Finish(s) \/ Continue(s) \/ DeleteHistory(s)
    \/ Restart

Spec == Init /\ [][Next]_vars
-----------------------------------------------------------------------------
(* Properties                                                                *)

(* A prompt that is sent again until its ack arrives runs once, as long as   *)
(* the tracker lives (MsgIdTracker), and is not acknowledged if it never     *)
(* ran, whatever was resent, expired, restarted or removed                   *)
(* (handleExecuteMessage).                                                   *)
RunsOnce == \A m \in Messages : ran[m] <= 1 /\ (outbox[m] = "acked" => m \in everRan)

(* The registry takes a tab for persisted only if its session has a file, so *)
(* a restart sweeps a tab only after its history was deleted                 *)
(* (sweepGhostTabs).                                                         *)
SweepsOnlyDeleted ==
    ~removed /\ regSession # None /\ persisted => regSession \in files \cup deleted

(* While a session executes for the tab, a command from any web reaches it,  *)
(* whichever connections were closed or opened meanwhile                     *)
(* (cleanupConnectionResources, resolveTabSession).                          *)
CommandsReachTheRun ==
    ~removed => \A s \in running \ abandoned :
                   s \in live /\ \A w \in conns : Target(w) = s

(* The engine the user chose for the tab stays chosen ("the core persistence *)
(* guarantee of IS-019", updateTabEngineOverride).                           *)
OverrideSurvives == regSession # None => override = wanted
=============================================================================
