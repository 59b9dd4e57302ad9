------------------------------ MODULE Instances ------------------------------
(* The CLIs of one machine list themselves in ~/.mstro/instances.json, each   *)
(* with the port it serves (instances.ts). A lock file orders their reads and *)
(* writes; a lock older than ten seconds is taken for that of a crashed       *)
(* process and removed, and a process that has waited five seconds goes on    *)
(* without it. Each CLI writes its entry anew every thirty seconds, and an    *)
(* entry not renewed for two minutes is dropped. Time is counted in rounds of *)
(* thirty seconds: in each, every CLI renews its entry once.                  *)
EXTENDS Naturals, FiniteSets

CONSTANTS
    Clis,         \* processes; each starts once
    MaxAge,       \* rounds after which an entry counts as stale (4 in the code)
    MaxCrashes    \* bound: processes killed at any point

ASSUME InstancesAssumption == MaxAge \in Nat \ {0, 1} /\ MaxCrashes \in Nat

VARIABLES
    cli,          \* what each process is at: see CliStates
    job,          \* the operation it is in: "save", "remove" or "list"
    locked,       \* it created the lock file and will remove it
    seen,         \* the list as it read it
    beaten,       \* processes that renewed their entry in this round
    requested,    \* processes that were asked something in this round: at most once
    served,       \* processes whose server listens
    listFile,     \* instances.json: process -> rounds since its heartbeat
    temp,         \* instances.json.tmp: {} or {what was written}
    lockFile,     \* "none", "fresh", "stale", or "empty": without its time
    lockedBy,     \* processes that created the lock file that is there
    crashes

lockVars == <<lockFile, lockedBy>>
listVars == <<listFile, temp>>
roundVars == <<beaten, requested>>
instanceVars == <<cli, job, locked, seen, beaten, requested, served, listFile, temp,
                  lockFile, lockedBy, crashes>>

Empty == [c \in {} |-> 0]
Entries == UNION {[S -> 0 .. MaxAge] : S \in SUBSET Clis}
InJob == {"look", "clear", "create", "read", "write", "rename", "release", "fail"}
CliStates == {"off", "up", "gone", "dead"} \cup InJob
Lives(c) == cli[c] \notin {"off", "gone", "dead"}

InstancesTypeOK ==
    /\ cli \in [Clis -> CliStates]
    /\ job \in [Clis -> {"save", "remove", "list"}]
    /\ locked \in [Clis -> BOOLEAN]
    /\ beaten \subseteq Clis /\ requested \subseteq Clis /\ served \subseteq Clis /\ lockedBy \subseteq Clis
    /\ listFile \in Entries /\ temp \subseteq Entries
    /\ seen \in [Clis -> Entries]
    /\ lockFile \in {"none", "fresh", "stale", "empty"}
    /\ crashes \in 0 .. MaxCrashes

InstancesInit ==
    /\ cli = [c \in Clis |-> "off"] /\ job = [c \in Clis |-> "save"]
    /\ locked = [c \in Clis |-> FALSE] /\ seen = [c \in Clis |-> Empty]
    /\ beaten = {} /\ requested = {} /\ served = {}
    /\ listFile = Empty /\ temp = {}
    /\ lockFile = "none" /\ lockedBy = {}
    /\ crashes = 0

Goes(c, s) == cli' = [cli EXCEPT ![c] = s]

------------------------------------------------------------------------------
(* The operations a process begins.                                           *)

\* startServer registers the port it has found free, then serves on it.
RegisterCli(c) ==
    /\ cli[c] = "off"
    /\ Goes(c, "look") /\ job' = [job EXCEPT ![c] = "save"]
    /\ beaten' = beaten \cup {c}
    /\ UNCHANGED <<requested, locked, seen, served, listVars, lockVars, crashes>>

Heartbeat(c) ==
    /\ cli[c] = "up" /\ c \notin beaten
    /\ Goes(c, "look") /\ job' = [job EXCEPT ![c] = "save"]
    /\ beaten' = beaten \cup {c}
    /\ UNCHANGED <<requested, locked, seen, served, listVars, lockVars, crashes>>

\* GET /api/instances, or the end of the process (SIGINT, SIGTERM, shutdown).
Asked(c, j) ==
    /\ cli[c] = "up" /\ c \in beaten \ requested
    /\ requested' = requested \cup {c}
    /\ Goes(c, "look") /\ job' = [job EXCEPT ![c] = j]
    /\ UNCHANGED <<locked, seen, beaten, served, listVars, lockVars, crashes>>

------------------------------------------------------------------------------
(* acquireLock: look whether the lock is stale, remove it, create one.        *)

\* The age of an empty lock is not a number, and not more than ten seconds. Mutant: the
\* age of the lock is not looked at.
AnyLock == lockFile # "none"
StaleLock == lockFile = "stale"

Look(c) ==
    /\ cli[c] = "look"
    /\ Goes(c, IF StaleLock THEN "clear" ELSE "create")
    /\ UNCHANGED <<job, locked, seen, roundVars, served, listVars, lockVars, crashes>>

\* Whatever lock is there by now, and whosever it is.
ClearLock(c) ==
    /\ cli[c] = "clear"
    /\ lockFile' = "none" /\ lockedBy' = {}
    /\ Goes(c, "create")
    /\ UNCHANGED <<job, locked, seen, roundVars, served, listVars, crashes>>

CreateLock(c) ==
    /\ cli[c] = "create" /\ lockFile = "none"
    /\ lockFile' = "fresh" /\ lockedBy' = {c}
    /\ locked' = [locked EXCEPT ![c] = TRUE]
    /\ Goes(c, "read")
    /\ UNCHANGED <<job, seen, roundVars, served, listVars, crashes>>

WaitForLock(c) ==
    /\ cli[c] = "create" /\ lockFile # "none"
    /\ Goes(c, "look")
    /\ UNCHANGED <<job, locked, seen, roundVars, served, listVars, lockVars, crashes>>

\* A process holds the lock for milliseconds: five seconds pass only when the one
\* that created it is dead.
Orphaned == lockFile # "none" /\ \A c \in lockedBy : cli[c] = "dead"

GiveUpLock(c) ==
    /\ cli[c] = "look" /\ lockFile \in {"fresh", "empty"} /\ Orphaned
    /\ Goes(c, "read")
    /\ UNCHANGED <<job, locked, seen, roundVars, served, listVars, lockVars, crashes>>

LockAges ==
    /\ lockFile = "fresh" /\ Orphaned
    /\ lockFile' = "stale"
    /\ UNCHANGED <<cli, job, locked, seen, roundVars, served, listVars, lockedBy, crashes>>

------------------------------------------------------------------------------
(* saveInstance, removeInstance and getAllInstances under the lock.           *)

Read(c) ==
    /\ cli[c] = "read"
    /\ seen' = [seen EXCEPT ![c] = IF job[c] = "list" THEN Empty ELSE listFile]
    /\ Goes(c, IF job[c] = "list" THEN "release" ELSE "write")
    /\ UNCHANGED <<job, locked, roundVars, served, listVars, lockVars, crashes>>

\* Saving drops the entries that have become stale; removing does not. Mutant: a
\* heartbeat only renews the time of the entry it finds.
Others(c) == {o \in DOMAIN seen[c] \ {c} : seen[c][o] < MaxAge}
Renewed(c) ==
    [o \in Others(c) \cup (IF c \in served THEN {c} \cap DOMAIN seen[c] ELSE {c}) |->
        IF o = c THEN 0 ELSE seen[c][o]]
Saved(c) == [o \in Others(c) \cup {c} |-> IF o = c THEN 0 ELSE seen[c][o]]
Removed(c) == [o \in DOMAIN seen[c] \ {c} |-> seen[c][o]]

WriteTemp(c) ==
    /\ cli[c] = "write"
    /\ temp' = {IF job[c] = "save" THEN Saved(c) ELSE Removed(c)}
    /\ seen' = [seen EXCEPT ![c] = Empty]
    /\ Goes(c, "rename")
    /\ UNCHANGED <<job, locked, roundVars, served, listFile, lockVars, crashes>>

\* All processes write the same temporary file: one that finds it renamed throws.
Rename(c) ==
    /\ cli[c] = "rename"
    /\ IF temp = {}
       THEN Goes(c, "fail") /\ UNCHANGED listFile
       ELSE Goes(c, "release") /\ listFile' = CHOOSE r \in temp : TRUE
    /\ temp' = {}
    /\ UNCHANGED <<job, locked, seen, roundVars, served, lockVars, crashes>>

\* A process that could not register ends; one that could not remove its entry
\* goes on with its heartbeats, as its exit is never reached.
AfterRelease(c, ok) ==
    CASE job[c] = "remove" /\ ok            -> "gone"
      [] job[c] = "save" /\ c \notin served -> IF ok THEN "up" ELSE "gone"
      [] OTHER                              -> "up"

\* releaseLock removes the lock file, and nothing says that it is its own. After
\* registering, startServer listens.
Release(c) ==
    LET ok == cli[c] = "release"
    IN  /\ cli[c] \in {"release", "fail"}
        /\ lockFile' = IF locked[c] THEN "none" ELSE lockFile
        /\ lockedBy' = IF locked[c] THEN {} ELSE lockedBy
        /\ locked' = [locked EXCEPT ![c] = FALSE]
        /\ Goes(c, AfterRelease(c, ok))
        /\ served' = IF AfterRelease(c, ok) = "up" THEN served \cup {c} ELSE served \ {c}
        /\ job' = [job EXCEPT ![c] = "save"]
        /\ UNCHANGED <<seen, roundVars, listVars, crashes>>

------------------------------------------------------------------------------
Dies(c) ==
    /\ crashes < MaxCrashes /\ crashes' = crashes + 1
    /\ Goes(c, "dead")
    /\ job' = [job EXCEPT ![c] = "save"]
    /\ locked' = [locked EXCEPT ![c] = FALSE]
    /\ seen' = [seen EXCEPT ![c] = Empty]
    /\ served' = served \ {c}
    /\ UNCHANGED <<roundVars, listVars>>

\* A process is killed: a lock it holds stays, and so does its entry.
Killed(c) == Lives(c) /\ Dies(c) /\ UNCHANGED lockVars

\* writeFileSync creates the lock and then writes the time into it: a process may be
\* killed in between. (To the others the two are one, since a lock without its time is
\* as good as a fresh one.)
KilledInLock(c) ==
    /\ cli[c] = "create" /\ lockFile = "none"
    /\ lockFile' = "empty" /\ lockedBy' = {c}
    /\ Dies(c)

\* Thirty seconds: whatever a process began is long done, a lock that was left is
\* stale, and every entry is older.
RoundPasses ==
    /\ \A c \in Clis : cli[c] \notin InJob /\ (cli[c] = "up" => c \in beaten)
    /\ lockFile # "fresh"
    /\ beaten' = {} /\ requested' = {}
    /\ listFile' = [c \in DOMAIN listFile |->
                       IF listFile[c] < MaxAge THEN listFile[c] + 1 ELSE MaxAge]
    /\ UNCHANGED <<cli, job, locked, seen, served, temp, lockVars, crashes>>

CliSteps(c) ==
    \/ Heartbeat(c) \/ Look(c) \/ ClearLock(c) \/ CreateLock(c) \/ WaitForLock(c)
    \/ Read(c) \/ WriteTemp(c) \/ Rename(c) \/ Release(c)

InstancesNext ==
    \/ \E c \in Clis : CliSteps(c) \/ RegisterCli(c) \/ GiveUpLock(c)
                      \/ Killed(c) \/ KilledInLock(c)
    \/ \E c \in Clis, j \in {"list", "remove"} : Asked(c, j)
    \/ LockAges \/ RoundPasses

\* A process runs on once it has started; time passes.
InstancesFairness ==
    /\ \A c \in Clis : WF_instanceVars(CliSteps(c))
    /\ WF_instanceVars(LockAges) /\ WF_instanceVars(RoundPasses)

InstancesSpec == InstancesInit /\ [][InstancesNext]_instanceVars /\ InstancesFairness

------------------------------------------------------------------------------
\* getAllInstances shows the entries that are not stale.
Listed == {c \in DOMAIN listFile : listFile[c] < MaxAge}

\* While no process has been killed, the lock keeps the processes apart: each one
\* that serves is listed until it is to end, none that has ended is, and no write is
\* lost.
InstancesListed ==
    crashes = 0 =>
        /\ {c \in served : job[c] # "remove"} \subseteq Listed
        /\ \A c \in Listed : Lives(c)
        /\ \A c, d \in Clis : {cli[c], cli[d]} \subseteq {"read", "write", "rename"} => c = d

\* A process killed while it holds the lock lets others lose each other's entries
\* and remove each other's locks; the heartbeats mend the list: from some time on it
\* names the processes that serve and no other. Only an empty lock is never cleared,
\* and then nothing keeps the processes apart any more.
RegistryHeals == <>[](Listed = served) \/ <>[](lockFile = "empty")
=============================================================================
