---------------------------- MODULE MachineProofs ----------------------------
(* The theorems about the CLIs of a machine and the boards of a project, for  *)
(* every value of the constants.                                              *)
(*   Instances: while no process is killed, the lock keeps the processes      *)
(*     apart and the list is right, for any number of processes and any age   *)
(*     at which an entry counts as stale                                      *)
(*   PlanBoards: the order, the active board and the files of the boards      *)
(*     agree, for any number of boards                                        *)
EXTENDS Instances, PlanBoards, FiniteSetTheorems, WellFoundedInduction, TLAPS

--------------------------------------------------------------------------------
\* The list of instances.

\* The steps a process takes with the lock in hand.
Holding == {"read", "write", "rename", "release"}

\* No process dies, finds a stale lock or misses the file it is to rename.
CliSane(c) == cli[c] \notin {"dead", "clear", "fail"}

\* The lock file is there exactly while a process holds the lock, and is its.
LockHeld ==
    /\ lockFile \in {"none", "fresh"}
    /\ lockFile = "fresh" => \E c \in Clis : locked[c]
    /\ \A c \in Clis : locked[c] => lockFile = "fresh" /\ lockedBy = {c}

\* What a process is asked to do, and whether it serves.
JobSane(c) ==
    /\ locked[c] <=> cli[c] \in Holding
    /\ cli[c] = "up" => c \in served
    /\ c \in served => Lives(c)
    /\ job[c] # "save" => c \in served /\ cli[c] \in InJob
    /\ cli[c] \in {"write", "rename"} => job[c] # "list"

\* What the process is going to put in the place of the list as it is.
Written(c) ==
    IF job[c] = "save"
    THEN [o \in {p \in DOMAIN listFile \ {c} : listFile[p] < MaxAge} \cup {c} |->
             IF o = c THEN 0 ELSE listFile[o]]
    ELSE [o \in DOMAIN listFile \ {c} |-> listFile[o]]

\* Nobody changes the list between a process's reading and its renaming.
WriteSane(c) ==
    /\ cli[c] = "write" => seen[c] = listFile
    /\ cli[c] = "rename" => temp = {Written(c)}

\* An entry is that of a process that lives; that of a process that serves was
\* renewed in this round or the last one.
EntrySane(c) ==
    /\ c \in DOMAIN listFile => Lives(c)
    /\ cli[c] = "release" /\ job[c] = "remove" => c \notin DOMAIN listFile
    /\ cli[c] = "release" /\ job[c] = "save" => c \in DOMAIN listFile /\ listFile[c] = 0
    /\ c \in served /\ ~(cli[c] = "release" /\ job[c] = "remove") =>
         /\ c \in DOMAIN listFile /\ listFile[c] <= 1
         /\ c \in beaten /\ listFile[c] # 0 =>
               job[c] = "save" /\ cli[c] \in InJob \ {"release"}

NoneKilled ==
    /\ LockHeld
    /\ \A c \in Clis : CliSane(c) /\ JobSane(c) /\ WriteSane(c) /\ EntrySane(c)

\* The inductive invariant.
InstancesInv == InstancesTypeOK /\ (crashes = 0 => NoneKilled)

------------------------------------------------------------------------------
(* Lists of entries.                                                          *)

\* A function on processes whose values are ages is a list of entries.
LEMMA EntriesAre ==
    ASSUME NEW S \in SUBSET Clis, NEW f \in [S -> 0 .. MaxAge]
    PROVE  f \in Entries
BY DEF Entries

\* And every list of entries is one.
LEMMA EntriesHave ==
    ASSUME NEW f \in Entries
    PROVE  /\ DOMAIN f \in SUBSET Clis
           /\ f \in [DOMAIN f -> 0 .. MaxAge]
BY DEF Entries

\* Nobody is listed to begin with.
LEMMA EmptyIsEntries == Empty \in Entries
<1>1. Empty \in [{} -> 0 .. MaxAge]
  BY DEF Empty
<1>2. {} \in SUBSET Clis
  OBVIOUS
<1> QED
  BY <1>1, <1>2, EntriesAre

\* What a process writes is a list of entries.
LEMMA WritesEntries ==
    ASSUME NEW c \in Clis, seen \in [Clis -> Entries], InstancesAssumption
    PROVE  Saved(c) \in Entries /\ Removed(c) \in Entries
<1> DEFINE f == seen[c]
<1>1. f \in Entries
  OBVIOUS
<1>2. DOMAIN f \in SUBSET Clis /\ f \in [DOMAIN f -> 0 .. MaxAge]
  BY <1>1, EntriesHave
<1>3. Saved(c) \in [Others(c) \cup {c} -> 0 .. MaxAge] /\ Others(c) \cup {c} \in SUBSET Clis
  BY <1>2 DEF Saved, Others, InstancesAssumption
<1>4. Removed(c) \in [DOMAIN f \ {c} -> 0 .. MaxAge] /\ DOMAIN f \ {c} \in SUBSET Clis
  BY <1>2 DEF Removed
<1> QED
  BY <1>3, <1>4, EntriesAre

------------------------------------------------------------------------------
(* Type correctness.                                                          *)

\* The types hold to begin with.
LEMMA TypeInit == InstancesInit => InstancesTypeOK
BY InstancesAssumption, EmptyIsEntries
   DEF InstancesInit, InstancesTypeOK, InstancesAssumption, CliStates

\* Every step keeps the types.
LEMMA TypeStep == InstancesTypeOK /\ [InstancesNext]_instanceVars => InstancesTypeOK'
<1> SUFFICES ASSUME InstancesTypeOK, [InstancesNext]_instanceVars PROVE InstancesTypeOK'
  OBVIOUS
<1> USE InstancesAssumption DEF InstancesAssumption
<1>1. ASSUME NEW c \in Clis, Heartbeat(c) \/ RegisterCli(c) PROVE InstancesTypeOK'
  BY <1>1 DEF InstancesTypeOK, Heartbeat, RegisterCli, Goes, CliStates, InJob, listVars, lockVars
<1>2. ASSUME NEW c \in Clis, NEW j \in {"list", "remove"}, Asked(c, j) PROVE InstancesTypeOK'
  BY <1>2 DEF InstancesTypeOK, Asked, Goes, CliStates, InJob, listVars, lockVars
<1>3. ASSUME NEW c \in Clis, Look(c) \/ ClearLock(c) \/ WaitForLock(c) \/ GiveUpLock(c)
      PROVE  InstancesTypeOK'
  BY <1>3 DEF InstancesTypeOK, Look, ClearLock, WaitForLock, GiveUpLock, Goes, CliStates, InJob,
              listVars, lockVars, roundVars
<1>4. ASSUME NEW c \in Clis, CreateLock(c) PROVE InstancesTypeOK'
  BY <1>4 DEF InstancesTypeOK, CreateLock, Goes, CliStates, InJob, listVars, lockVars, roundVars
<1>5. ASSUME NEW c \in Clis, Read(c) PROVE InstancesTypeOK'
  BY <1>5, EmptyIsEntries
     DEF InstancesTypeOK, Read, Goes, CliStates, InJob, listVars, lockVars, roundVars
<1>6. ASSUME NEW c \in Clis, WriteTemp(c) PROVE InstancesTypeOK'
  BY <1>6, EmptyIsEntries, WritesEntries
     DEF InstancesTypeOK, WriteTemp, Goes, CliStates, InJob, lockVars, roundVars
<1>7. ASSUME NEW c \in Clis, Rename(c) PROVE InstancesTypeOK'
  BY <1>7 DEF InstancesTypeOK, Rename, Goes, CliStates, InJob, lockVars, roundVars
<1>8. ASSUME NEW c \in Clis, Release(c) PROVE InstancesTypeOK'
  BY <1>8 DEF InstancesTypeOK, Release, AfterRelease, Goes, CliStates, InJob, listVars, roundVars
<1>9. ASSUME NEW c \in Clis, Killed(c) PROVE InstancesTypeOK'
  BY <1>9, EmptyIsEntries
     DEF InstancesTypeOK, Killed, Dies, Goes, CliStates, InJob, listVars, lockVars, roundVars
<1>13. ASSUME NEW c \in Clis, KilledInLock(c) PROVE InstancesTypeOK'
  BY <1>13, EmptyIsEntries
     DEF InstancesTypeOK, KilledInLock, Dies, Goes, CliStates, InJob, listVars, roundVars
<1>10. CASE LockAges
  BY <1>10 DEF InstancesTypeOK, LockAges, listVars, roundVars
<1>11. CASE RoundPasses
  <2>1. listFile' \in Entries
    <3>1. DOMAIN listFile \in SUBSET Clis /\ listFile \in [DOMAIN listFile -> 0 .. MaxAge]
      BY EntriesHave DEF InstancesTypeOK
    <3>2. listFile' \in [DOMAIN listFile -> 0 .. MaxAge]
      BY <1>11, <3>1 DEF RoundPasses
    <3> QED
      BY <3>1, <3>2, EntriesAre
  <2> QED
    BY <1>11, <2>1 DEF InstancesTypeOK, RoundPasses, lockVars
<1>12. CASE UNCHANGED instanceVars
  BY <1>12 DEF InstancesTypeOK, instanceVars
<1> QED
  BY <1>1, <1>2, <1>3, <1>4, <1>5, <1>6, <1>7, <1>8, <1>9, <1>10, <1>11, <1>12, <1>13
     DEF InstancesNext, CliSteps

\* The list, the lock and what each process is at are what their types say, whoever
\* is killed and whatever is lost (instances.ts).
THEOREM InstancesTypeCorrect == InstancesSpec => []InstancesTypeOK
BY TypeInit, TypeStep, PTL DEF InstancesSpec

------------------------------------------------------------------------------
(* The lock keeps the processes apart while none is killed.                   *)

\* What a process is to write changes with the list and with what it is asked.
LEMMA WrittenKept ==
    ASSUME NEW d \in Clis, UNCHANGED listFile, job'[d] = job[d]
    PROVE  Written(d)' = Written(d)
BY DEF Written

\* Two processes never have the lock in hand.
LEMMA OneHolds ==
    ASSUME NoneKilled, NEW c \in Clis, NEW d \in Clis, cli[c] \in Holding, cli[d] \in Holding
    PROVE  c = d
<1>1. locked[c] /\ locked[d]
  BY DEF NoneKilled, JobSane
<1>2. lockedBy = {c} /\ lockedBy = {d}
  BY <1>1 DEF NoneKilled, LockHeld
<1> QED
  BY <1>2

\* A lock is never left behind: nobody takes one over and none becomes stale.
LEMMA NeverOrphaned ==
    ASSUME NoneKilled
    PROVE  ~(lockFile \in {"fresh", "empty"} /\ Orphaned)
<1> SUFFICES ASSUME lockFile \in {"fresh", "empty"} /\ Orphaned PROVE FALSE
  OBVIOUS
<1>1. PICK c \in Clis : locked[c]
  BY DEF NoneKilled, LockHeld
<1>2. lockedBy = {c} /\ cli[c] # "dead"
  BY <1>1 DEF NoneKilled, LockHeld, CliSane
<1> QED
  BY <1>2 DEF Orphaned

\* Nothing is listed and no lock is there to begin with.
LEMMA SaneInit == InstancesInit => NoneKilled
BY DEF InstancesInit, NoneKilled, LockHeld, CliSane, JobSane, WriteSane, EntrySane, Holding, InJob,
       Lives, Empty

\* Steps that only change what one process is at and is asked.
LEMMA SaneBegins ==
    ASSUME InstancesTypeOK, NoneKilled, NEW c \in Clis,
           Heartbeat(c) \/ RegisterCli(c) \/ (\E j \in {"list", "remove"} : Asked(c, j))
    PROVE  NoneKilled'
<1> USE DEF NoneKilled
<1>0. /\ cli[c] \in {"off", "up"} /\ cli' = [cli EXCEPT ![c] = "look"]
      /\ UNCHANGED <<locked, seen, served, listFile, temp, lockFile, lockedBy>>
      /\ \E j \in {"save", "list", "remove"} : job' = [job EXCEPT ![c] = j]
  BY DEF Heartbeat, RegisterCli, Asked, Goes, listVars, lockVars
<1>1. LockHeld'
  BY <1>0 DEF LockHeld
<1> SUFFICES ASSUME NEW d \in Clis
             PROVE  (CliSane(d) /\ JobSane(d) /\ WriteSane(d) /\ EntrySane(d))'
  BY <1>1
<1>2. CliSane(d)'
  BY <1>0 DEF CliSane, InstancesTypeOK
<1>3. JobSane(d)'
  BY DEF JobSane, InstancesTypeOK, Heartbeat, RegisterCli, Asked, Goes, Lives, Holding, InJob,
         listVars, lockVars
<1>4. WriteSane(d)'
  <2>1. CASE d = c
    BY <1>0, <2>1 DEF WriteSane, InstancesTypeOK
  <2>2. CASE d # c
    <3>1. cli'[d] = cli[d] /\ job'[d] = job[d]
      BY <1>0, <2>2 DEF InstancesTypeOK
    <3> QED
      BY <1>0, <3>1, WrittenKept DEF WriteSane
  <2> QED
    BY <2>1, <2>2
<1>5. EntrySane(d)'
  BY DEF EntrySane, JobSane, InstancesTypeOK, Heartbeat, RegisterCli, Asked, Goes, Lives, InJob,
         listVars, lockVars
<1> QED
  BY <1>2, <1>3, <1>4, <1>5

\* Steps towards the lock. One that is found stale or left behind there is not.
LEMMA SaneLocks ==
    ASSUME InstancesTypeOK, NoneKilled, NEW c \in Clis,
           Look(c) \/ WaitForLock(c) \/ CreateLock(c)
    PROVE  NoneKilled'
<1> USE DEF NoneKilled
<1>0. /\ cli[c] \in {"look", "create"} /\ \E x \in {"look", "create", "read"} : cli' = [cli EXCEPT ![c] = x]
      /\ UNCHANGED <<job, seen, beaten, served, listFile, temp>>
  BY DEF Look, StaleLock, WaitForLock, CreateLock, Goes, listVars, roundVars, LockHeld
<1>1. LockHeld'
  <2>1. CASE Look(c) \/ WaitForLock(c)
    BY <2>1 DEF LockHeld, Look, WaitForLock, lockVars
  <2>2. CASE CreateLock(c)
    <3>1. \A d \in Clis : ~locked[d]
      BY <2>2 DEF CreateLock, LockHeld
    <3> QED
      BY <2>2, <3>1 DEF LockHeld, CreateLock, InstancesTypeOK
  <2> QED
    BY <2>1, <2>2
<1> SUFFICES ASSUME NEW d \in Clis
             PROVE  (CliSane(d) /\ JobSane(d) /\ WriteSane(d) /\ EntrySane(d))'
  BY <1>1
<1>2. CliSane(d)'
  BY <1>0 DEF CliSane, InstancesTypeOK
<1>3. JobSane(d)'
  BY DEF JobSane, InstancesTypeOK, Look, StaleLock, LockHeld, WaitForLock, CreateLock, Goes, Lives,
         Holding, InJob, listVars, lockVars, roundVars
<1>4. WriteSane(d)'
  BY <1>0, WrittenKept DEF WriteSane, InstancesTypeOK
<1>5. EntrySane(d)'
  BY <1>0 DEF EntrySane, InstancesTypeOK, Lives, InJob
<1> QED
  BY <1>2, <1>3, <1>4, <1>5

\* Reading the list.
LEMMA SaneRead ==
    ASSUME InstancesTypeOK, NoneKilled, NEW c \in Clis, Read(c)
    PROVE  NoneKilled'
<1> USE DEF NoneKilled
<1>0. /\ cli[c] = "read" /\ cli' = [cli EXCEPT ![c] = IF job[c] = "list" THEN "release" ELSE "write"]
      /\ UNCHANGED <<job, locked, beaten, served, listFile, temp, lockFile, lockedBy>>
  BY DEF Read, Goes, listVars, lockVars, roundVars
<1>1. LockHeld'
  BY <1>0 DEF LockHeld
<1> SUFFICES ASSUME NEW d \in Clis
             PROVE  (CliSane(d) /\ JobSane(d) /\ WriteSane(d) /\ EntrySane(d))'
  BY <1>1
<1>2. CliSane(d)' /\ JobSane(d)'
  BY <1>0 DEF CliSane, JobSane, InstancesTypeOK, Lives, Holding, InJob
<1>3. WriteSane(d)'
  BY <1>0, WrittenKept DEF WriteSane, InstancesTypeOK, Read
<1>4. EntrySane(d)'
  BY <1>0 DEF EntrySane, JobSane, InstancesTypeOK, Lives, InJob
<1> QED
  BY <1>2, <1>3, <1>4

\* Writing the temporary file.
LEMMA SaneWrites ==
    ASSUME InstancesTypeOK, NoneKilled, NEW c \in Clis, WriteTemp(c)
    PROVE  NoneKilled'
<1> USE DEF NoneKilled
<1>0. /\ cli[c] = "write" /\ cli' = [cli EXCEPT ![c] = "rename"]
      /\ UNCHANGED <<job, locked, beaten, served, listFile, lockFile, lockedBy>>
  BY DEF WriteTemp, Goes, lockVars, roundVars
<1>1. LockHeld'
  BY <1>0 DEF LockHeld
<1> SUFFICES ASSUME NEW d \in Clis
             PROVE  (CliSane(d) /\ JobSane(d) /\ WriteSane(d) /\ EntrySane(d))'
  BY <1>1
<1>2. CliSane(d)' /\ JobSane(d)'
  BY <1>0 DEF CliSane, JobSane, InstancesTypeOK, Lives, Holding, InJob
<1>3. WriteSane(d)'
  <2>1. CASE d = c
    <3>1. seen[c] = listFile /\ job[c] \in {"save", "remove"}
      BY <1>0 DEF WriteSane, JobSane, InstancesTypeOK
    <3>2. Saved(c) = Written(c) \/ job[c] # "save"
      BY <3>1 DEF Saved, Others, Written
    <3>3. Removed(c) = Written(c) \/ job[c] = "save"
      BY <3>1 DEF Removed, Written
    <3>4. temp' = {Written(c)}
      BY <3>1, <3>2, <3>3 DEF WriteTemp
    <3> QED
      BY <1>0, <2>1, <3>4, WrittenKept DEF WriteSane, InstancesTypeOK
  <2>2. CASE d # c
    <3>1. cli'[d] \notin {"write", "rename"}
      BY <1>0, <2>2, OneHolds DEF InstancesTypeOK, Holding
    <3> QED
      BY <3>1 DEF WriteSane
  <2> QED
    BY <2>1, <2>2
<1>4. EntrySane(d)'
  BY <1>0 DEF EntrySane, JobSane, InstancesTypeOK, Lives, InJob
<1> QED
  BY <1>2, <1>3, <1>4

\* Putting the temporary file in the place of the list.
LEMMA SaneRenames ==
    ASSUME InstancesAssumption, InstancesTypeOK, NoneKilled, NEW c \in Clis, Rename(c)
    PROVE  NoneKilled'
<1> USE DEF NoneKilled
<1>1. temp = {Written(c)}
  BY DEF Rename, WriteSane
<1>0. /\ cli[c] = "rename" /\ cli' = [cli EXCEPT ![c] = "release"]
      /\ listFile' = Written(c)
      /\ UNCHANGED <<job, locked, beaten, served, lockFile, lockedBy>>
  BY <1>1 DEF Rename, Goes, lockVars, roundVars
<1>2. LockHeld'
  BY <1>0 DEF LockHeld
<1> SUFFICES ASSUME NEW d \in Clis
             PROVE  (CliSane(d) /\ JobSane(d) /\ WriteSane(d) /\ EntrySane(d))'
  BY <1>2
<1>3. CliSane(d)' /\ JobSane(d)'
  BY <1>0 DEF CliSane, JobSane, InstancesTypeOK, Lives, Holding, InJob
<1>4. WriteSane(d)'
  <2>1. cli'[d] \notin {"write", "rename"}
    BY <1>0, OneHolds DEF InstancesTypeOK, Holding
  <2> QED
    BY <2>1 DEF WriteSane
<1>5. EntrySane(d)'
  <2>1. job[c] \in {"save", "remove"} /\ MaxAge \in Nat \ {0, 1}
    BY <1>0 DEF JobSane, InstancesTypeOK, InstancesAssumption
  <2>2. CASE d = c
    <3>1. job[c] = "save" => c \in DOMAIN listFile' /\ listFile'[c] = 0
      BY <1>0 DEF Written
    <3>2. job[c] = "remove" => c \notin DOMAIN listFile'
      BY <1>0 DEF Written
    <3>3. cli'[c] = "release" /\ job' = job
      BY <1>0 DEF InstancesTypeOK
    <3> QED
      BY <2>1, <2>2, <3>1, <3>2, <3>3 DEF EntrySane, Lives
  <2>3. CASE d # c
    <3>1. d \in DOMAIN listFile' => d \in DOMAIN listFile /\ listFile'[d] = listFile[d]
      BY <1>0, <2>3 DEF Written
    <3>2. d \in DOMAIN listFile /\ listFile[d] \in Nat /\ listFile[d] <= 1 => d \in DOMAIN listFile'
      BY <1>0, <2>1, <2>3 DEF Written
    <3>3. d \in DOMAIN listFile => listFile[d] \in Nat
      BY <2>1, EntriesHave DEF InstancesTypeOK
    <3>4. cli'[d] = cli[d] /\ job' = job /\ served' = served /\ beaten' = beaten
      BY <1>0, <2>3 DEF InstancesTypeOK
    <3>5. cli[d] # "release"
      BY <1>0, <2>3, OneHolds DEF Holding
    <3> QED
      BY <3>1, <3>2, <3>3, <3>4, <3>5 DEF EntrySane, Lives
  <2> QED
    BY <2>2, <2>3
<1> QED
  BY <1>3, <1>4, <1>5

\* Giving the lock back.
LEMMA SaneReleases ==
    ASSUME InstancesTypeOK, NoneKilled, NEW c \in Clis, Release(c)
    PROVE  NoneKilled'
<1> USE DEF NoneKilled
<1>0. /\ cli[c] = "release" /\ locked[c]
      /\ cli' = [cli EXCEPT ![c] = IF job[c] = "remove" THEN "gone" ELSE "up"]
      /\ served' = IF job[c] = "remove" THEN served \ {c} ELSE served \cup {c}
      /\ job' = [job EXCEPT ![c] = "save"] /\ locked' = [locked EXCEPT ![c] = FALSE]
      /\ lockFile' = "none" /\ UNCHANGED <<seen, beaten, listFile, temp>>
  <2>1. cli[c] = "release"
    BY DEF Release, CliSane
  <2>2. locked[c]
    BY <2>1 DEF JobSane, Holding
  <2>3. AfterRelease(c, TRUE) = IF job[c] = "remove" THEN "gone" ELSE "up"
    <3>1. CASE job[c] = "remove"
      BY <3>1 DEF AfterRelease
    <3>2. CASE job[c] # "remove"
      BY <3>2 DEF AfterRelease
    <3> QED
      BY <3>1, <3>2
  <2> QED
    BY <2>1, <2>2, <2>3 DEF Release, Goes, listVars, roundVars
<1>1. LockHeld'
  BY <1>0, OneHolds DEF LockHeld, InstancesTypeOK
<1> SUFFICES ASSUME NEW d \in Clis
             PROVE  (CliSane(d) /\ JobSane(d) /\ WriteSane(d) /\ EntrySane(d))'
  BY <1>1
<1>2. CliSane(d)' /\ JobSane(d)'
  BY <1>0 DEF CliSane, JobSane, InstancesTypeOK, Lives, Holding, InJob
<1>3. WriteSane(d)'
  BY <1>0, WrittenKept DEF WriteSane, InstancesTypeOK
<1>4. EntrySane(d)'
  BY <1>0 DEF EntrySane, JobSane, InstancesTypeOK, Lives, InJob
<1> QED
  BY <1>2, <1>3, <1>4

\* Thirty seconds that pass.
LEMMA SaneRounds ==
    ASSUME InstancesAssumption, InstancesTypeOK, NoneKilled, RoundPasses
    PROVE  NoneKilled'
<1> USE DEF NoneKilled
<1>1. LockHeld'
  BY DEF LockHeld, RoundPasses, lockVars
<1> SUFFICES ASSUME NEW d \in Clis
             PROVE  (CliSane(d) /\ JobSane(d) /\ WriteSane(d) /\ EntrySane(d))'
  BY <1>1
<1>0. cli' = cli /\ job' = job /\ locked' = locked /\ served' = served /\ beaten' = {}
  BY DEF RoundPasses
<1>2. CliSane(d)' /\ JobSane(d)'
  BY <1>0 DEF CliSane, JobSane, Lives
<1>3. WriteSane(d)'
  BY <1>0 DEF WriteSane, RoundPasses, InJob
<1>4. EntrySane(d)'
  <2>1. cli[d] \notin InJob /\ (d \in served => cli[d] = "up" /\ d \in beaten)
    BY DEF RoundPasses, JobSane, Lives, InstancesTypeOK, CliStates
  <2>2. d \in served => d \in DOMAIN listFile /\ listFile[d] = 0
    BY <2>1 DEF EntrySane, InJob
  <2>3. DOMAIN listFile' = DOMAIN listFile
    BY DEF RoundPasses
  <2>4. d \in served => listFile'[d] = 1
    BY <2>2 DEF RoundPasses, InstancesAssumption
  <2> QED
    BY <1>0, <2>1, <2>2, <2>3, <2>4 DEF EntrySane, InJob, Lives
<1> QED
  BY <1>2, <1>3, <1>4

\* Every step keeps the invariant.
LEMMA InvStep == InstancesInv /\ [InstancesNext]_instanceVars => InstancesInv'
<1> SUFFICES ASSUME InstancesInv, [InstancesNext]_instanceVars PROVE InstancesInv'
  OBVIOUS
<1> USE DEF InstancesInv
<1>0. InstancesTypeOK'
  BY TypeStep
<1> SUFFICES ASSUME crashes' = 0 PROVE NoneKilled'
  BY <1>0
<1>1. crashes = 0 /\ NoneKilled
  <2>1. crashes \in Nat
    BY InstancesAssumption DEF InstancesTypeOK, InstancesAssumption
  <2> QED
    BY <2>1 DEF InstancesNext, CliSteps, Heartbeat, RegisterCli, Asked, Look, ClearLock, CreateLock,
                WaitForLock, GiveUpLock, LockAges, Read, WriteTemp, Rename, Release, Killed,
                KilledInLock, Dies, RoundPasses, instanceVars
<1>2. ASSUME NEW c \in Clis, CliSteps(c) PROVE NoneKilled'
  <2>1. ~ClearLock(c)
    BY <1>1 DEF NoneKilled, CliSane, ClearLock
  <2> QED
    BY <1>1, <1>2, <2>1, InstancesAssumption, SaneBegins, SaneLocks, SaneRead, SaneWrites,
       SaneRenames, SaneReleases DEF CliSteps
<1>3. ASSUME NEW c \in Clis, RegisterCli(c) PROVE NoneKilled'
  BY <1>1, <1>3, SaneBegins
<1>4. ASSUME NEW c \in Clis, GiveUpLock(c) PROVE NoneKilled'
  BY <1>1, <1>4, NeverOrphaned DEF GiveUpLock
<1>5. ASSUME NEW c \in Clis, Killed(c) PROVE NoneKilled'
  BY <1>1, <1>5 DEF Killed, Dies
<1>10. ASSUME NEW c \in Clis, KilledInLock(c) PROVE NoneKilled'
  BY <1>1, <1>10 DEF KilledInLock, Dies
<1>6. ASSUME NEW c \in Clis, NEW j \in {"list", "remove"}, Asked(c, j) PROVE NoneKilled'
  BY <1>1, <1>6, SaneBegins
<1>7. CASE LockAges
  BY <1>1, <1>7, NeverOrphaned DEF LockAges
<1>8. CASE RoundPasses
  BY <1>1, <1>8, InstancesAssumption, SaneRounds
<1>9. CASE UNCHANGED instanceVars
  <2>1. UNCHANGED <<cli, job, locked, seen, beaten, served, listFile, temp, lockFile, lockedBy>>
    BY <1>9 DEF instanceVars
  <2>2. LockHeld'
    BY <1>1, <2>1 DEF NoneKilled, LockHeld
  <2>3. \A c \in Clis : CliSane(c)' /\ JobSane(c)' /\ EntrySane(c)'
    BY <1>1, <2>1 DEF NoneKilled, CliSane, JobSane, EntrySane, Lives
  <2>4. \A c \in Clis : WriteSane(c)'
    BY <1>1, <2>1, WrittenKept DEF NoneKilled, WriteSane
  <2> QED
    BY <2>2, <2>3, <2>4 DEF NoneKilled
<1> QED
  BY <1>2, <1>3, <1>4, <1>5, <1>6, <1>7, <1>8, <1>9, <1>10 DEF InstancesNext

\* While no process has been killed, every process that serves is in the list until
\* it is to end, no process that has ended is, and no two are between reading and
\* renaming at once (instances.ts: acquireLock, saveInstance, removeInstance).
THEOREM InstancesListedHolds == InstancesSpec => []InstancesListed
<1>1. InstancesInit => InstancesInv
  BY TypeInit, SaneInit DEF InstancesInv
<1>2. InstancesInv => InstancesListed
  <2> SUFFICES ASSUME InstancesTypeOK, NoneKilled PROVE InstancesListed
    BY DEF InstancesInv, InstancesListed
  <2> USE DEF NoneKilled
  <2>1. MaxAge \in Nat \ {0, 1} /\ DOMAIN listFile \subseteq Clis /\ served \subseteq Clis
    BY InstancesAssumption, EntriesHave DEF InstancesAssumption, InstancesTypeOK
  <2>2. {c \in served : job[c] # "remove"} \subseteq Listed
    <3> SUFFICES ASSUME NEW c \in served, job[c] # "remove" PROVE c \in Listed
      OBVIOUS
    <3>1. c \in DOMAIN listFile /\ listFile[c] <= 1
      BY <2>1 DEF EntrySane
    <3>2. listFile[c] \in Nat
      BY <2>1, <3>1, EntriesHave DEF InstancesTypeOK
    <3> QED
      BY <2>1, <3>1, <3>2 DEF Listed
  <2>3. \A c \in Listed : Lives(c)
    BY <2>1 DEF Listed, EntrySane
  <2>4. \A c, d \in Clis : {cli[c], cli[d]} \subseteq {"read", "write", "rename"} => c = d
    BY OneHolds DEF Holding
  <2> QED
    BY <2>2, <2>3, <2>4 DEF InstancesListed
<1> QED
  BY <1>1, <1>2, InvStep, PTL DEF InstancesSpec

--------------------------------------------------------------------------------
\* The boards.

\* Natural numbers have a least one among them.
LEMMA LeastOf ==
  ASSUME NEW T, T \subseteq Nat, T # {}
  PROVE  \E n \in T : \A m \in T : ~ (m < n)
<1> DEFINE R == OpToRel(<, Nat)
<1>1. \E x \in T : \A y \in T : ~ (<<y, x>> \in R)
  <2>1. IsWellFoundedOn(R, Nat)
    BY NatLessThanWellFounded
  <2> HIDE DEF R
  <2> QED
    BY <2>1, WFMin
<1>2. \A x, y \in Nat : <<y, x>> \in R <=> y < x
  BY DEF OpToRel
<1> QED
  BY <1>1, <1>2

\* So a set with 0 and every successor has them all.
LEMMA Induction ==
  ASSUME NEW T, 0 \in T, \A n \in T \cap Nat : n + 1 \in T
  PROVE  Nat \subseteq T
<1> DEFINE Out == {n \in Nat : n \notin T}
<1> SUFFICES ASSUME Out # {} PROVE FALSE
  OBVIOUS
<1>1. PICK n \in Out : \A m \in Out : ~ (m < n)
  BY LeastOf
<1>2. n # 0 /\ n - 1 \in Nat /\ n - 1 \in T /\ (n - 1) + 1 = n
  BY <1>1
<1> QED
  BY <1>2

\* The recursive function of Without exists, up to any place of the order.
KeptTo(order, b, m, kept) ==
  kept = [n \in 0..m |->
            IF n = 0 THEN <<>>
            ELSE IF order[n] = b THEN kept[n - 1] ELSE Append(kept[n - 1], order[n])]

\* By induction over the place.
LEMMA KeptExists ==
  ASSUME NEW order, NEW b, NEW m \in Nat
  PROVE  \E kept : KeptTo(order, b, m, kept)
<1> DEFINE T == {k \in Nat : \E kept : KeptTo(order, b, k, kept)}
<1>1. 0 \in T
  <2>1. KeptTo(order, b, 0, [n \in 0..0 |-> <<>>])
    BY DEF KeptTo
  <2> QED
    BY <2>1
<1>2. ASSUME NEW k \in Nat, NEW f, KeptTo(order, b, k, f)
      PROVE  \E g : KeptTo(order, b, k + 1, g)
  <2> DEFINE last == IF order[k + 1] = b THEN f[k] ELSE Append(f[k], order[k + 1])
             g == [n \in 0..(k + 1) |-> IF n = k + 1 THEN last ELSE f[n]]
  <2>1. \A n \in 0..k : f[n] = IF n = 0 THEN <<>>
            ELSE IF order[n] = b THEN f[n - 1] ELSE Append(f[n - 1], order[n])
    BY <1>2 DEF KeptTo
  <2> HIDE DEF last
  <2>2. \A n \in 0..(k + 1) : n # 0 => n - 1 \in 0..(k + 1) /\ g[n - 1] = f[n - 1]
    OBVIOUS
  <2>3. ASSUME NEW n \in 0..(k + 1)
        PROVE  g[n] = IF n = 0 THEN <<>>
                      ELSE IF order[n] = b THEN g[n - 1] ELSE Append(g[n - 1], order[n])
    <3>1. CASE n = k + 1
      <4>1. g[n] = last /\ n # 0 /\ n - 1 = k
        BY <3>1
      <4>2. g[n - 1] = f[k]
        BY <2>2, <4>1
      <4> HIDE DEF g
      <4> QED
        BY <4>1, <4>2, <3>1 DEF last
    <3>2. CASE n # k + 1
      <4>1. n \in 0..k /\ g[n] = f[n]
        BY <3>2
      <4> HIDE DEF g
      <4> QED
        BY <2>1, <2>2, <4>1
    <3> QED
      BY <3>1, <3>2
  <2> DEFINE h == [n \in 0..(k + 1) |->
            IF n = 0 THEN <<>>
            ELSE IF order[n] = b THEN g[n - 1] ELSE Append(g[n - 1], order[n])]
  <2>4. g = h
    <3>1. \A n \in 0..(k + 1) : g[n] = h[n]
      BY <2>3
    <3> QED
      BY <3>1
  <2> HIDE DEF g
  <2> QED
    BY <2>4 DEF KeptTo
<1>3. \A k \in T \cap Nat : k + 1 \in T
  BY <1>2
<1> HIDE DEF T
<1>4. Nat \subseteq T
  BY <1>1, <1>3, Induction
<1> QED
  BY <1>4 DEF T

\* What the filter leaves: the other boards, each as often as before.
LEMMA WithoutKeeps ==
  ASSUME NEW S, NEW order \in Seq(S), NEW b
  PROVE  /\ Without(order, b) \in Seq(S)
         /\ ToSet(Without(order, b)) = ToSet(order) \ {b}
         /\ IsInjective(order) => IsInjective(Without(order, b))
<1> DEFINE N == Len(order)
<1>0. N \in Nat /\ \A i \in 1..N : order[i] \in S
  OBVIOUS
<1>1. PICK kept : KeptTo(order, b, N, kept) /\ Without(order, b) = kept[N]
  <2> DEFINE f == CHOOSE f : KeptTo(order, b, N, f)
  <2>1. Without(order, b) = f[N]
    BY DEF Without, KeptTo
  <2>2. KeptTo(order, b, N, f)
    BY <1>0, KeptExists
  <2> HIDE DEF f
  <2> QED
    BY <2>1, <2>2
<1>2. /\ kept[0] = <<>>
      /\ \A n \in 0..N : n # 0 => kept[n] =
           IF order[n] = b THEN kept[n - 1] ELSE Append(kept[n - 1], order[n])
  <2>1. kept = [n \in 0..N |-> IF n = 0 THEN <<>>
            ELSE IF order[n] = b THEN kept[n - 1] ELSE Append(kept[n - 1], order[n])]
    BY <1>1 DEF KeptTo
  <2>2. \A n \in 0..N : kept[n] = IF n = 0 THEN <<>>
            ELSE IF order[n] = b THEN kept[n - 1] ELSE Append(kept[n - 1], order[n])
    BY <2>1
  <2> QED
    BY <1>0, <2>2
<1> DEFINE Good(n) ==
      /\ kept[n] \in Seq(S)
      /\ \A x : (\E j \in 1..Len(kept[n]) : kept[n][j] = x)
                  <=> x # b /\ \E i \in 1..n : order[i] = x
      /\ IsInjective(order) =>
           \A i, j \in 1..Len(kept[n]) : kept[n][i] = kept[n][j] => i = j
    T == {n \in Nat : n <= N => Good(n)}
<1>3. 0 \in T
  <2>1. Good(0)
    BY <1>2
  <2> QED
    BY <2>1
<1>4. ASSUME NEW n \in Nat, n + 1 <= N, Good(n) PROVE Good(n + 1)
  <2> DEFINE e == order[n + 1]
             k == kept[n]
             l == kept[n + 1]
  <2>0. n + 1 \in 0..N /\ n + 1 # 0 /\ (n + 1) - 1 = n
    BY <1>0, <1>4
  <2>1. e \in S /\ l = IF e = b THEN k ELSE Append(k, e)
    BY <1>0, <1>2, <1>4, <2>0
  <2>2. \A x : (\E i \in 1..(n + 1) : order[i] = x) <=> e = x \/ \E i \in 1..n : order[i] = x
    <3>1. \A i \in 1..(n + 1) : i = n + 1 \/ i \in 1..n
      OBVIOUS
    <3>2. n + 1 \in 1..(n + 1) /\ \A i \in 1..n : i \in 1..(n + 1)
      OBVIOUS
    <3> QED
      BY <3>1, <3>2
  <2>3. CASE e = b
    BY <1>4, <2>1, <2>2, <2>3
  <2>4. CASE e # b
    <3>1. /\ l \in Seq(S) /\ Len(l) = Len(k) + 1 /\ l[Len(k) + 1] = e /\ Len(k) \in Nat
          /\ \A j \in 1..Len(k) : l[j] = k[j]
      BY <1>4, <2>1, <2>4
    <3> HIDE DEF e, k, l
    <3>2. \A x : (\E j \in 1..Len(k) : k[j] = x) <=> x # b /\ \E i \in 1..n : order[i] = x
      BY <1>4 DEF k
    <3>3. \A j \in 1..Len(l) : j = Len(k) + 1 \/ j \in 1..Len(k)
      BY <3>1
    <3>4. Len(k) + 1 \in 1..Len(l) /\ \A j \in 1..Len(k) : j \in 1..Len(l)
      BY <3>1
    <3>5. \A x : (\E j \in 1..Len(l) : l[j] = x)
                   <=> e = x \/ \E j \in 1..Len(k) : k[j] = x
      BY <3>1, <3>3, <3>4
    <3>6. \A x : (\E j \in 1..Len(l) : l[j] = x) <=> x # b /\ \E i \in 1..(n + 1) : order[i] = x
      BY <2>2, <2>4, <3>2, <3>5 DEF e
    <3>7. ASSUME IsInjective(order) PROVE \A i, j \in 1..Len(l) : l[i] = l[j] => i = j
      <4>1. \A i \in 1..n : order[i] # e
        <5>1. \A i \in 1..n : i \in DOMAIN order /\ n + 1 \in DOMAIN order /\ i # n + 1
          BY <1>0, <1>4
        <5> QED
          BY <5>1, <3>7 DEF IsInjective, e
      <4>2. \A i \in 1..Len(k) : k[i] # e
        BY <3>2, <4>1
      <4>3. \A i, j \in 1..Len(k) : k[i] = k[j] => i = j
        BY <1>4, <3>7 DEF k
      <4> QED
        BY <3>1, <3>3, <4>2, <4>3
    <3> QED
      BY <3>1, <3>6, <3>7 DEF l
  <2> QED
    BY <2>3, <2>4
<1>5. \A n \in T \cap Nat : n + 1 \in T
  <2> HIDE DEF Good
  <2> SUFFICES ASSUME NEW n \in Nat, n <= N => Good(n), n + 1 <= N PROVE Good(n + 1)
    OBVIOUS
  <2>1. n <= N
    BY <1>0
  <2> QED
    BY <1>4, <2>1
<1>6. N \in T
  <2> HIDE DEF T
  <2> QED
    BY <1>0, <1>3, <1>5, Induction
<1>7. Good(N)
  <2> HIDE DEF Good
  <2> QED
    BY <1>0, <1>6
<1> DEFINE w == Without(order, b)
<1>8. /\ w \in Seq(S)
      /\ \A x : (\E j \in 1..Len(w) : w[j] = x) <=> x # b /\ \E i \in 1..N : order[i] = x
      /\ IsInjective(order) => \A i, j \in 1..Len(w) : w[i] = w[j] => i = j
  BY <1>1, <1>7
<1> HIDE DEF w
<1>9. DOMAIN w = 1..Len(w) /\ DOMAIN order = 1..Len(order)
  BY <1>8
<1>10. ToSet(w) = ToSet(order) \ {b}
  <2>1. ToSet(w) = {w[j] : j \in 1..Len(w)} /\ ToSet(order) = {order[i] : i \in 1..N}
    BY <1>9 DEF ToSet
  <2>2. \A x : x \in ToSet(w) <=> \E j \in 1..Len(w) : w[j] = x
    BY <2>1
  <2>3. \A x : x \in ToSet(order) <=> \E i \in 1..N : order[i] = x
    BY <2>1
  <2>4. \A x : x \in ToSet(w) <=> x \in ToSet(order) /\ x # b
    BY <1>8, <2>2, <2>3, Zenon
  <2> QED
    BY <2>4, Zenon
<1>11. IsInjective(order) => IsInjective(w)
  BY <1>8, <1>9 DEF IsInjective
<1> QED
  BY <1>8, <1>10, <1>11 DEF w
-----------------------------------------------------------------------------
\* The boards with files are the first ones, the orders of webs name only those,
\* and a write that waits is of one of them, archived only if that was noted.
FirstBoards == \E k \in 1..MaxBoards : Existing = 1..k
Orders == UNION {[1..m -> Boards] : m \in 0..MaxBoards}
BoardsTypes ==
  /\ boardStatus \in [Boards -> {"none", "draft", "active", "completed", "archived"}]
  /\ boardOrder \in Seq(Boards)
  /\ activeBoard \in {0} \cup Boards
  /\ webOrder \in [BoardWebs -> Orders]
  /\ runWrite \in [board : {0} \cup Boards, to : {"none", "active", "completed"}]
  /\ astray \subseteq Boards
WriteStands ==
  runWrite # NoWrite =>
    /\ runWrite.board \in Existing /\ runWrite.to # "none"
    /\ boardStatus[runWrite.board] = "archived" => runWrite.board \in astray
InPlace ==
  /\ \A b \in Boards \ astray : b \in ToSet(boardOrder) <=> b \in Shown
  /\ activeBoard \in Shown \cup astray \/ (activeBoard = 0 /\ Shown \subseteq astray)
BoardsInv ==
  /\ BoardsTypes /\ FirstBoards /\ WriteStands /\ BoardsListedOnce /\ InPlace
  /\ \A w \in BoardWebs : ToSet(webOrder[w]) \subseteq Existing

\* An order without repetitions is no longer than there are boards.
LEMMA OrderBounded ==
  ASSUME NEW order \in Seq(Boards), IsInjective(order)
  PROVE  order \in Orders
<1>1. Len(order) \in Nat /\ order \in [1..Len(order) -> Boards]
  OBVIOUS
<1>2. \A i, j \in 1..Len(order) : order[i] = order[j] => i = j
  BY <1>1 DEF IsInjective
<1>3. order \in Injection(1..Len(order), Boards)
  BY <1>1, <1>2 DEF Injection
<1>4. IsFiniteSet(Boards) /\ Cardinality(Boards) = MaxBoards /\ MaxBoards \in Nat
  BY FS_Interval, BoardsAssumption DEF Boards
<1>5. Cardinality(1..Len(order)) = Len(order)
  BY <1>1, FS_Interval
<1>6. Cardinality(1..Len(order)) <= Cardinality(Boards)
  BY <1>3, <1>4, FS_Injection
<1>7. Len(order) \in 0..MaxBoards
  BY <1>1, <1>4, <1>5, <1>6
<1> QED
  BY <1>1, <1>7 DEF Orders

\* The next board is the first one without files.
LEMMA NextIsFirst ==
  ASSUME FirstBoards, Existing # Boards
  PROVE  NextBoard \in Boards /\ Existing \cup {NextBoard} = 1..NextBoard
         /\ NextBoard \notin Existing
<1>1. PICK k \in 1..MaxBoards : Existing = 1..k
  BY DEF FirstBoards
<1>2. k \in Nat /\ Cardinality(Existing) = k
  BY <1>1, FS_Interval, BoardsAssumption
<1>3. k # MaxBoards
  BY <1>1 DEF Boards
<1> QED
  BY <1>1, <1>2, <1>3, BoardsAssumption DEF Boards, NextBoard

\* Appending a new element to an order without repetitions.
LEMMA AppendedOnce ==
  ASSUME NEW order \in Seq(Boards), NEW b \in Boards
  PROVE  /\ Append(order, b) \in Seq(Boards)
         /\ ToSet(Append(order, b)) = ToSet(order) \cup {b}
         /\ IsInjective(order) /\ b \notin ToSet(order) => IsInjective(Append(order, b))
<1> DEFINE l == Append(order, b)
<1>1. /\ l \in Seq(Boards) /\ Len(l) = Len(order) + 1 /\ l[Len(order) + 1] = b
      /\ Len(order) \in Nat /\ \A i \in 1..Len(order) : l[i] = order[i]
  OBVIOUS
<1> HIDE DEF l
<1>2. DOMAIN l = 1..Len(l) /\ DOMAIN order = 1..Len(order)
  BY <1>1
<1>3. \A i \in 1..Len(l) : i = Len(order) + 1 \/ i \in 1..Len(order)
  BY <1>1
<1>4. Len(order) + 1 \in 1..Len(l) /\ \A i \in 1..Len(order) : i \in 1..Len(l)
  BY <1>1
<1>5. \A x : x \in ToSet(l) <=> \E i \in 1..Len(l) : l[i] = x
  BY <1>2 DEF ToSet
<1>6. \A x : x \in ToSet(order) <=> \E i \in 1..Len(order) : order[i] = x
  BY <1>2 DEF ToSet
<1>7. ToSet(l) = ToSet(order) \cup {b}
  BY <1>1, <1>3, <1>4, <1>5, <1>6
<1>8. ASSUME IsInjective(order), b \notin ToSet(order) PROVE IsInjective(l)
  <2>1. \A i, j \in 1..Len(order) : order[i] = order[j] => i = j
    BY <1>2, <1>8 DEF IsInjective
  <2>2. \A i \in 1..Len(order) : order[i] # b
    BY <1>6, <1>8
  <2> QED
    BY <1>1, <1>2, <1>3, <2>1, <2>2 DEF IsInjective
<1> QED
  BY <1>1, <1>7, <1>8 DEF l
\* A step that leaves the boards that have files.
LEMMA SameBoards ==
  ASSUME BoardsInv, boardStatus' \in [Boards -> {"none", "draft", "active", "completed", "archived"}],
         \A b \in Boards : boardStatus'[b] # "none" <=> boardStatus[b] # "none"
  PROVE  Existing' = Existing /\ FirstBoards'
<1>1. Existing' = Existing
  BY DEF Existing, BoardsInv, BoardsTypes
<1> QED
  BY <1>1 DEF BoardsInv, FirstBoards

\* A new board, a board hidden or shown, and a new order keep the invariant.
LEMMA NewBoardInv ==
  ASSUME BoardsInv, NewBoard, activeBoard' \in {activeBoard, NextBoard},
         activeBoard = 0 => activeBoard' = NextBoard
  PROVE  BoardsInv'
<1> DEFINE n == NextBoard
<1>0. BoardsTypes /\ BoardsListedOnce /\ InPlace /\ WriteStands
  BY DEF BoardsInv
<1>1. n \in Boards /\ Existing \cup {n} = 1..n /\ n \notin Existing
  BY NextIsFirst DEF BoardsInv, NewBoard
<1>2. /\ boardStatus' = [boardStatus EXCEPT ![n] = "draft"]
      /\ boardOrder' = Append(boardOrder, n)
      /\ webOrder' = webOrder /\ runWrite' = runWrite /\ astray' = astray
  BY DEF NewBoard
<1> HIDE DEF n
<1>3. boardStatus' \in [Boards -> {"none", "draft", "active", "completed", "archived"}]
      /\ \A b \in Boards : boardStatus'[b] = IF b = n THEN "draft" ELSE boardStatus[b]
  BY <1>0, <1>1, <1>2 DEF BoardsTypes
<1>4. Existing' = Existing \cup {n} /\ Shown' = Shown \cup {n}
  BY <1>0, <1>1, <1>3 DEF Existing, Shown, BoardsTypes
<1>5. FirstBoards'
  BY <1>1, <1>4 DEF FirstBoards, Boards
<1>6. boardOrder \in Seq(Boards) /\ IsInjective(boardOrder) /\ ToSet(boardOrder) \subseteq Existing
  BY <1>0 DEF BoardsTypes, BoardsListedOnce
<1>7. /\ boardOrder' \in Seq(Boards) /\ IsInjective(boardOrder')
      /\ ToSet(boardOrder') = ToSet(boardOrder) \cup {n}
  BY <1>1, <1>2, <1>6, AppendedOnce
<1>8. activeBoard' \in {activeBoard, n} /\ (activeBoard = 0 => activeBoard' = n)
  BY DEF n
<1>9. BoardsTypes'
  BY <1>0, <1>1, <1>2, <1>3, <1>7, <1>8 DEF BoardsTypes
<1>10. BoardsListedOnce'
  BY <1>0, <1>4, <1>6, <1>7, <1>8 DEF BoardsListedOnce
<1>11. InPlace'
  BY <1>0, <1>2, <1>4, <1>7, <1>8 DEF InPlace
<1>12. WriteStands'
  BY <1>0, <1>1, <1>2, <1>3, <1>4 DEF WriteStands, Existing
<1>13. \A w \in BoardWebs : ToSet(webOrder'[w]) \subseteq Existing'
  BY <1>2, <1>4 DEF BoardsInv
<1> QED
  BY <1>5, <1>9, <1>10, <1>11, <1>12, <1>13 DEF BoardsInv

\* See NewBoardInv.
LEMMA HideInv ==
  ASSUME BoardsInv, NEW b \in Boards, HideBoard(b)
  PROVE  BoardsInv'
<1>0. BoardsTypes /\ BoardsListedOnce /\ InPlace /\ WriteStands
  BY DEF BoardsInv
<1>1. /\ b \in Existing /\ boardStatus' = [boardStatus EXCEPT ![b] = "archived"]
      /\ boardOrder' = Without(boardOrder, b) /\ activeBoard' = ActiveWithout(b)
      /\ astray' = IF runWrite.board = b THEN astray \cup {b} ELSE astray \ {b}
      /\ webOrder' = webOrder /\ runWrite' = runWrite
  BY DEF HideBoard, OrderWithout
<1>2. boardStatus' \in [Boards -> {"none", "draft", "active", "completed", "archived"}]
      /\ \A c \in Boards : boardStatus'[c] = IF c = b THEN "archived" ELSE boardStatus[c]
  BY <1>0, <1>1 DEF BoardsTypes
<1>3. Existing' = Existing /\ FirstBoards'
  BY <1>1, <1>2, SameBoards DEF Existing
<1>4. Shown' = Shown \ {b}
  BY <1>2, <1>3 DEF Shown, Existing
<1>5. boardOrder \in Seq(Boards) /\ IsInjective(boardOrder) /\ ToSet(boardOrder) \subseteq Existing
  BY <1>0 DEF BoardsTypes, BoardsListedOnce
<1>6. /\ boardOrder' \in Seq(Boards) /\ IsInjective(boardOrder')
      /\ ToSet(boardOrder') = ToSet(boardOrder) \ {b}
  BY <1>1, <1>5, WithoutKeeps
<1>7. \/ activeBoard # b /\ activeBoard' = activeBoard
      \/ activeBoard = b /\ boardOrder' = <<>> /\ activeBoard' = 0
      \/ activeBoard = b /\ boardOrder' # <<>> /\ activeBoard' = Head(boardOrder')
  BY <1>1 DEF ActiveWithout, OrderWithout
<1>8. boardOrder' = <<>> => ToSet(boardOrder') = {}
  BY DEF ToSet
<1>9. boardOrder' # <<>> => Head(boardOrder') \in ToSet(boardOrder')
  <2> SUFFICES ASSUME boardOrder' # <<>> PROVE Head(boardOrder') \in ToSet(boardOrder')
    OBVIOUS
  <2>1. 1 \in DOMAIN boardOrder' /\ Head(boardOrder') = boardOrder'[1]
    BY <1>6
  <2> QED
    BY <2>1 DEF ToSet
<1>10. ToSet(boardOrder) \subseteq Boards /\ 0 \notin Boards
  BY <1>5 DEF Existing, Boards
<1>11. BoardsTypes'
  BY <1>0, <1>1, <1>2, <1>6, <1>7, <1>9, <1>10 DEF BoardsTypes
<1>12. BoardsListedOnce'
  BY <1>0, <1>3, <1>5, <1>6, <1>7, <1>9 DEF BoardsListedOnce
<1>13. InPlace'
  <2>1. astray \ {b} \subseteq astray' /\ astray' \subseteq astray \cup {b}
    BY <1>1
  <2>2. \A c \in Boards \ astray' : c \in ToSet(boardOrder') <=> c \in Shown'
    BY <1>0, <1>4, <1>6, <2>1 DEF InPlace
  <2>3. CASE activeBoard # b
    <3>1. activeBoard' = activeBoard
      BY <1>7, <2>3
    <3>2. CASE activeBoard \in Shown \cup astray
      BY <1>4, <2>1, <2>2, <2>3, <3>1, <3>2 DEF InPlace
    <3>3. CASE activeBoard = 0 /\ Shown \subseteq astray
      BY <1>4, <2>1, <2>2, <3>1, <3>3 DEF InPlace
    <3> QED
      BY <1>0, <3>2, <3>3 DEF InPlace
  <2>4. CASE activeBoard = b /\ boardOrder' = <<>>
    <3>1. Shown' \subseteq Boards /\ activeBoard' = 0
      BY <1>4, <1>7, <2>4 DEF Shown, Existing
    <3> QED
      BY <1>8, <2>2, <2>4, <3>1 DEF InPlace
  <2>5. CASE activeBoard = b /\ boardOrder' # <<>>
    <3>1. activeBoard' \in ToSet(boardOrder') /\ activeBoard' \in Boards
      BY <1>6, <1>7, <1>9, <1>10, <2>5
    <3> QED
      BY <2>2, <3>1 DEF InPlace
  <2> QED
    BY <1>7, <2>3, <2>4, <2>5
<1>14. WriteStands'
  BY <1>0, <1>1, <1>2, <1>3 DEF WriteStands, Existing
<1>15. \A w \in BoardWebs : ToSet(webOrder'[w]) \subseteq Existing'
  BY <1>1, <1>3 DEF BoardsInv
<1> QED
  BY <1>3, <1>11, <1>12, <1>13, <1>14, <1>15 DEF BoardsInv

\* See NewBoardInv.
LEMMA ShowInv ==
  ASSUME BoardsInv, NEW b \in Boards, ShowBoard(b)
  PROVE  BoardsInv'
<1>0. BoardsTypes /\ BoardsListedOnce /\ InPlace /\ WriteStands
  BY DEF BoardsInv
<1>1. /\ b \in Existing /\ boardStatus' = [boardStatus EXCEPT ![b] = "active"]
      /\ boardOrder' = OrderWith(b) /\ activeBoard' = b
      /\ webOrder' = webOrder /\ runWrite' = runWrite /\ astray' = astray \ {b}
  BY DEF ShowBoard
<1>2. boardStatus' \in [Boards -> {"none", "draft", "active", "completed", "archived"}]
      /\ \A c \in Boards : boardStatus'[c] = IF c = b THEN "active" ELSE boardStatus[c]
  BY <1>0, <1>1 DEF BoardsTypes
<1>3. Existing' = Existing /\ FirstBoards'
  BY <1>1, <1>2, SameBoards DEF Existing
<1>4. Shown' = Shown \cup {b}
  BY <1>1, <1>2, <1>3 DEF Shown, Existing
<1>5. boardOrder \in Seq(Boards) /\ IsInjective(boardOrder) /\ ToSet(boardOrder) \subseteq Existing
  BY <1>0 DEF BoardsTypes, BoardsListedOnce
<1>6. /\ boardOrder' \in Seq(Boards) /\ IsInjective(boardOrder')
      /\ ToSet(boardOrder') = ToSet(boardOrder) \cup {b}
  <2>1. CASE b \in ToSet(boardOrder)
    BY <1>1, <1>5, <2>1 DEF OrderWith
  <2>2. CASE b \notin ToSet(boardOrder)
    BY <1>1, <1>5, <2>2, AppendedOnce DEF OrderWith
  <2> QED
    BY <2>1, <2>2
<1>11. BoardsTypes'
  BY <1>0, <1>1, <1>2, <1>6 DEF BoardsTypes
<1>12. BoardsListedOnce'
  BY <1>1, <1>3, <1>5, <1>6 DEF BoardsListedOnce
<1>13. InPlace'
  BY <1>0, <1>1, <1>4, <1>6 DEF InPlace
<1>14. WriteStands'
  BY <1>0, <1>1, <1>2, <1>3 DEF WriteStands, Existing
<1>15. \A w \in BoardWebs : ToSet(webOrder'[w]) \subseteq Existing'
  BY <1>1, <1>3 DEF BoardsInv
<1> QED
  BY <1>3, <1>11, <1>12, <1>13, <1>14, <1>15 DEF BoardsInv

\* See NewBoardInv.
LEMMA ReorderInv ==
  ASSUME BoardsInv, NEW w \in BoardWebs, ReorderBoards(w)
  PROVE  BoardsInv'
<1>0. BoardsTypes /\ BoardsListedOnce /\ InPlace /\ WriteStands
  BY DEF BoardsInv
<1>1. PICK s \in SetToSeqs(ToSet(webOrder[w])) :
        /\ boardOrder' = s /\ astray' = astray \cup (ToSet(s) \ ToSet(boardOrder))
                             \cup (ToSet(boardOrder) \ ToSet(s))
        /\ boardStatus' = boardStatus /\ activeBoard' = activeBoard
        /\ webOrder' = webOrder /\ runWrite' = runWrite
  BY DEF ReorderBoards
<1> DEFINE D == 1..Cardinality(ToSet(webOrder[w]))
<1>2. s \in [D -> ToSet(webOrder[w])] /\ \A i, j \in D : i # j => s[i] # s[j]
  BY DEF SetToSeqs
<1>3. ToSet(webOrder[w]) \subseteq Existing /\ Existing \subseteq Boards
  BY DEF BoardsInv, Existing
<1>4. Cardinality(ToSet(webOrder[w])) \in Nat
  <2>1. IsFiniteSet(Boards)
    BY FS_Interval, BoardsAssumption DEF Boards
  <2>2. IsFiniteSet(ToSet(webOrder[w]))
    BY <1>3, <2>1, FS_Subset
  <2> QED
    BY <2>2, FS_CardinalityType
<1>5. s \in Seq(Boards) /\ IsInjective(s) /\ ToSet(s) \subseteq Existing
  <2>1. DOMAIN s = D /\ \A i \in D : s[i] \in Existing /\ s[i] \in Boards
    BY <1>2, <1>3
  <2>2. s \in [1..Cardinality(ToSet(webOrder[w])) -> Boards]
    BY <1>2, <2>1
  <2>3. s \in Seq(Boards)
    BY <1>4, <2>2
  <2>4. IsInjective(s)
    BY <1>2, <2>1 DEF IsInjective
  <2>5. ToSet(s) \subseteq Existing
    BY <2>1 DEF ToSet
  <2> QED
    BY <2>3, <2>4, <2>5
<1>6. Existing' = Existing /\ Shown' = Shown /\ FirstBoards'
  BY <1>1 DEF Existing, Shown, FirstBoards, BoardsInv
<1>7. ToSet(s) \subseteq Boards /\ ToSet(boardOrder) \subseteq Boards
  BY <1>0, <1>3, <1>5 DEF BoardsListedOnce
<1>11. BoardsTypes'
  BY <1>0, <1>1, <1>5, <1>7 DEF BoardsTypes
<1>12. BoardsListedOnce'
  BY <1>0, <1>1, <1>5, <1>6 DEF BoardsListedOnce
<1>13. InPlace'
  BY <1>0, <1>1, <1>6 DEF InPlace
<1>14. WriteStands'
  BY <1>0, <1>1, <1>6 DEF WriteStands
<1>15. \A v \in BoardWebs : ToSet(webOrder'[v]) \subseteq Existing'
  BY <1>1, <1>6 DEF BoardsInv
<1> QED
  BY <1>6, <1>11, <1>12, <1>13, <1>14, <1>15 DEF BoardsInv

\* So does the first state.
LEMMA BoardsInitInv == BoardsInit => BoardsInv
<1> SUFFICES ASSUME BoardsInit PROVE BoardsInv
  OBVIOUS
<1>1. PICK s \in {"draft", "active"} :
        boardStatus = [b \in Boards |-> IF b = 1 THEN s ELSE "none"]
  BY DEF BoardsInit, Scaffolded, Migrated
<1>2. /\ boardOrder = <<1>> /\ activeBoard = 1 /\ runWrite = NoWrite /\ astray = {}
      /\ webOrder = [w \in BoardWebs |-> <<1>>]
  BY DEF BoardsInit
<1>3. MaxBoards \in Nat /\ MaxBoards >= 1 /\ 1 \in Boards
  BY BoardsAssumption DEF Boards
<1>4. Existing = {1} /\ Shown = {1}
  BY <1>1, <1>3 DEF Existing, Shown
<1>5. /\ <<1>> \in Seq(Boards) /\ ToSet(<<1>>) = {1} /\ IsInjective(<<1>>) /\ <<1>> \in Orders
  <2>1. <<1>> \in Seq(Boards) /\ Len(<<1>>) = 1 /\ <<1>>[1] = 1 /\ DOMAIN <<1>> = {1}
    BY <1>3
  <2>2. IsInjective(<<1>>) /\ ToSet(<<1>>) = {1}
    BY <2>1 DEF IsInjective, ToSet
  <2> QED
    BY <2>1, <2>2, OrderBounded
<1>6. BoardsTypes
  BY <1>1, <1>2, <1>3, <1>5 DEF BoardsTypes, NoWrite
<1>7. FirstBoards
  <2>1. 1..1 = {1} /\ 1 \in 1..MaxBoards
    BY <1>3
  <2> QED
    BY <1>4, <2>1 DEF FirstBoards
<1> QED
  BY <1>2, <1>4, <1>5, <1>6, <1>7 DEF BoardsInv, WriteStands, BoardsListedOnce, InPlace

\* One case for each action.
LEMMA BoardsStep == BoardsInv /\ [BoardsNext]_boardVars => BoardsInv'
<1> SUFFICES ASSUME BoardsInv, [BoardsNext]_boardVars PROVE BoardsInv'
  OBVIOUS
<1>0. BoardsTypes /\ BoardsListedOnce /\ InPlace /\ WriteStands /\ FirstBoards
      /\ \A w \in BoardWebs : ToSet(webOrder[w]) \subseteq Existing
  BY DEF BoardsInv
<1>1. CASE CreateBoard
  BY <1>1, NewBoardInv DEF CreateBoard
<1>2. CASE ChatToBoard
  BY <1>2, NewBoardInv DEF ChatToBoard
<1>3. ASSUME NEW b \in Boards, RunReads(b) PROVE BoardsInv'
  <2>1. /\ runWrite' = [board |-> b, to |-> IF boardStatus[b] = "draft" THEN "active" ELSE "completed"]
        /\ boardStatus[b] \in {"draft", "active"} /\ boardStatus' = boardStatus
        /\ boardOrder' = boardOrder /\ activeBoard' = activeBoard
        /\ webOrder' = webOrder /\ astray' = astray
    BY <1>3 DEF RunReads
  <2>2. Existing' = Existing /\ Shown' = Shown /\ FirstBoards'
    BY <1>0, <2>1 DEF Existing, Shown, FirstBoards
  <2>3. BoardsTypes'
    BY <1>0, <2>1 DEF BoardsTypes
  <2>4. WriteStands'
    BY <2>1, <2>2 DEF WriteStands, Existing
  <2>5. BoardsListedOnce' /\ InPlace'
    BY <1>0, <2>1, <2>2 DEF BoardsListedOnce, InPlace
  <2> QED
    BY <1>0, <2>1, <2>2, <2>3, <2>4, <2>5 DEF BoardsInv
<1>4. ASSUME NEW w \in BoardWebs, SetActiveBoard(w) PROVE BoardsInv'
  <2>1. PICK b \in ToSet(webOrder[w]) :
          /\ activeBoard' = b
          /\ astray' = IF b \in ToSet(boardOrder) THEN astray ELSE astray \cup {b}
          /\ boardStatus' = boardStatus /\ boardOrder' = boardOrder
          /\ webOrder' = webOrder /\ runWrite' = runWrite
    BY <1>4 DEF SetActiveBoard
  <2>2. Existing' = Existing /\ Shown' = Shown /\ FirstBoards'
    BY <1>0, <2>1 DEF Existing, Shown, FirstBoards
  <2>3. b \in Existing /\ b \in Boards
    BY <1>0 DEF Existing
  <2>4. BoardsTypes' /\ WriteStands'
    BY <1>0, <2>1, <2>2, <2>3 DEF BoardsTypes, WriteStands
  <2>5. BoardsListedOnce' /\ InPlace'
    BY <1>0, <2>1, <2>2, <2>3 DEF BoardsListedOnce, InPlace
  <2> QED
    BY <1>0, <2>1, <2>2, <2>4, <2>5 DEF BoardsInv
<1>5. ASSUME NEW w \in BoardWebs, WebSeesBoards(w) PROVE BoardsInv'
  <2>1. /\ webOrder' = [webOrder EXCEPT ![w] = boardOrder]
        /\ boardStatus' = boardStatus /\ boardOrder' = boardOrder
        /\ activeBoard' = activeBoard /\ runWrite' = runWrite /\ astray' = astray
    BY <1>5 DEF WebSeesBoards
  <2>2. Existing' = Existing /\ Shown' = Shown /\ FirstBoards'
    BY <1>0, <2>1 DEF Existing, Shown, FirstBoards
  <2>3. boardOrder \in Orders /\ ToSet(boardOrder) \subseteq Existing
    BY <1>0, OrderBounded DEF BoardsTypes, BoardsListedOnce
  <2>4. webOrder' \in [BoardWebs -> Orders]
        /\ \A v \in BoardWebs : webOrder'[v] = IF v = w THEN boardOrder ELSE webOrder[v]
    BY <1>0, <2>1, <2>3 DEF BoardsTypes
  <2>5. BoardsTypes' /\ WriteStands'
    BY <1>0, <2>1, <2>2, <2>4 DEF BoardsTypes, WriteStands
  <2>6. BoardsListedOnce' /\ InPlace'
    BY <1>0, <2>1, <2>2 DEF BoardsListedOnce, InPlace
  <2>7. \A v \in BoardWebs : ToSet(webOrder'[v]) \subseteq Existing'
    BY <1>0, <2>2, <2>3, <2>4
  <2> QED
    BY <2>2, <2>5, <2>6, <2>7 DEF BoardsInv
<1>6. ASSUME NEW w \in BoardWebs, NEW s \in {"draft", "active", "completed", "archived"},
             UpdateBoard(w, s)
      PROVE  BoardsInv'
  <2>1. PICK b \in ToSet(webOrder[w]) :
          /\ boardStatus' = [boardStatus EXCEPT ![b] = s]
          /\ astray' = IF "archived" \in {s, boardStatus[b]} THEN astray \cup {b} ELSE astray
          /\ boardOrder' = boardOrder /\ activeBoard' = activeBoard
          /\ webOrder' = webOrder /\ runWrite' = runWrite
    BY <1>6 DEF UpdateBoard
  <2>2. b \in Existing /\ b \in Boards
    BY <1>0 DEF Existing
  <2>3. boardStatus' \in [Boards -> {"none", "draft", "active", "completed", "archived"}]
        /\ \A c \in Boards : boardStatus'[c] = IF c = b THEN s ELSE boardStatus[c]
    BY <1>0, <2>1, <2>2 DEF BoardsTypes
  <2>4. Existing' = Existing /\ FirstBoards'
    BY <2>2, <2>3, SameBoards DEF Existing
  <2>5. /\ astray \subseteq astray'
        /\ \A c \in Boards : c \notin astray' => (c \in Shown' <=> c \in Shown)
        /\ Shown \subseteq Shown' \cup astray' /\ Shown' \subseteq Shown \cup astray'
    BY <2>1, <2>2, <2>3, <2>4 DEF Shown, Existing
  <2>6. BoardsTypes' /\ WriteStands'
    BY <1>0, <2>1, <2>2, <2>3, <2>4 DEF BoardsTypes, WriteStands, Existing
  <2>7. BoardsListedOnce' /\ InPlace'
    BY <1>0, <2>1, <2>4, <2>5 DEF BoardsListedOnce, InPlace
  <2> QED
    BY <1>0, <2>1, <2>4, <2>6, <2>7 DEF BoardsInv
<1>7. CASE Scaffold
  <2>1. /\ boardStatus' = [boardStatus EXCEPT ![1] = "draft"]
        /\ boardOrder' = <<1>> /\ activeBoard' = 1
        /\ astray' = (astray \cup Shown) \ {1}
        /\ webOrder' = webOrder /\ runWrite' = runWrite
    BY <1>7 DEF Scaffold, Scaffolded
  <2>2. 1 \in Boards /\ 1 \in Existing
    BY <1>0, BoardsAssumption DEF FirstBoards, Boards
  <2>3. boardStatus' \in [Boards -> {"none", "draft", "active", "completed", "archived"}]
        /\ \A c \in Boards : boardStatus'[c] = IF c = 1 THEN "draft" ELSE boardStatus[c]
    BY <1>0, <2>1, <2>2 DEF BoardsTypes
  <2>4. Existing' = Existing /\ FirstBoards'
    BY <2>2, <2>3, SameBoards DEF Existing
  <2>5. Shown' = Shown \cup {1}
    BY <2>2, <2>3, <2>4 DEF Shown, Existing
  <2>6. <<1>> \in Seq(Boards) /\ ToSet(<<1>>) = {1} /\ IsInjective(<<1>>)
    <3>1. <<1>> \in Seq(Boards) /\ Len(<<1>>) = 1 /\ <<1>>[1] = 1 /\ DOMAIN <<1>> = {1}
      BY <2>2
    <3> QED
      BY <3>1 DEF IsInjective, ToSet
  <2>9. astray' \subseteq Boards
    BY <1>0, <2>1 DEF BoardsTypes, Shown, Existing
  <2>10. BoardsTypes'
    BY <1>0, <2>1, <2>2, <2>3, <2>6, <2>9 DEF BoardsTypes
  <2>11. WriteStands'
    BY <1>0, <2>1, <2>3, <2>4 DEF WriteStands, Existing
  <2>7. BoardsTypes' /\ WriteStands'
    BY <2>10, <2>11
  <2>8. BoardsListedOnce' /\ InPlace'
    BY <1>0, <2>1, <2>2, <2>4, <2>5, <2>6 DEF BoardsListedOnce, InPlace
  <2> QED
    BY <1>0, <2>1, <2>4, <2>7, <2>8 DEF BoardsInv
<1>8. CASE RunWrites
  <2> DEFINE b == runWrite.board
  <2>1. /\ runWrite # NoWrite
        /\ boardStatus' = [boardStatus EXCEPT ![b] = runWrite.to]
        /\ runWrite' \in {NoWrite, [runWrite EXCEPT !.to = "completed"]}
        /\ boardOrder' = boardOrder /\ activeBoard' = activeBoard
        /\ webOrder' = webOrder /\ astray' = astray
    BY <1>8 DEF RunWrites
  <2>2. /\ b \in Existing /\ b \in Boards /\ runWrite.to \in {"active", "completed"}
        /\ boardStatus[b] = "archived" => b \in astray
    BY <1>0, <2>1 DEF WriteStands, BoardsTypes, Existing
  <2>3. boardStatus' \in [Boards -> {"none", "draft", "active", "completed", "archived"}]
        /\ \A c \in Boards : boardStatus'[c] = IF c = b THEN runWrite.to ELSE boardStatus[c]
    BY <1>0, <2>1, <2>2 DEF BoardsTypes
  <2>4. Existing' = Existing /\ FirstBoards'
    BY <2>2, <2>3, SameBoards DEF Existing
  <2>5. Shown \subseteq Shown' /\ Shown' \subseteq Shown \cup astray
    BY <2>2, <2>3, <2>4 DEF Shown, Existing
  <2>6. runWrite' \in [board : {0} \cup Boards, to : {"none", "active", "completed"}]
        /\ (runWrite' # NoWrite => runWrite'.board = b /\ runWrite'.to = "completed")
    BY <1>0, <2>1 DEF BoardsTypes, NoWrite
  <2> HIDE DEF b
  <2>7. BoardsTypes' /\ WriteStands'
    BY <1>0, <2>1, <2>2, <2>3, <2>4, <2>6 DEF BoardsTypes, WriteStands
  <2>8. BoardsListedOnce' /\ InPlace'
    BY <1>0, <2>1, <2>4, <2>5 DEF BoardsListedOnce, InPlace
  <2> QED
    BY <1>0, <2>1, <2>4, <2>7, <2>8 DEF BoardsInv
<1>9. CASE UNCHANGED boardVars
  <2>1. Existing' = Existing /\ Shown' = Shown
    BY <1>9 DEF boardVars, Existing, Shown
  <2> QED
    BY <1>0, <1>9, <2>1 DEF boardVars, BoardsInv, BoardsTypes, FirstBoards, WriteStands,
         BoardsListedOnce, InPlace
<1> QED
  BY <1>1, <1>2, <1>3, <1>4, <1>5, <1>6, <1>7, <1>8, <1>9, HideInv, ShowInv, ReorderInv
     DEF BoardsNext

\* No board is listed twice and each that is named has its files; and the two kinds of
\* file agree about every board but those of which a step is known to have put them out
\* of step (a stale order, a status set or unset as archived by itself, an archive under
\* a write of the executor, a second scaffold), until it is archived or restored
\* (plan-board-handlers.ts), for any number of webs and boards.
THEOREM BoardsInPlaceHolds == BoardsSpec => []BoardsInPlace
<1>1. BoardsInv => BoardsInPlace
  <2> SUFFICES ASSUME BoardsInv PROVE BoardsInPlace
    OBVIOUS
  <2>1. boardOrder \in Orders
    BY OrderBounded DEF BoardsInv, BoardsTypes, BoardsListedOnce
  <2> QED
    BY <2>1 DEF BoardsInv, BoardsTypes, BoardsTypeOK, BoardsInPlace, InPlace, Orders,
         BoundedSeq, SeqOf
<1> QED
  BY <1>1, BoardsInitInv, BoardsStep, PTL DEF BoardsSpec
================================================================================
