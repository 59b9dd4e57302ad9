----------------------------- MODULE EnginesProofs -----------------------------
(* The theorems about the engines, for every value of their constants.          *)
(*   OpenCodeServer: no subprocess is left without an owner but those whose      *)
(*     starts overlapped, after a start() that came while a restart waited       *)
(*   ResilientRun: a retry resumes the run's own session, and a run never        *)
(*     returns less than it had                                                  *)
(*   OpenCodeEngine: it implements the contract of every engine                  *)
(*   Bouncer: only decisions are cached, one for an operation                    *)
(*   Questions: the user's first answer reaches the agent                        *)
(*   HeadlessStream: every piece of text is accounted for, in its order          *)
(*   Engines: every part keeps its fields and counters within their limits       *)
EXTENDS Engines, SequenceTheorems, TLAPS

--------------------------------------------------------------------------------
\* The subprocess of OpenCodeServer.

\* The records of the manager and of a subprocess.
ServerRecords ==
  [status : {"idle", "starting", "ready", "restarting", "failed", "shutdown"},
   proc : ServerProcs \cup {NoProc}, url : BOOLEAN,
   promise : BOOLEAN, timers : Nat, attempts : Nat, down : BOOLEAN]
ProcRecords ==
  [life : {"none", "alive", "stopping"},
   phase : {"over", "line", "health", "answered", "ready"}, restart : BOOLEAN]

\* A start of it is under way.
InStart(p) == serverProcess[p].phase \in {"line", "health", "answered"}

\* One owner at a time: what lives is the manager's, which holds one subprocess
\* while it starts or is ready and none while a restart waits; once shut down,
\* nothing is alive that was not told to stop.
OneOwner ==
  /\ overlapped = {}
  /\ \A p \in ServerProcs : serverProcess[p].life = "alive" => server.proc = p
  /\ server.down => \A p \in ServerProcs : serverProcess[p].life # "alive"
  /\ ~ server.down =>
       /\ \A p \in ServerProcs : InStart(p) => server.proc = p /\ server.promise
       /\ server.promise => server.proc \in ServerProcs /\ InStart(server.proc)
       /\ server.timers # 0 =>
            server.timers = 1 /\ server.proc = NoProc /\ ~ server.promise
       /\ server.proc # NoProc => server.promise \/ server.status = "ready"

ServerInv == ~ startMet /\ ServerTypeOK /\ OneOwner

\* What a failed start and a restart leave of the record.
LEMMA RescheduledType ==
  ASSUME NEW s \in ServerRecords
  PROVE  /\ Rescheduled(s) \in ServerRecords
         /\ Rescheduled(s).proc = s.proc /\ Rescheduled(s).promise = s.promise
         /\ Rescheduled(s).down = s.down
         /\ Rescheduled(s).timers \in {s.timers, s.timers + 1}
<1> DEFINE failed == [s EXCEPT !.attempts = @ + 1, !.status = "failed"]
           again == [s EXCEPT !.attempts = @ + 1, !.status = "restarting", !.timers = @ + 1]
<1>1. Rescheduled(s) \in {s, failed, again}
  BY DEF Rescheduled
<1>2. /\ failed \in ServerRecords /\ failed.proc = s.proc /\ failed.promise = s.promise
      /\ failed.down = s.down /\ failed.timers = s.timers
  <2> DEFINE one == [s EXCEPT !.attempts = @ + 1]
  <2>1. one \in ServerRecords /\ one.proc = s.proc /\ one.promise = s.promise
        /\ one.down = s.down /\ one.timers = s.timers
    BY DEF ServerRecords
  <2>2. failed = [one EXCEPT !.status = "failed"]
    BY DEF ServerRecords
  <2> HIDE DEF one, failed
  <2> QED
    BY <2>1, <2>2 DEF ServerRecords
<1>3. /\ again \in ServerRecords /\ again.proc = s.proc /\ again.promise = s.promise
      /\ again.down = s.down /\ again.timers = s.timers + 1
  <2> DEFINE one == [s EXCEPT !.attempts = @ + 1]
             two == [one EXCEPT !.status = "restarting"]
  <2>1. one \in ServerRecords /\ one.proc = s.proc /\ one.promise = s.promise
        /\ one.down = s.down /\ one.timers = s.timers
    BY DEF ServerRecords
  <2>2. again = [two EXCEPT !.timers = @ + 1]
    BY DEF ServerRecords
  <2> HIDE DEF one
  <2>3. two \in ServerRecords /\ two.proc = s.proc /\ two.promise = s.promise
        /\ two.down = s.down /\ two.timers = s.timers
    BY <2>1 DEF ServerRecords
  <2> HIDE DEF two, again
  <2> QED
    BY <2>2, <2>3 DEF ServerRecords
<1> HIDE DEF failed, again
<1> QED
  BY <1>1, <1>2, <1>3

\* A spawn and a failed start write records of their types.
LEMMA SpawnTyped ==
  ASSUME ServerTypeOK, NEW p \in ServerProcs, NEW s \in ServerRecords, NEW r \in BOOLEAN,
         SpawnOnce(p, s, r)
  PROVE  /\ server' \in ServerRecords /\ serverProcess' \in [ServerProcs -> ProcRecords]
         /\ overlapped' \subseteq ServerProcs
<1>1. server' \in ServerRecords
  BY DEF SpawnOnce, ServerRecords
<1>2. [life |-> "alive", phase |-> "line", restart |-> r] \in ProcRecords
  BY DEF ProcRecords
<1>3. serverProcess' \in [ServerProcs -> ProcRecords]
  BY <1>2 DEF SpawnOnce, ServerTypeOK, ProcRecords
<1>4. overlapped' \subseteq ServerProcs
  BY DEF SpawnOnce, Others, ServerTypeOK
<1> QED
  BY <1>1, <1>3, <1>4

\* A failed start frees the manager and its process.
LEMMA FailedTyped ==
  ASSUME ServerTypeOK, NEW p \in ServerProcs, NEW life \in {"none", "alive", "stopping"},
         FailedStartup(p, life)
  PROVE  server' \in ServerRecords /\ serverProcess' \in [ServerProcs -> ProcRecords]
<1>1. [server EXCEPT !.proc = NoProc, !.promise = FALSE] \in ServerRecords
  BY DEF ServerTypeOK, ServerRecords
<1>2. server' \in ServerRecords
  BY <1>1, RescheduledType DEF FailedStartup
<1>3. (IF life = "none" THEN Gone
       ELSE [life |-> Killed(life), phase |-> "over", restart |-> FALSE]) \in ProcRecords
  BY DEF ProcRecords, Gone, Killed
<1>4. serverProcess' \in [ServerProcs -> ProcRecords]
  BY <1>3 DEF FailedStartup, ServerTypeOK, ProcRecords, Gone, Killed
<1> QED
  BY <1>2, <1>4

\* The types, one case for each action.
LEMMA ServerTypeStep ==
  ASSUME ServerTypeOK, [ServerNext]_serverVars
  PROVE  ServerTypeOK'
<1>1. /\ server \in ServerRecords /\ serverProcess \in [ServerProcs -> ProcRecords]
      /\ serverCrashes \in 0..MaxServerCrashes
      /\ startMet \in BOOLEAN /\ overlapped \subseteq ServerProcs
      /\ \A p \in ServerProcs : /\ serverProcess[p] \in ProcRecords
                                /\ serverProcess[p].life \in {"none", "alive", "stopping"}
  BY DEF ServerTypeOK, ServerRecords, ProcRecords
<1>2. ASSUME server' \in ServerRecords, serverProcess' \in [ServerProcs -> ProcRecords],
             serverCrashes' \in 0..MaxServerCrashes,
             startMet' \in BOOLEAN, overlapped' \subseteq ServerProcs
      PROVE  ServerTypeOK'
  BY <1>2 DEF ServerTypeOK, ServerRecords, ProcRecords
<1>3. CASE ServerShutdown
  BY <1>1, <1>2, <1>3 DEF ServerShutdown, ServerRecords, ProcRecords, Killed
<1>4. ASSUME NEW p \in ServerProcs, ServerStart(p) PROVE ServerTypeOK'
  BY <1>1, <1>2, <1>4, SpawnTyped DEF ServerStart
<1>5. ASSUME NEW p \in ServerProcs, RestartTimer(p) PROVE ServerTypeOK'
  <2>1. [server EXCEPT !.timers = @ - 1] \in ServerRecords
    <3>1. server.timers - 1 \in Nat
      BY <1>1, <1>5 DEF RestartTimer, ServerRecords
    <3> QED
      BY <1>1, <3>1 DEF ServerRecords
  <2>2. /\ server' \in ServerRecords /\ serverProcess' \in [ServerProcs -> ProcRecords]
        /\ overlapped' \subseteq ServerProcs
    BY <1>1, <1>5, <2>1, SpawnTyped DEF RestartTimer
  <2> QED
    BY <1>1, <1>2, <1>5, <2>2 DEF RestartTimer
<1>6. ASSUME NEW p \in ServerProcs, ReadinessLine(p) PROVE ServerTypeOK'
  <2>1. CASE serverProcess' = [serverProcess EXCEPT ![p].phase = "health"] /\ UNCHANGED server
    BY <1>1, <1>2, <1>6, <2>1 DEF ReadinessLine, ProcRecords
  <2>2. CASE FailedStartup(p, serverProcess[p].life) \/ FailedStartup(p, "none")
    BY <1>1, <1>2, <1>6, <2>2, FailedTyped DEF ReadinessLine
  <2> QED
    BY <1>6, <2>1, <2>2 DEF ReadinessLine
<1>7. ASSUME NEW p \in ServerProcs, ProbeAnswered(p) PROVE ServerTypeOK'
  BY <1>1, <1>2, <1>7 DEF ProbeAnswered, ProcRecords
<1>8. ASSUME NEW p \in ServerProcs, ProbesFail(p) PROVE ServerTypeOK'
  BY <1>1, <1>2, <1>8, FailedTyped DEF ProbesFail
<1>9. ASSUME NEW p \in ServerProcs, ServerReady(p) PROVE ServerTypeOK'
  BY <1>1, <1>2, <1>9 DEF ServerReady, ServerRecords, ProcRecords, Gone
<1>10. ASSUME NEW p \in ServerProcs, ServerExit(p) PROVE ServerTypeOK'
  <2>1. serverProcess' \in [ServerProcs -> ProcRecords]
    BY <1>1, <1>10 DEF ServerExit, ProcRecords, Gone
  <2>2. server' \in ServerRecords
    <3>1. [server EXCEPT !.proc = NoProc, !.url = FALSE] \in ServerRecords
      BY <1>1 DEF ServerRecords
    <3> QED
      BY <1>1, <1>10, <3>1, RescheduledType DEF ServerExit
  <2>3. serverCrashes' \in 0..MaxServerCrashes
    BY <1>1, <1>10, ServerAssumption DEF ServerExit
  <2>4. UNCHANGED <<startMet, overlapped>>
    BY <1>10 DEF ServerExit
  <2> QED
    BY <1>1, <1>2, <2>1, <2>2, <2>3, <2>4
<1>11. CASE UNCHANGED serverVars
  BY <1>11 DEF serverVars, ServerTypeOK
<1> QED
  BY <1>3, <1>4, <1>5, <1>6, <1>7, <1>8, <1>9, <1>10, <1>11 DEF ServerNext

\* At first nothing runs.
LEMMA ServerTypeInit == ServerInit => ServerTypeOK
<1> SUFFICES ASSUME ServerInit PROVE ServerTypeOK
  OBVIOUS
<1>1. startMet \in BOOLEAN /\ overlapped \subseteq ServerProcs
  BY DEF ServerInit
<1>2. serverCrashes \in 0..MaxServerCrashes
  BY ServerAssumption DEF ServerInit, ServerAssumption
<1>3. server \in ServerRecords /\ serverProcess \in [ServerProcs -> ProcRecords]
  BY DEF ServerInit, ServerRecords, ProcRecords, Gone
<1> QED
  BY <1>1, <1>2, <1>3 DEF ServerTypeOK, ServerRecords, ProcRecords

--------------------------------------------------------------------------------
\* No two starts overlap while no start() has met a waiting restart.

\* At first nothing runs.
LEMMA ServerInitInv == ServerInit => ServerInv
<1> SUFFICES ASSUME ServerInit PROVE ServerInv
  OBVIOUS
<1>1. ~ startMet
  BY DEF ServerInit
<1>2. OneOwner
  BY DEF ServerInit, OneOwner, InStart, Gone
<1> QED
  BY <1>1, <1>2, ServerTypeInit DEF ServerInv

\* A spawn while nothing runs or starts.
LEMMA SpawnInv ==
  ASSUME ServerInv, NEW p \in ServerProcs, NEW s \in ServerRecords, NEW restart \in BOOLEAN,
         SpawnOnce(p, s, restart), UNCHANGED <<serverCrashes, startMet>>,
         server.proc = NoProc, ~ server.down, ~ s.down, s.timers = 0,
         \A q \in ServerProcs : serverProcess[q].life # "alive" /\ ~ InStart(q)
  PROVE  ServerInv'
<1> USE ServerAssumption DEF ServerAssumption
<1>1. /\ server' \in ServerRecords /\ server'.proc = p /\ server'.promise /\ ~ server'.down
      /\ server'.timers = 0
  BY DEF SpawnOnce, ServerRecords
<1>2. /\ serverProcess' \in [ServerProcs -> ProcRecords]
      /\ \A q \in ServerProcs : q # p => serverProcess'[q] = serverProcess[q]
      /\ serverProcess'[p].life = "alive" /\ serverProcess'[p].phase = "line"
  BY DEF SpawnOnce, ServerInv, ServerTypeOK, ProcRecords
<1>5. overlapped' = {}
  <2>1. Others = {}
    BY DEF Others, Starting, InStart, NoProc
  <2> QED
    BY <2>1 DEF SpawnOnce, ServerInv, OneOwner
<1>3. ServerTypeOK'
  BY <1>1, <1>2, <1>5 DEF ServerInv, ServerTypeOK, ServerRecords, ProcRecords
<1>4. OneOwner'
  BY <1>1, <1>2, <1>5 DEF OneOwner, InStart, NoProc
<1> QED
  BY <1>3, <1>4 DEF ServerInv

\* A start that failed.
LEMMA FailedInv ==
  ASSUME ServerInv, NEW p \in ServerProcs, NEW life \in {"none", "alive", "stopping"},
         life \in {"none", serverProcess[p].life}, InStart(p), FailedStartup(p, life),
         UNCHANGED <<serverCrashes, startMet, overlapped>>
  PROVE  ServerInv'
<1> DEFINE s == [server EXCEPT !.proc = NoProc, !.promise = FALSE]
<1>1. /\ s \in ServerRecords /\ s.proc = NoProc /\ ~ s.promise /\ s.down = server.down
      /\ s.timers = server.timers
  BY DEF ServerInv, ServerTypeOK, ServerRecords
<1>0. ~ server.down => server.timers = 0
  BY ServerAssumption DEF ServerInv, OneOwner, NoProc, ServerAssumption
<1>2. /\ server' \in ServerRecords /\ server'.proc = NoProc /\ ~ server'.promise
      /\ server'.down = server.down /\ (~ server.down => server'.timers \in {0, 1})
  <2>1. server' \in {s, Rescheduled(s)}
    BY DEF FailedStartup
  <2> HIDE DEF s
  <2> QED
    BY <1>0, <1>1, <2>1, RescheduledType
<1>3. /\ serverProcess' \in [ServerProcs -> ProcRecords]
      /\ \A q \in ServerProcs : q # p => serverProcess'[q] = serverProcess[q]
      /\ serverProcess'[p].life # "alive" /\ serverProcess'[p].phase = "over"
  BY DEF FailedStartup, ServerInv, ServerTypeOK, ProcRecords, Gone, Killed
<1>4. ServerTypeOK'
  BY <1>2, <1>3 DEF ServerInv, ServerTypeOK, ServerRecords, ProcRecords
<1>5. \A q \in ServerProcs : serverProcess'[q].life # "alive"
  BY <1>3 DEF ServerInv, OneOwner, InStart
<1>6. ~ server.down => \A q \in ServerProcs : ~ InStart(q)'
  BY <1>3 DEF ServerInv, OneOwner, InStart
<1>8. overlapped' = {} /\ ~ startMet'
  BY DEF ServerInv, OneOwner
<1>7. OneOwner'
  BY <1>2, <1>5, <1>6, <1>8 DEF OneOwner
<1> QED
  BY <1>4, <1>7, <1>8 DEF ServerInv

\* One case for each action.
LEMMA ServerStep == ServerInv /\ [ServerNext]_serverVars /\ ~ startMet' => ServerInv'
<1> SUFFICES ASSUME ServerInv, [ServerNext]_serverVars, ~ startMet' PROVE ServerInv'
  OBVIOUS
<1>0. /\ server \in ServerRecords /\ serverProcess \in [ServerProcs -> ProcRecords]
      /\ serverCrashes \in 0..MaxServerCrashes /\ NoProc \notin ServerProcs
  BY ServerAssumption DEF ServerInv, ServerTypeOK, ServerRecords, ProcRecords, NoProc, ServerAssumption
<1>1. ASSUME NEW p \in ServerProcs, ServerStart(p) PROVE ServerInv'
  <2>1. /\ ~ server.down /\ server.timers = 0 /\ ~ server.promise /\ server.proc = NoProc
        /\ SpawnOnce(p, server, FALSE) /\ UNCHANGED <<serverCrashes, startMet>>
    <3>1. /\ ~ server.down /\ ~ server.promise /\ SpawnOnce(p, server, FALSE)
          /\ ~ (server.status = "ready" /\ server.proc # NoProc) /\ UNCHANGED serverCrashes
          /\ startMet' = (startMet \/ server.timers > 0)
      BY <1>1 DEF ServerStart
    <3>2. server.proc = NoProc
      BY <3>1 DEF ServerInv, OneOwner
    <3>3. ~ (server.timers > 0) /\ startMet' = startMet
      <4>1. ~ startMet /\ startMet \in BOOLEAN
        BY DEF ServerInv, ServerTypeOK
      <4> QED
        BY <3>1, <4>1, Zenon
    <3>4. server.timers = 0
      BY <1>0, <3>3 DEF ServerRecords
    <3> QED
      BY <3>1, <3>2, <3>3, <3>4
  <2>2. \A q \in ServerProcs : serverProcess[q].life # "alive" /\ ~ InStart(q)
    BY <1>0, <2>1 DEF ServerInv, OneOwner
  <2> QED
    BY <1>0, <2>1, <2>2, SpawnInv
<1>2. ASSUME NEW p \in ServerProcs, RestartTimer(p) PROVE ServerInv'
  <2>1. CASE server.down
    <3>1. /\ server' \in ServerRecords /\ server'.down
          /\ UNCHANGED <<serverProcess, serverCrashes, startMet, overlapped>>
      BY <1>0, <1>2, <2>1 DEF RestartTimer, ServerRecords
    <3> QED
      BY <1>0, <2>1, <3>1
         DEF ServerInv, ServerTypeOK, ServerRecords, OneOwner
  <2>2. CASE ~ server.down
    <3> DEFINE s == [server EXCEPT !.timers = @ - 1]
    <3>1. /\ server.timers = 1 /\ server.proc = NoProc /\ ~ server.promise
          /\ SpawnOnce(p, s, TRUE) /\ UNCHANGED <<serverCrashes, startMet>>
      <4>1. server.timers # 0
        BY <1>0, <1>2 DEF RestartTimer, ServerRecords
      <4>3. SpawnOnce(p, s, TRUE) /\ UNCHANGED <<serverCrashes, startMet>>
        BY <1>2, <2>2 DEF RestartTimer
      <4> HIDE DEF s
      <4> QED
        BY <2>2, <4>1, <4>3 DEF ServerInv, OneOwner
    <3>2. s \in ServerRecords /\ s.timers = 0 /\ ~ s.down
      BY <1>0, <2>2, <3>1 DEF ServerRecords
    <3>3. \A q \in ServerProcs : serverProcess[q].life # "alive" /\ ~ InStart(q)
      BY <1>0, <2>2, <3>1 DEF ServerInv, OneOwner
    <3> HIDE DEF s
    <3> QED
      BY <2>2, <3>1, <3>2, <3>3, SpawnInv
  <2> QED
    BY <2>1, <2>2
<1>3. ASSUME NEW p \in ServerProcs, ReadinessLine(p) \/ ProbesFail(p) PROVE ServerInv'
  <2>1. CASE \E life \in {"none", serverProcess[p].life} : FailedStartup(p, life)
    <3>1. serverProcess[p].life \in {"none", "alive", "stopping"}
      BY <1>0 DEF ProcRecords
    <3> QED
      BY <1>3, <2>1, <3>1, FailedInv DEF ReadinessLine, ProbesFail, InStart
  <2>2. CASE /\ serverProcess[p].phase = "line"
             /\ serverProcess' = [serverProcess EXCEPT ![p].phase = "health"]
             /\ UNCHANGED <<server, serverCrashes, startMet, overlapped>>
    <3>1. /\ serverProcess' \in [ServerProcs -> ProcRecords]
          /\ \A q \in ServerProcs : /\ serverProcess'[q].life = serverProcess[q].life
                                    /\ InStart(q)' <=> InStart(q)
      BY <1>0, <2>2 DEF ProcRecords, InStart
    <3> QED
      BY <2>2, <3>1 DEF ServerInv, ServerTypeOK, ProcRecords, OneOwner
  <2> QED
    BY <1>3, <2>1, <2>2 DEF ReadinessLine, ProbesFail
<1>4. ASSUME NEW p \in ServerProcs, ProbeAnswered(p) PROVE ServerInv'
  <2>1. /\ serverProcess' \in [ServerProcs -> ProcRecords]
        /\ \A q \in ServerProcs : /\ serverProcess'[q].life = serverProcess[q].life
                                  /\ InStart(q)' <=> InStart(q)
        /\ UNCHANGED <<server, serverCrashes, startMet, overlapped>>
    BY <1>0, <1>4 DEF ProbeAnswered, ProcRecords, InStart
  <2> QED
    BY <2>1 DEF ServerInv, ServerTypeOK, ProcRecords, OneOwner
<1>5. ASSUME NEW p \in ServerProcs, ServerReady(p) PROVE ServerInv'
  <2>1. /\ server' \in ServerRecords /\ server'.status = "ready" /\ ~ server'.promise
        /\ server'.proc = server.proc /\ server'.timers = server.timers
        /\ server'.down = server.down /\ UNCHANGED <<serverCrashes, startMet, overlapped>>
    BY <1>0, <1>5 DEF ServerReady, ServerRecords
  <2>2. /\ serverProcess' \in [ServerProcs -> ProcRecords]
        /\ \A q \in ServerProcs : q # p => serverProcess'[q] = serverProcess[q]
        /\ serverProcess'[p].life = serverProcess[p].life /\ ~ InStart(p)'
        /\ InStart(p)
    BY <1>0, <1>5 DEF ServerReady, ProcRecords, Gone, InStart
  <2>3. ServerTypeOK'
    BY <2>1, <2>2 DEF ServerInv, ServerTypeOK, ServerRecords, ProcRecords
  <2>4. OneOwner'
    BY <2>1, <2>2 DEF ServerInv, OneOwner, InStart
  <2> QED
    BY <2>3, <2>4 DEF ServerInv
<1>6. ASSUME NEW p \in ServerProcs, ServerExit(p) PROVE ServerInv'
  <2>0. UNCHANGED <<startMet, overlapped>>
    BY <1>6 DEF ServerExit
  <2>1. serverCrashes' \in 0..MaxServerCrashes
    BY <1>0, <1>6, ServerAssumption DEF ServerExit, ServerAssumption
  <2>2. /\ serverProcess' \in [ServerProcs -> ProcRecords]
        /\ \A q \in ServerProcs : q # p => serverProcess'[q] = serverProcess[q]
        /\ serverProcess'[p].life = "none"
        /\ InStart(p)' <=> InStart(p)
    BY <1>0, <1>6 DEF ServerExit, ProcRecords, Gone, InStart
  <2>3. CASE serverProcess[p].phase = "ready" /\ Unexpected(p)
    <3> DEFINE s == [server EXCEPT !.proc = NoProc, !.url = FALSE]
    <3>1. /\ s \in ServerRecords /\ s.proc = NoProc /\ s.promise = server.promise
          /\ s.down = server.down /\ s.timers = server.timers
      BY <1>0 DEF ServerRecords
    <3>3. ~ server.promise /\ server.proc = p /\ ~ server.down /\ server.timers = 0
      BY <1>0, <2>3 DEF Unexpected, ServerInv, OneOwner, InStart
    <3>2. /\ server' \in ServerRecords /\ server'.proc = NoProc
          /\ ~ server'.promise /\ ~ server'.down /\ server'.timers \in {0, 1}
      <4>1. server' = Rescheduled(s)
        BY <1>6, <2>3 DEF ServerExit
      <4> HIDE DEF s
      <4> QED
        BY <3>1, <3>3, <4>1, RescheduledType
    <3>4. \A q \in ServerProcs : serverProcess'[q].life # "alive" /\ ~ InStart(q)'
      BY <2>2, <2>3, <3>3 DEF ServerInv, OneOwner, InStart
    <3>5. ServerTypeOK'
      BY <2>0, <2>1, <2>2, <3>2 DEF ServerInv, ServerTypeOK, ServerRecords, ProcRecords
    <3>6. OneOwner'
      BY <2>0, <3>2, <3>3, <3>4 DEF ServerInv, OneOwner
    <3> QED
      BY <2>0, <3>5, <3>6 DEF ServerInv
  <2>4. CASE ~ (serverProcess[p].phase = "ready" /\ Unexpected(p))
    <3>1. server' = server
      BY <1>6, <2>4 DEF ServerExit
    <3>2. ServerTypeOK'
      BY <1>0, <2>0, <2>1, <2>2, <3>1 DEF ServerInv, ServerTypeOK, ServerRecords, ProcRecords
    <3>3. OneOwner'
      BY <1>0, <2>0, <2>2, <3>1 DEF ServerInv, OneOwner, InStart
    <3> QED
      BY <2>0, <3>2, <3>3 DEF ServerInv
  <2> QED
    BY <2>3, <2>4
<1>7. CASE ServerShutdown
  <2>1. /\ server' \in ServerRecords /\ server'.down
        /\ UNCHANGED <<serverCrashes, startMet, overlapped>>
    BY <1>0, <1>7 DEF ServerShutdown, ServerRecords
  <2>2. /\ serverProcess' \in [ServerProcs -> ProcRecords]
        /\ \A q \in ServerProcs : serverProcess'[q].life # "alive"
    <3>1. \A q \in ServerProcs : serverProcess[q] \in ProcRecords
      BY <1>0
    <3>2. serverProcess' = [q \in ServerProcs |->
            IF q = server.proc THEN [serverProcess[q] EXCEPT !.life = Killed(@)]
            ELSE serverProcess[q]]
      BY <1>7 DEF ServerShutdown
    <3>3. ASSUME NEW q \in ServerProcs
          PROVE  serverProcess'[q] \in ProcRecords /\ serverProcess'[q].life # "alive"
      BY <3>1, <3>2 DEF ProcRecords, Killed, ServerInv, OneOwner
    <3> QED
      BY <3>2, <3>3
  <2> QED
    BY <1>0, <2>1, <2>2
       DEF ServerInv, ServerTypeOK, ServerRecords, ProcRecords, OneOwner
<1>8. CASE UNCHANGED serverVars
  BY <1>8 DEF serverVars, ServerInv, ServerTypeOK, OneOwner, InStart
<1> QED
  BY <1>1, <1>2, <1>3, <1>4, <1>5, <1>6, <1>7, <1>8 DEF ServerNext

--------------------------------------------------------------------------------
\* Starts that overlap.

\* Who lives is held or was overlapped with, and was overlapped with if another's
\* start may still fail and let go of it.
Apart ==
  \A p \in ServerProcs : serverProcess[p].life = "alive" =>
    /\ server.proc = p \/ p \in overlapped
    /\ \A q \in ServerProcs \ {p} : Starting(q) => p \in overlapped

OrphanInv == ServerTypeOK /\ Apart /\ (~ startMet => ServerInv)

\* A spawn marks whoever it may part from the manager.
LEMMA SpawnApart ==
  ASSUME ServerTypeOK, Apart, NEW p \in ServerProcs, NEW s \in ServerRecords,
         NEW restart \in BOOLEAN, SpawnOnce(p, s, restart)
  PROVE  Apart'
<1>1. /\ server'.proc = p /\ serverProcess'[p].phase = "line"
      /\ \A q \in ServerProcs \ {p} : serverProcess'[q] = serverProcess[q]
      /\ overlapped' = IF Others = {} THEN overlapped \ {p} ELSE overlapped \cup Others \cup {p}
      /\ serverProcess[p].phase = "over"
  BY DEF SpawnOnce, ServerRecords, ServerTypeOK, Free, Gone
<1>2. ASSUME NEW q \in ServerProcs \ {p}, serverProcess[q].life = "alive"
      PROVE  q \in overlapped'
  BY <1>1, <1>2 DEF Apart, Others
<1>3. ASSUME NEW q \in ServerProcs \ {p}, Starting(q)
      PROVE  p \in overlapped'
  BY <1>1, <1>3 DEF Others
<1>4. \A q \in ServerProcs \ {p} : Starting(q)' <=> Starting(q)
  BY <1>1 DEF Starting
<1> QED
  BY <1>1, <1>2, <1>3, <1>4 DEF Apart

\* A step after which nobody new lives or starts and the manager holds whom it held.
LEMMA KeptApart ==
  ASSUME Apart, UNCHANGED overlapped,
         \A p \in ServerProcs :
           /\ serverProcess'[p].life = "alive" =>
                serverProcess[p].life = "alive" /\ (server.proc = p => server'.proc = p)
           /\ Starting(p)' => Starting(p)
  PROVE  Apart'
BY DEF Apart

\* A failed start lets go only of a subprocess whose start overlapped with it.
LEMMA FailedApart ==
  ASSUME ServerTypeOK, Apart, NEW p \in ServerProcs, NEW life \in {"none", "alive", "stopping"},
         Starting(p), FailedStartup(p, life), UNCHANGED overlapped
  PROVE  Apart'
<1>1. /\ serverProcess'[p].life # "alive" /\ serverProcess'[p].phase = "over"
      /\ \A q \in ServerProcs \ {p} : serverProcess'[q] = serverProcess[q]
  BY DEF FailedStartup, ServerTypeOK, Gone, Killed
<1>2. \A q \in ServerProcs \ {p} : serverProcess[q].life = "alive" => q \in overlapped
  BY DEF Apart
<1> QED
  BY <1>1, <1>2 DEF Apart

\* One case for each action.
LEMMA ApartStep == ServerTypeOK /\ Apart /\ [ServerNext]_serverVars => Apart'
<1> SUFFICES ASSUME ServerTypeOK, Apart, [ServerNext]_serverVars PROVE Apart'
  OBVIOUS
<1>0. /\ server \in ServerRecords /\ serverProcess \in [ServerProcs -> ProcRecords]
      /\ \A p \in ServerProcs : /\ serverProcess[p] \in ProcRecords
                                /\ serverProcess[p].life \in {"none", "alive", "stopping"}
  BY DEF ServerTypeOK, ServerRecords, ProcRecords
<1>1. ASSUME NEW p \in ServerProcs, ServerStart(p) PROVE Apart'
  BY <1>0, <1>1, SpawnApart DEF ServerStart
<1>2. ASSUME NEW p \in ServerProcs, RestartTimer(p) PROVE Apart'
  <2>1. CASE server.down
    <3>1. server'.proc = server.proc /\ UNCHANGED <<serverProcess, overlapped>>
      BY <1>0, <1>2, <2>1 DEF RestartTimer, ServerRecords
    <3> QED
      BY <3>1, KeptApart DEF Starting
  <2>2. CASE ~ server.down
    <3>1. [server EXCEPT !.timers = @ - 1] \in ServerRecords
      <4>1. server.timers - 1 \in Nat
        BY <1>0, <1>2 DEF RestartTimer, ServerRecords
      <4> QED
        BY <1>0, <4>1 DEF ServerRecords
    <3> QED
      BY <1>2, <2>2, <3>1, SpawnApart DEF RestartTimer
  <2> QED
    BY <2>1, <2>2
<1>3. ASSUME NEW p \in ServerProcs, ReadinessLine(p) \/ ProbesFail(p) PROVE Apart'
  <2>0. Starting(p) /\ UNCHANGED overlapped
    BY <1>3 DEF ReadinessLine, ProbesFail, Starting
  <2>1. CASE FailedStartup(p, serverProcess[p].life) \/ FailedStartup(p, "none")
    BY <1>0, <2>0, <2>1, FailedApart
  <2>2. CASE serverProcess' = [serverProcess EXCEPT ![p].phase = "health"] /\ UNCHANGED server
    <3>1. \A q \in ServerProcs : serverProcess'[q].life = serverProcess[q].life
      BY <1>0, <2>2 DEF ProcRecords
    <3>2. \A q \in ServerProcs : Starting(q)' => Starting(q)
      BY <1>0, <2>0, <2>2 DEF ProcRecords, Starting
    <3> QED
      BY <2>0, <2>2, <3>1, <3>2, KeptApart
  <2> QED
    BY <1>3, <2>1, <2>2 DEF ReadinessLine, ProbesFail
<1>4. ASSUME NEW p \in ServerProcs, ProbeAnswered(p) PROVE Apart'
  <2>1. /\ serverProcess' = [serverProcess EXCEPT ![p].phase = "answered"]
        /\ UNCHANGED <<server, overlapped>>
    BY <1>4 DEF ProbeAnswered
  <2>2. \A q \in ServerProcs : serverProcess'[q].life = serverProcess[q].life
    BY <1>0, <2>1 DEF ProcRecords
  <2>3. \A q \in ServerProcs : Starting(q)' => Starting(q)
    BY <1>0, <2>1 DEF ProcRecords, Starting
  <2> QED
    BY <2>1, <2>2, <2>3, KeptApart
<1>5. ASSUME NEW p \in ServerProcs, ServerReady(p) PROVE Apart'
  <2>1. /\ server'.proc = server.proc /\ UNCHANGED overlapped
        /\ \A q \in ServerProcs \ {p} : serverProcess'[q] = serverProcess[q]
    BY <1>0, <1>5 DEF ServerReady, ServerRecords
  <2>2. serverProcess'[p].life = serverProcess[p].life /\ ~ Starting(p)'
    BY <1>0, <1>5 DEF ServerReady, ProcRecords, Starting, Gone
  <2>3. \A q \in ServerProcs : serverProcess'[q].life = serverProcess[q].life
    BY <2>1, <2>2
  <2>4. \A q \in ServerProcs : Starting(q)' => Starting(q)
    BY <2>1, <2>2 DEF Starting
  <2> QED
    BY <2>1, <2>3, <2>4, KeptApart
<1>6. ASSUME NEW p \in ServerProcs, ServerExit(p) PROVE Apart'
  <2>1. /\ \A q \in ServerProcs \ {p} : serverProcess'[q] = serverProcess[q]
        /\ serverProcess'[p].life = "none" /\ (Starting(p)' => Starting(p))
    BY <1>0, <1>6 DEF ServerExit, ProcRecords, Starting, Gone
  <2>2. server'.proc = server.proc \/ server.proc = p
    <3> DEFINE t == [server EXCEPT !.proc = NoProc, !.url = FALSE]
    <3>1. /\ server' \in {server, Rescheduled(t)}
          /\ server' = Rescheduled(t) => server.proc = p \/ server' = server
      BY <1>6 DEF ServerExit, Unexpected
    <3> HIDE DEF t
    <3> QED
      BY <3>1
  <2>3. UNCHANGED overlapped
    BY <1>6 DEF ServerExit
  <2>4. \A q \in ServerProcs : Starting(q)' => Starting(q)
    BY <2>1 DEF Starting
  <2> QED
    BY <2>1, <2>2, <2>3, <2>4, KeptApart
<1>7. CASE ServerShutdown
  <2>1. /\ \A q \in ServerProcs :
             /\ serverProcess'[q].life = "alive" => q # server.proc /\ serverProcess[q].life = "alive"
             /\ Starting(q)' => Starting(q)
        /\ UNCHANGED overlapped
    BY <1>0, <1>7 DEF ServerShutdown, ProcRecords, Killed, Starting
  <2> QED
    BY <2>1, KeptApart
<1>8. CASE UNCHANGED serverVars
  BY <1>8, KeptApart DEF serverVars, Starting
<1> QED
  BY <1>1, <1>2, <1>3, <1>4, <1>5, <1>6, <1>7, <1>8 DEF ServerNext

\* Every subprocess that was not told to stop is the one the manager holds, over
\* failing starts, crashes, restarts and a shutdown in any phase of a start; only
\* those whose starts overlapped may not be, and starts overlap only after a start()
\* that came while a restart waited for its timer (OpenCodeServerManager: start,
\* spawnOnce, scheduleRestart, wireCrashHandler, shutdown).
THEOREM ServerNoOrphanHolds == ServerSpec => []ServerNoOrphan
<1>1. ServerInit => OrphanInv
  BY ServerInitInv, ServerTypeInit DEF OrphanInv, Apart, ServerInit, Gone
<1>2. OrphanInv /\ [ServerNext]_serverVars => OrphanInv'
  <2> SUFFICES ASSUME OrphanInv, [ServerNext]_serverVars PROVE OrphanInv'
    OBVIOUS
  <2>1. startMet => startMet'
    BY DEF ServerNext, serverVars, ServerStart, RestartTimer, ReadinessLine, ProbeAnswered,
           ProbesFail, ServerReady, ServerExit, ServerShutdown
  <2>2. ~ startMet' => ServerInv'
    BY <2>1, ServerStep DEF OrphanInv
  <2> QED
    BY <2>2, ServerTypeStep, ApartStep DEF OrphanInv
<1>3. OrphanInv => ServerNoOrphan
  BY DEF OrphanInv, Apart, ServerInv, OneOwner, ServerNoOrphan, ServerTypeOK
<1> QED
  BY <1>1, <1>2, <1>3, PTL DEF ServerSpec

--------------------------------------------------------------------------------
\* The loop of ResilientRun.

\* The record of a run.
ResilientRecords ==
  [phase : {"idle", "top", "enrich", "process", "judge", "picked", "over", "rejected"},
   policy : Policies, aborted : BOOLEAN, checkpoint : BOOLEAN,
   retries : 0..MaxRetries, continues : 0..MaxAutoContinues,
   resume : {"no", "named", "unknown"},
   last : Results \cup {NoResult}, best : Results \cup {NoResult},
   result : Results \cup {NoResult}]

\* A run without retries never comes to a choice, and until there is an
\* auto-continue no choice has been made.
ChoicesInOrder ==
  /\ resilient.policy = "NONE" =>
       resilient.phase \notin {"judge", "picked"} /\ resilient.continues = 0
  /\ resilient.continues = 0 /\ resilient.phase # "over" => resilient.result = NoResult

ResilientInv == resilient \in ResilientRecords /\ ResumesOwnSession /\ ChoicesInOrder

\* What a choice can be, and what it is no worse than.
LEMMA PickIsKept ==
  ASSUME ResilientInv, resilient.phase = "picked", NEW r \in Picks
  PROVE  /\ r \in Results \cup {NoResult}
         /\ resilient.result # NoResult => r.score >= resilient.result.score
<1>1. r \in Results \cup {NoResult}
  BY DEF ResilientInv, ResilientRecords, Picks, FirstPick, AssessBestResult, Kept, Better
<1>2. resilient.result # NoResult => r.score >= resilient.result.score
  <2> SUFFICES ASSUME resilient.result # NoResult
               PROVE  r.score >= resilient.result.score
    OBVIOUS
  <2>1. resilient.continues # 0
    BY DEF ResilientInv, ChoicesInOrder
  <2>2. r \in Kept(resilient.result)
    BY <2>1 DEF Picks
  <2>3. /\ resilient.result.score \in 0..1
        /\ resilient.last \in Results \cup {NoResult} /\ resilient.last.score \in 0..1
    BY DEF ResilientInv, ResilientRecords, Results, NoResult
  <2> QED
    BY <2>2, <2>3 DEF Kept, Better
<1> QED
  BY <1>1, <1>2

\* The first state, and every step, keep the invariant.
LEMMA ResilientStart == ResilientInit => ResilientInv
BY ResilientAssumption
   DEF ResilientInit, ResilientInv, ResilientRecords, ResumesOwnSession, ChoicesInOrder

\* One case for each action.
LEMMA ResilientStep ==
  ASSUME ResilientInv, [ResilientNext]_resilient
  PROVE  ResilientInv'
<1> USE DEF ResilientInv, ResilientRecords, ResumesOwnSession, ChoicesInOrder
<1>1. CASE Called
  BY <1>1 DEF Called
<1>2. CASE Abort
  BY <1>2 DEF Abort
<1>3. CASE AttemptStarts
  BY <1>3 DEF AttemptStarts
<1>4. CASE AttemptSpawns
  BY <1>4 DEF AttemptSpawns
<1>5. CASE AttemptEnds
  <2>1. PICK r \in Results, killed \in BOOLEAN :
          \/ resilient' = [resilient EXCEPT !.phase = "picked", !.last =
                 IF resilient.best = NoResult THEN r ELSE resilient.best]
          \/ \E b \in {r, resilient.best} :
               resilient' = [resilient EXCEPT !.phase = "judge", !.checkpoint = killed,
                                              !.last = r, !.best = b]
    BY <1>5 DEF AttemptEnds
  <2>2. resilient.policy # "NONE" /\ resilient.phase # "over"
    BY <1>5 DEF AttemptEnds
  <2>3. CASE resilient' = [resilient EXCEPT !.phase = "picked", !.last =
                 IF resilient.best = NoResult THEN r ELSE resilient.best]
    BY <2>2, <2>3
  <2>4. CASE \E b \in {r, resilient.best} :
               resilient' = [resilient EXCEPT !.phase = "judge", !.checkpoint = killed,
                                              !.last = r, !.best = b]
    <3>1. PICK b \in {r, resilient.best} :
            resilient' = [resilient EXCEPT !.phase = "judge", !.checkpoint = killed,
                                           !.last = r, !.best = b]
      BY <2>4
    <3>2. b \in Results \cup {NoResult}
      OBVIOUS
    <3> QED
      BY <2>2, <3>1, <3>2
  <2> QED
    BY <2>1, <2>3, <2>4
<1>13. CASE AttemptRejects
  BY <1>13 DEF AttemptRejects
<1>6. CASE SingleEnds
  <2>1. PICK r \in Results : resilient' = [resilient EXCEPT !.phase = "over", !.result = r]
    BY <1>6 DEF SingleEnds
  <2> QED
    BY <2>1
<1>7. CASE ToolTimeout \/ SignalCrash \/ ContextLoss \/ PrematureCompletion
  <2>1. PICK s \in {"no", "named"} : Retry(s)
    BY <1>7 DEF ToolTimeout, SignalCrash, ContextLoss, PrematureCompletion,
                PrematureCandidate, Session
  <2>2. resilient.phase = "judge" /\ resilient.retries + 1 \in 0..MaxRetries
    BY <1>7, ResilientAssumption
       DEF ToolTimeout, SignalCrash, ContextLoss, PrematureCompletion, MayRetry
  <2> QED
    BY <2>1, <2>2 DEF Retry
<1>9. CASE LoopBreaks \/ LoopAborted
  BY <1>9 DEF LoopBreaks, LoopAborted
<1>10. CASE AutoContinues
  <2>1. PICK r \in Picks :
          /\ resilient.phase = "picked" /\ GoesOn(r)
          /\ resilient' = [resilient EXCEPT
               !.phase = "top", !.continues = @ + 1, !.retries = 0, !.checkpoint = FALSE,
               !.resume = Session(r), !.best = NoResult, !.last = NoResult, !.result = r]
    BY <1>10 DEF AutoContinues
  <2>2. r \in Results \cup {NoResult}
    BY <2>1, PickIsKept
  <2>3. Session(r) = "named"
    BY <2>1 DEF GoesOn, ShouldAutoContinue, Session
  <2>4. resilient.continues + 1 \in 0..MaxAutoContinues /\ 0 \in 0..MaxRetries
    BY <2>1, ResilientAssumption DEF GoesOn
  <2>5. resilient' \in ResilientRecords
    BY <2>1, <2>2, <2>3, <2>4
  <2> QED
    BY <2>1, <2>3, <2>4, <2>5
<1>11. CASE Returns
  <2>1. PICK r \in Picks :
          /\ resilient.phase = "picked"
          /\ resilient' = [resilient EXCEPT !.phase = "over", !.result = r]
    BY <1>11 DEF Returns
  <2>2. r \in Results \cup {NoResult}
    BY <2>1, PickIsKept
  <2> QED
    BY <2>1, <2>2
<1>12. CASE UNCHANGED resilient
  BY <1>12
<1> QED
  BY <1>1, <1>2, <1>3, <1>4, <1>5, <1>6, <1>7, <1>9, <1>10, <1>11, <1>12, <1>13
     DEF ResilientNext

\* Every retry and every auto-continue resumes a session the run's own agent has
\* named or none (resilient-runner.ts), for any number of retries and any policies.
THEOREM ResumesOwnSessionHolds == ResilientSpec => []ResumesOwnSession
<1>1. ResilientInv => ResumesOwnSession
  BY DEF ResilientInv
<1> QED
  BY <1>1, ResilientStart, ResilientStep, PTL DEF ResilientSpec

\* No step of a run costs it a result it already had, except an attempt that rejects.
LEMMA NothingLost ==
  ASSUME ResilientInv, [ResilientNext]_resilient
  PROVE  [resilient.result # NoResult =>
            \/ resilient'.result.score >= resilient.result.score
            \/ resilient.phase = "process" /\ resilient'.phase = "rejected"]_resilient
<1> USE DEF ResilientInv, ResilientRecords
<1> DEFINE Same == resilient'.result = resilient.result
<1>0. resilient.result.score \in 0..1
  BY DEF Results, NoResult
<1>1. CASE Called \/ Abort \/ AttemptStarts \/ AttemptSpawns \/ AttemptEnds
  <2>1. Same
    BY <1>1 DEF Called, Abort, AttemptStarts, AttemptSpawns, AttemptEnds
  <2> QED
    BY <2>1, <1>0
<1>2. CASE ToolTimeout \/ SignalCrash \/ ContextLoss \/ PrematureCompletion
           \/ LoopBreaks \/ LoopAborted
  <2>1. Same
    BY <1>2 DEF ToolTimeout, SignalCrash, ContextLoss, PrematureCompletion, Retry,
                LoopBreaks, LoopAborted
  <2> QED
    BY <2>1, <1>0
<1>3. CASE SingleEnds
  BY <1>3 DEF SingleEnds, ChoicesInOrder
<1>4. CASE AutoContinues
  <2>1. PICK r \in Picks : resilient.phase = "picked" /\ resilient'.result = r
    BY <1>4 DEF AutoContinues
  <2> QED
    BY <2>1, PickIsKept
<1>5. CASE Returns
  <2>1. PICK r \in Picks : resilient.phase = "picked" /\ resilient'.result = r
    BY <1>5 DEF Returns
  <2> QED
    BY <2>1, PickIsKept
<1>6. CASE AttemptRejects
  BY <1>6 DEF AttemptRejects
<1>7. CASE UNCHANGED resilient
  BY <1>7
<1> QED
  BY <1>1, <1>2, <1>3, <1>4, <1>5, <1>6, <1>7 DEF ResilientNext

\* An auto-continue that ends worse or is aborted does not cost the result it continued
\* (resilient-runner.ts), for any budgets; the one step that does is an attempt whose
\* process cannot be spawned, which makes run() reject.
THEOREM NeverReturnsLessHolds == ResilientSpec => NeverReturnsLess
BY ResilientStart, ResilientStep, NothingLost, PTL DEF ResilientSpec, NeverReturnsLess

--------------------------------------------------------------------------------
\* The session of OpenCodeEngine.

\* The record of a session.
EngineRecords ==
  [start : {"new", "server", "create", "subscribe", "started"},
   disposed : BOOLEAN, innerDisposed : BOOLEAN, early : BOOLEAN,
   pump : {"none", "running", "over"},
   closing : {"no", "pump", "delete", "over"}, prompt : {"none", "sending"},
   announced : SUBSET Calls, iterDone : BOOLEAN, queue : Int, waiting : BOOLEAN]

\* What the session counts as announced, its consumer was sent, until the stream
\* has ended for both.
SentIsAnnounced ==
  /\ openCodeStream.done = openCode.iterDone
  /\ ~ openCode.iterDone => openCode.announced \subseteq openCodeStream.begun

OpenCodeInv ==
  openCode \in EngineRecords /\ Contract!ContractTypeOK
  /\ openCodeStream.ended \subseteq openCodeStream.begun /\ SentIsAnnounced

\* What emitting an event and closing the iterator leave of the engine.
LEMMA EmittedKeeps ==
  ASSUME NEW e \in EngineRecords
  PROVE  /\ Emitted(e) \in EngineRecords
         /\ Emitted(e).announced = e.announced /\ Emitted(e).iterDone = e.iterDone
<1>1. Emitted(e) \in {e, [e EXCEPT !.waiting = FALSE], [e EXCEPT !.queue = @ + 1]}
  BY DEF Emitted
<1>2. e.queue \in Int /\ e.queue + 1 \in Int
  BY DEF EngineRecords
<1> QED
  BY <1>1, <1>2 DEF EngineRecords

\* Closing the iterator.
LEMMA ClosedKeeps ==
  ASSUME NEW e \in EngineRecords
  PROVE  /\ ClosedIterator(e) \in EngineRecords
         /\ ClosedIterator(e).announced = e.announced /\ ClosedIterator(e).iterDone
BY DEF ClosedIterator, EngineRecords

\* Announcing a tool call.
LEMMA AnnouncedKeeps ==
  ASSUME NEW e \in EngineRecords, NEW c \in Calls
  PROVE  /\ Announced(e, c) \in EngineRecords
         /\ Announced(e, c).announced = e.announced \cup {c}
         /\ Announced(e, c).iterDone = e.iterDone
<1>1. CASE c \in e.announced
  BY <1>1 DEF Announced
<1>2. CASE c \notin e.announced
  <2> DEFINE f == [e EXCEPT !.announced = @ \cup {c}]
  <2>1. f \in EngineRecords /\ f.announced = e.announced \cup {c} /\ f.iterDone = e.iterDone
    BY DEF EngineRecords
  <2> HIDE DEF f
  <2>2. Announced(e, c) = Emitted(f)
    BY <1>2 DEF Announced, f
  <2> QED
    BY <2>1, <2>2, EmittedKeeps
<1> QED
  BY <1>1, <1>2

\* A step that sends nothing and neither ends the stream nor announces a call.
Quiet ==
  /\ openCode' \in EngineRecords /\ UNCHANGED openCodeStream
  /\ openCode'.announced = openCode.announced /\ openCode'.iterDone = openCode.iterDone

\* Every step of a session is a step of the contract or sends nothing.
LEMMA OpenCodeStep ==
  ASSUME OpenCodeInv, [OpenCodeNext]_openCodeVars
  PROVE  OpenCodeInv' /\ [Contract!ContractNext]_openCodeStream
<1> DEFINE Goal == OpenCodeInv' /\ [Contract!ContractNext]_openCodeStream
<1>0. ASSUME Quiet PROVE Goal
  BY <1>0 DEF Quiet, OpenCodeInv, SentIsAnnounced, Contract!ContractTypeOK
<1>t. openCode \in EngineRecords
  BY DEF OpenCodeInv
<1>s. /\ openCodeStream \in [begun : SUBSET Calls, ended : SUBSET Calls,
                             usage : 0..MaxTokens, done : BOOLEAN]
      /\ openCodeStream.done = openCode.iterDone
      /\ openCodeStream.ended \subseteq openCodeStream.begun
  BY DEF OpenCodeInv, SentIsAnnounced, Contract!ContractTypeOK
\* A step that ends the stream, or comes after its end.
<1>e. ASSUME openCode' \in EngineRecords, openCode'.iterDone,
             Send([openCodeStream EXCEPT !.done = TRUE])
      PROVE  Goal
  <2>1. CASE openCode.iterDone
    BY <1>e, <1>s, <2>1 DEF Send, OpenCodeInv, SentIsAnnounced, Contract!ContractTypeOK
  <2>2. CASE ~ openCode.iterDone
    <3>1. openCodeStream' = [openCodeStream EXCEPT !.done = TRUE]
      BY <1>e, <2>2 DEF Send
    <3>2. OpenCodeInv'
      BY <1>e, <1>s, <3>1 DEF OpenCodeInv, SentIsAnnounced, Contract!ContractTypeOK
    <3>3. Contract!ContractNext
      BY <1>s, <2>2, <3>1 DEF Contract!ContractNext, Contract!EndOfStream
    <3> QED
      BY <3>2, <3>3
  <2> QED
    BY <2>1, <2>2
\* A step that reports the calls b as begun and the calls o as ended.
<1>c. ASSUME NEW b \in SUBSET Calls, NEW o \in SUBSET Calls,
             openCode' \in EngineRecords, openCode'.iterDone = openCode.iterDone,
             ~ openCode.iterDone =>
               /\ openCode'.announced \subseteq b
               /\ openCodeStream.begun \subseteq b /\ openCodeStream.ended \subseteq o
               /\ o \subseteq b,
             Send([openCodeStream EXCEPT !.begun = b, !.ended = o])
      PROVE  Goal
  <2>1. CASE openCode.iterDone
    BY <1>c, <1>s, <2>1 DEF Send, OpenCodeInv, SentIsAnnounced, Contract!ContractTypeOK
  <2>2. CASE ~ openCode.iterDone
    <3>1. openCodeStream' = [openCodeStream EXCEPT !.begun = b, !.ended = o]
      BY <1>c, <2>2 DEF Send
    <3>2. OpenCodeInv'
      BY <1>c, <1>s, <2>2, <3>1 DEF OpenCodeInv, SentIsAnnounced, Contract!ContractTypeOK
    <3>3. Contract!ContractNext
      BY <1>c, <1>s, <2>2, <3>1 DEF Contract!ContractNext, Contract!ToolEvents
    <3> QED
      BY <3>2, <3>3
  <2> QED
    BY <2>1, <2>2
<1>1. CASE StartOpenCode
  BY <1>0, <1>1, <1>t DEF StartOpenCode, Quiet, NothingSent, EngineRecords
<1>2. CASE StartStep
  <2>1. PICK s \in {"new", "create", "subscribe", "started"} :
          openCode' = [openCode EXCEPT !.start = s,
                                       !.pump = IF s = "started" THEN "running" ELSE @]
    BY <1>2 DEF StartStep
  <2>2. UNCHANGED openCodeStream
    BY <1>2 DEF StartStep, NothingSent
  <2> QED
    BY <1>0, <1>t, <2>1, <2>2 DEF Quiet, EngineRecords
<1>3. CASE SendPrompt \/ PromptAccepted
  BY <1>0, <1>3, <1>t DEF SendPrompt, PromptAccepted, Quiet, NothingSent, EngineRecords
<1>4. CASE AbortFails \/ PlainEvent
  BY <1>0, <1>4, <1>t, EmittedKeeps DEF AbortFails, PlainEvent, Quiet, NothingSent
<1>5. ASSUME NEW c \in Calls, ToolRunning(c) PROVE Goal
  <2> DEFINE b == openCodeStream.begun \cup {c}
  <2>1. /\ openCode' \in EngineRecords
        /\ openCode'.announced = openCode.announced \cup {c}
        /\ openCode'.iterDone = openCode.iterDone
    BY <1>5, <1>t, AnnouncedKeeps DEF ToolRunning
  <2>2. ~ openCode.iterDone => AnnounceStart(openCodeStream, c)
                                 = [openCodeStream EXCEPT !.begun = b, !.ended = openCodeStream.ended]
    BY <1>s DEF AnnounceStart, OpenCodeInv, SentIsAnnounced
  <2>3. Send([openCodeStream EXCEPT !.begun = b, !.ended = openCodeStream.ended])
    BY <1>5, <2>2 DEF ToolRunning, Send
  <2>4. /\ b \in SUBSET Calls /\ openCodeStream.ended \in SUBSET Calls
        /\ ~ openCode.iterDone =>
             /\ openCode'.announced \subseteq b
             /\ openCodeStream.begun \subseteq b /\ openCodeStream.ended \subseteq b
    BY <1>s, <2>1 DEF OpenCodeInv, SentIsAnnounced
  <2> HIDE DEF b
  <2> QED
    BY <1>c, <2>1, <2>3, <2>4
<1>6. ASSUME NEW c \in Calls, ToolOver(c) PROVE Goal
  <2> DEFINE b == openCodeStream.begun \cup {c}
             o == openCodeStream.ended \cup {c}
  <2>1. /\ openCode' \in EngineRecords
        /\ openCode'.announced = openCode.announced \cup {c}
        /\ openCode'.iterDone = openCode.iterDone
    BY <1>6, <1>t, AnnouncedKeeps, EmittedKeeps DEF ToolOver
  <2>2. ~ openCode.iterDone =>
          [AnnounceStart(openCodeStream, c) EXCEPT !.ended = @ \cup {c}]
            = [openCodeStream EXCEPT !.begun = b, !.ended = o]
    BY <1>s DEF AnnounceStart, OpenCodeInv, SentIsAnnounced
  <2>3. Send([openCodeStream EXCEPT !.begun = b, !.ended = o])
    BY <1>6, <2>2 DEF ToolOver, Send
  <2>4. /\ b \in SUBSET Calls /\ o \in SUBSET Calls
        /\ ~ openCode.iterDone =>
             /\ openCode'.announced \subseteq b
             /\ openCodeStream.begun \subseteq b /\ openCodeStream.ended \subseteq o
             /\ o \subseteq b
    BY <1>s, <2>1 DEF OpenCodeInv, SentIsAnnounced
  <2> HIDE DEF b, o
  <2> QED
    BY <1>c, <2>1, <2>3, <2>4
<1>7. ASSUME NEW n \in 0..MaxTokens, Tokens(n) PROVE Goal
  <2>1. CASE Counted(n) = openCodeStream.usage
    BY <1>0, <1>7, <1>t, <2>1 DEF Tokens, Quiet, NothingSent
  <2>2. CASE Counted(n) # openCodeStream.usage
    <3>1. /\ openCode' = Emitted(openCode)
          /\ Send([openCodeStream EXCEPT !.usage = Counted(n)])
      BY <1>7, <2>2 DEF Tokens
    <3>2. Counted(n) \in openCodeStream.usage..MaxTokens /\ Counted(n) \in 0..MaxTokens
      BY <1>s, <2>2, OpenCodeAssumption DEF Counted
    <3>3. CASE openCode.iterDone
      BY <1>0, <1>t, <3>1, <3>3, EmittedKeeps DEF Quiet, Send
    <3>4. CASE ~ openCode.iterDone
      <4>1. openCodeStream' = [openCodeStream EXCEPT !.usage = Counted(n)]
        BY <3>1, <3>4 DEF Send
      <4>2. OpenCodeInv'
        BY <1>s, <1>t, <3>1, <3>2, <4>1, EmittedKeeps
           DEF OpenCodeInv, SentIsAnnounced, Contract!ContractTypeOK
      <4>3. Contract!ContractNext
        BY <1>s, <3>2, <3>4, <4>1 DEF Contract!ContractNext, Contract!UsageEvent
      <4> QED
        BY <4>2, <4>3
    <3> QED
      BY <3>3, <3>4
  <2> QED
    BY <2>1, <2>2
<1>8. ASSUME NEW p \in Permissions, PermissionAsked(p) \/ Reviewed(p) PROVE Goal
  BY <1>0, <1>8, <1>t, EmittedKeeps DEF PermissionAsked, Reviewed, Quiet, NothingSent
<1>9. ASSUME NEW p \in Permissions, PermissionAnswered(p) PROVE Goal
  <2>1. ASSUME NEW e \in EngineRecords
        PROVE  /\ Shown(e) \in EngineRecords
               /\ Shown(e).announced = e.announced /\ Shown(e).iterDone = e.iterDone
    BY EmittedKeeps DEF Shown
  <2> DEFINE Told == {openCode, Shown(openCode), Shown(Shown(openCode))}
  <2>2. openCode' \in Told /\ UNCHANGED openCodeStream
    BY <1>9 DEF PermissionAnswered, NothingSent
  <2> QED
    BY <1>0, <1>t, <2>1, <2>2 DEF Quiet
<1>10. CASE PumpEnds
  <2> DEFINE e == [openCode EXCEPT !.pump = "over"]
  <2>1. e \in EngineRecords /\ e.announced = openCode.announced /\ e.iterDone = openCode.iterDone
    BY <1>t DEF EngineRecords
  <2> HIDE DEF e
  <2>2. \/ openCode' = e /\ UNCHANGED openCodeStream
        \/ /\ openCode' = ClosedIterator(Emitted(e))
           /\ Send([openCodeStream EXCEPT !.done = TRUE])
    BY <1>10 DEF PumpEnds, NothingSent, e
  <2> QED
    BY <1>0, <1>e, <2>1, <2>2, EmittedKeeps, ClosedKeeps DEF Quiet
<1>11. CASE DisposeOpenCode \/ DisposePumpOver
  <2>1. UNCHANGED openCodeStream
    BY <1>11 DEF DisposeOpenCode, DisposePumpOver, NothingSent
  <2>2. \/ openCode' = [openCode EXCEPT !.disposed = TRUE, !.innerDisposed = HasInner,
                                  !.early = openCode.start = "server",
                                  !.closing = IF HasInner THEN "pump" ELSE "over"]
        \/ openCode' = [openCode EXCEPT !.closing = "delete"]
    BY <1>11 DEF DisposeOpenCode, DisposePumpOver
  <2>3. HasInner \in BOOLEAN
    BY DEF HasInner
  <2> QED
    BY <1>0, <1>t, <2>1, <2>2, <2>3 DEF Quiet, EngineRecords
<1>12. CASE DisposeDeleted
  <2> DEFINE e == ClosedIterator(openCode)
  <2>1. e \in EngineRecords /\ e.iterDone
    BY <1>t, ClosedKeeps
  <2> HIDE DEF e
  <2>2. openCode' = [e EXCEPT !.closing = "over"]
    BY <1>12 DEF DisposeDeleted, e
  <2>3. openCode' \in EngineRecords /\ openCode'.iterDone
    BY <2>1, <2>2 DEF EngineRecords
  <2> QED
    BY <1>12, <1>e, <2>3 DEF DisposeDeleted
<1>13. CASE Consume
  <2>1. UNCHANGED openCodeStream
    BY <1>13 DEF Consume, NothingSent
  <2>2. \/ openCode' = [openCode EXCEPT !.queue = @ - 1]
        \/ openCode' = [openCode EXCEPT !.waiting = TRUE]
    BY <1>13 DEF Consume
  <2>3. openCode.queue - 1 \in Int
    BY <1>t DEF EngineRecords
  <2> QED
    BY <1>0, <1>t, <2>1, <2>2, <2>3 DEF Quiet, EngineRecords
<1>14. CASE ConsumerReturns
  BY <1>14, <1>e, <1>t, ClosedKeeps DEF ConsumerReturns
<1>15. CASE UNCHANGED openCodeVars
  BY <1>0, <1>15, <1>t DEF Quiet, openCodeVars
<1> QED
  BY <1>1, <1>2, <1>3, <1>4, <1>5, <1>6, <1>7, <1>8, <1>9, <1>10, <1>11, <1>12,
     <1>13, <1>14, <1>15 DEF OpenCodeNext

LEMMA OpenCodeStart == OpenCodeInit => OpenCodeInv /\ Contract!ContractInit
BY OpenCodeAssumption
   DEF OpenCodeInit, OpenCodeInv, EngineRecords, SentIsAnnounced,
       Contract!ContractInit, Contract!NoEvents, Contract!ContractTypeOK

\* An OpenCode session (OpenCodeEngine.ts) keeps the contract of every engine
\* (engines/types.ts), for any tool calls, permissions and usage.
THEOREM OpenCodeKeepsContractHolds == OpenCodeSpec => OpenCodeKeepsContract
<1>1. OpenCodeInit => OpenCodeInv /\ Contract!ContractInit
  BY OpenCodeStart
<1>2. OpenCodeInv /\ [OpenCodeNext]_openCodeVars => OpenCodeInv'
  BY OpenCodeStep
<1>3. OpenCodeInv /\ [OpenCodeNext]_openCodeVars => [Contract!ContractNext]_openCodeStream
  BY OpenCodeStep
<1> QED
  BY <1>1, <1>2, <1>3, PTL
     DEF OpenCodeSpec, OpenCodeKeepsContract, Contract!ContractSpec

--------------------------------------------------------------------------------
\* The reviews of Bouncer.

\* Who can have made an answer, and what the cache holds.
Makers == {"pattern", "classifier", "cache", "skipped", "fallback"}
CacheEntries == [op : SUBSET Features, answer : Answers, fresh : BOOLEAN, by : Makers]

\* A cache of decisions, one for an operation, within its size.
Decisions(cache) ==
  /\ cache \in Seq(CacheEntries) /\ Len(cache) <= CacheMax
  /\ \A i \in 1..Len(cache) : cache[i].by \in {"pattern", "classifier"}
  /\ \A i, j \in 1..Len(cache) : cache[i].op = cache[j].op => i = j

\* Dropping the oldest entry, or an expired one, leaves such a cache.
LEMMA EvictedDecisions ==
  ASSUME NEW cache, Decisions(cache)
  PROVE  Decisions(Evicted(cache)) /\ Len(Evicted(cache)) < CacheMax
<1>1. CASE Len(cache) >= CacheMax
  <2>1. cache # <<>> /\ Evicted(cache) = Tail(cache)
    BY <1>1, BouncerAssumption DEF Evicted, Decisions
  <2>2. /\ Tail(cache) \in Seq(CacheEntries) /\ Len(Tail(cache)) = Len(cache) - 1
        /\ \A i \in 1..Len(Tail(cache)) : Tail(cache)[i] = cache[i + 1]
    BY <2>1 DEF Decisions
  <2>3. \A i \in 1..Len(Tail(cache)) : i + 1 \in 1..Len(cache)
    BY <2>1, <2>2 DEF Decisions
  <2> QED
    BY <2>1, <2>2, <2>3, BouncerAssumption DEF Decisions
<1>2. CASE ~ (Len(cache) >= CacheMax)
  BY <1>2, BouncerAssumption DEF Evicted, Decisions
<1> QED
  BY <1>1, <1>2

\* Where the elements of a concatenation come from.
LEMMA Concatenated ==
  ASSUME NEW S, NEW a \in Seq(S), NEW b \in Seq(S)
  PROVE  /\ a \o b \in Seq(S) /\ Len(a \o b) = Len(a) + Len(b)
         /\ \A j \in 1..Len(a \o b) : (a \o b)[j] = IF j <= Len(a) THEN a[j] ELSE b[j - Len(a)]
OBVIOUS

\* Removing an entry leaves such a cache: the entries after it move up by one.
LEMMA RemovedDecisions ==
  ASSUME NEW cache, Decisions(cache), NEW i \in 1..Len(cache)
  PROVE  Decisions(RemoveAt(cache, i))
<1> DEFINE rest == RemoveAt(cache, i)
           place(j) == IF j < i THEN j ELSE j + 1
<1>1. /\ rest \in Seq(CacheEntries) /\ Len(rest) = Len(cache) - 1
      /\ \A j \in 1..Len(rest) : rest[j] = cache[place(j)]
  <2>1. cache \in Seq(CacheEntries) /\ Len(cache) \in Nat
    BY DEF Decisions
  <2>2. /\ SubSeq(cache, 1, i - 1) \in Seq(CacheEntries)
        /\ Len(SubSeq(cache, 1, i - 1)) = i - 1
        /\ \A j \in 1..(i - 1) : SubSeq(cache, 1, i - 1)[j] = cache[j]
    BY <2>1
  <2>3. /\ SubSeq(cache, i + 1, Len(cache)) \in Seq(CacheEntries)
        /\ Len(SubSeq(cache, i + 1, Len(cache))) = Len(cache) - i
        /\ \A j \in 1..(Len(cache) - i) :
             SubSeq(cache, i + 1, Len(cache))[j] = cache[i + j]
    BY <2>1
  <2> DEFINE a == SubSeq(cache, 1, i - 1)
             b == SubSeq(cache, i + 1, Len(cache))
  <2>4. rest = a \o b
    BY DEF RemoveAt
  <2> HIDE DEF a, b, rest
  <2>5. /\ rest \in Seq(CacheEntries) /\ Len(rest) = Len(a) + Len(b)
        /\ \A j \in 1..Len(rest) : rest[j] = IF j <= Len(a) THEN a[j] ELSE b[j - Len(a)]
    <3>1. a \in Seq(CacheEntries) /\ b \in Seq(CacheEntries)
      BY <2>2, <2>3 DEF a, b
    <3> QED
      BY <3>1, <2>4, Concatenated
  <2>l. /\ Len(a) = i - 1 /\ Len(b) = Len(cache) - i
        /\ \A j \in 1..(i - 1) : a[j] = cache[j]
        /\ \A j \in 1..(Len(cache) - i) : b[j] = cache[i + j]
    BY <2>2, <2>3 DEF a, b
  <2>6. Len(rest) = Len(cache) - 1
    BY <2>1, <2>5, <2>l
  <2>7. ASSUME NEW j \in 1..Len(rest) PROVE rest[j] = cache[place(j)]
    <3>1. CASE j < i
      BY <2>1, <2>5, <2>l, <3>1
    <3>2. CASE ~ (j < i)
      <4>1. j - Len(a) \in 1..(Len(cache) - i) /\ i + (j - Len(a)) = j + 1
        BY <2>1, <2>l, <2>6, <3>2
      <4> QED
        BY <2>1, <2>5, <2>l, <3>2, <4>1
    <3> QED
      BY <3>1, <3>2
  <2> QED
    BY <2>5, <2>6, <2>7 DEF rest
<1>2. \A j \in 1..Len(rest) : place(j) \in 1..Len(cache)
  BY <1>1 DEF Decisions
<1>3. \A j, k \in 1..Len(rest) : place(j) = place(k) => j = k
  BY <1>1 DEF Decisions
<1> HIDE DEF rest, place
<1>4. Len(rest) <= CacheMax
  <2>1. Len(cache) <= CacheMax /\ Len(cache) \in Nat
    BY DEF Decisions
  <2> QED
    BY <1>1, <2>1, BouncerAssumption
<1>5. Decisions(rest)
  BY <1>1, <1>2, <1>3, <1>4 DEF Decisions
<1> QED
  BY <1>5 DEF rest

\* So does storing a decision.
LEMMA StoredDecisions ==
  ASSUME NEW cache, Decisions(cache), NEW e \in CacheEntries,
         e.by \in {"pattern", "classifier"}
  PROVE  Decisions(Stored(cache, e))
<1> DEFINE kept == Evicted(cache)
<1>1. Decisions(kept) /\ Len(kept) < CacheMax
  BY EvictedDecisions
<1> HIDE DEF kept
<1>2. CASE \E i \in 1..Len(kept) : kept[i].op = e.op
  <2> DEFINE new == [i \in 1..Len(kept) |-> IF kept[i].op = e.op THEN e ELSE kept[i]]
  <2>1. Stored(cache, e) = new
    BY <1>2 DEF Stored, kept
  <2>2. new \in Seq(CacheEntries) /\ Len(new) = Len(kept)
    BY <1>1 DEF Decisions
  <2>3. \A i \in 1..Len(kept) : new[i].op = kept[i].op /\ new[i].by \in {"pattern", "classifier"}
    BY <1>1 DEF Decisions
  <2> HIDE DEF new
  <2> QED
    BY <1>1, <2>1, <2>2, <2>3 DEF Decisions
<1>3. CASE ~ \E i \in 1..Len(kept) : kept[i].op = e.op
  <2>1. Stored(cache, e) = Append(kept, e)
    BY <1>3 DEF Stored, kept
  <2> QED
    BY <1>1, <1>3, <2>1, BouncerAssumption DEF Decisions
<1> QED
  BY <1>2, <1>3

\* Dropping an operation's entries, as a lookup that finds one expired does.
LEMMA DroppedDecisions ==
  ASSUME NEW op, Decisions(decisionCache), NEW cache \in Dropped(op)
  PROVE  Decisions(cache)
BY RemovedDecisions DEF Dropped, Cached

\* The record of a review.
ReviewRecords ==
  [op : SUBSET Features, ai : BOOLEAN,
   phase : {"idle", "asked", "child", "create", "prompt", "delete", "over"},
   attempt : {0, 1, 2}, timedOut : BOOLEAN, verdict : Answers \cup {"none", "failed"},
   answer : Answers \cup {"none"}, by : Makers \cup {"none"}]

\* A session that is being deleted has left a verdict or failed.
BouncerInv ==
  /\ review \in [Reviews -> ReviewRecords] /\ Decisions(decisionCache)
  /\ \A r \in Reviews : review[r].phase = "delete" => review[r].verdict # "none"

\* One review changes at a time.
LEMMA OneReview ==
  ASSUME BouncerInv, NEW r \in Reviews, NEW n \in ReviewRecords,
         n.phase = "delete" => n.verdict # "none",
         review' = [review EXCEPT ![r] = n], Decisions(decisionCache')
  PROVE  BouncerInv'
BY DEF BouncerInv

\* A final answer, cached or not.
LEMMA FinalizedInv ==
  ASSUME BouncerInv, NEW r \in Reviews, NEW cache, Decisions(cache),
         NEW answer \in Answers, NEW by \in Makers \ {"cache"}, NEW sure \in BOOLEAN,
         Finalized(cache, r, answer, by, sure)
  PROVE  BouncerInv'
<1> DEFINE n == [review[r] EXCEPT !.phase = "over", !.answer = answer, !.by = by,
                                  !.verdict = "none"]
<1>1. n \in ReviewRecords /\ n.phase = "over" /\ review' = [review EXCEPT ![r] = n]
  <2>1. review[r] \in ReviewRecords
    BY DEF BouncerInv
  <2>2. n \in ReviewRecords /\ n.phase = "over"
    BY <2>1 DEF ReviewRecords, Makers
  <2> QED
    BY <2>1, <2>2 DEF BouncerInv, ReviewRecords, Finalized, Answered
<1>2. Decisions(decisionCache')
  <2>1. CASE SkipCache(by) \/ ~ sure
    BY <2>1 DEF Finalized
  <2>2. CASE ~ (SkipCache(by) \/ ~ sure)
    <3> DEFINE e == Entry(review[r].op, answer, by)
    <3>1. e \in CacheEntries /\ e.by \in {"pattern", "classifier"}
      BY <2>2 DEF Entry, CacheEntries, SkipCache, BouncerInv, ReviewRecords, Makers
    <3>2. decisionCache' = Stored(cache, e)
      BY <2>2 DEF Finalized
    <3> QED
      BY <3>1, <3>2, StoredDecisions
  <2> QED
    BY <2>1, <2>2
<1> HIDE DEF n
<1> QED
  BY <1>1, <1>2, OneReview

\* A classification that fails: a second attempt, or the fallback.
LEMMA FailsInv ==
  ASSUME BouncerInv, NEW r \in Reviews, ClassificationFails(r)
  PROVE  BouncerInv'
<1>1. CASE Retried(r) /\ UNCHANGED decisionCache
  <2> DEFINE n == [review[r] EXCEPT
           !.phase = IF @ = "child" THEN "child" ELSE "create",
           !.attempt = 2, !.timedOut = FALSE, !.verdict = "none"]
  <2>1. n \in ReviewRecords /\ n.phase # "delete" /\ review' = [review EXCEPT ![r] = n]
    <3>1. review[r] \in ReviewRecords
      BY DEF BouncerInv
    <3>2. n \in ReviewRecords /\ n.phase # "delete"
      BY <3>1 DEF ReviewRecords
    <3> QED
      BY <1>1, <3>1, <3>2 DEF BouncerInv, ReviewRecords, Retried
  <2> HIDE DEF n
  <2> QED
    BY <1>1, <2>1, OneReview DEF BouncerInv
<1>2. CASE Finalized(decisionCache, r, "deny", "fallback", FALSE)
  BY <1>2, FinalizedInv DEF Makers, BouncerInv, Answers
<1> QED
  BY <1>1, <1>2 DEF ClassificationFails

\* Every step keeps the invariant.
LEMMA BouncerStep ==
  ASSUME BouncerInv, [BouncerNext]_bouncerVars
  PROVE  BouncerInv'
<1>1. CASE DecisionExpires
  <2>1. PICK i \in 1..Len(decisionCache) :
          decisionCache' = [decisionCache EXCEPT ![i].fresh = FALSE]
    BY <1>1 DEF DecisionExpires
  <2>2. decisionCache \in Seq(CacheEntries)
    BY DEF BouncerInv, Decisions
  <2> DEFINE e == [decisionCache[i] EXCEPT !.fresh = FALSE]
  <2>e. /\ e \in CacheEntries /\ e.op = decisionCache[i].op /\ e.by = decisionCache[i].by
        /\ decisionCache' = [decisionCache EXCEPT ![i] = e]
    <3>1. decisionCache[i] \in CacheEntries
      BY <2>2
    <3> QED
      BY <2>1, <2>2, <3>1 DEF CacheEntries
  <2> HIDE DEF e
  <2>3. decisionCache' \in Seq(CacheEntries) /\ Len(decisionCache') = Len(decisionCache)
    BY <2>2, <2>e
  <2>4. \A j \in 1..Len(decisionCache) : /\ decisionCache'[j].op = decisionCache[j].op
                                         /\ decisionCache'[j].by = decisionCache[j].by
    BY <2>2, <2>3, <2>e
  <2>5. Decisions(decisionCache')
    BY <2>3, <2>4 DEF BouncerInv, Decisions
  <2> QED
    BY <1>1, <2>5 DEF DecisionExpires, BouncerInv
<1>2. ASSUME NEW r \in Reviews, NEW op \in Operations, NEW ai \in BOOLEAN, Requested(r, op, ai)
      PROVE  BouncerInv'
  BY <1>2, BouncerAssumption DEF Requested, NoReview, BouncerInv, ReviewRecords, Makers
<1>3. ASSUME NEW r \in Reviews, Examined(r) PROVE BouncerInv'
  <2> DEFINE op == review[r].op
  <2>0. \A i \in 1..Len(decisionCache) : decisionCache[i].answer \in Answers
    <3>1. \A i \in 1..Len(decisionCache) : decisionCache[i] \in CacheEntries
      BY DEF BouncerInv, Decisions
    <3> QED
      BY <3>1 DEF CacheEntries
  <2>1. CASE Hit(op) # {}
    <3>1. PICK i \in Hit(op) : Answered(r, decisionCache[i].answer, "cache")
      BY <1>3, <2>1 DEF Examined
    <3>2. decisionCache[i].answer \in Answers /\ UNCHANGED decisionCache
      BY <1>3, <2>0, <2>1 DEF Examined, Hit, Cached
    <3> QED
      <4> DEFINE n == [review[r] EXCEPT !.phase = "over", !.by = "cache",
                 !.answer = decisionCache[i].answer, !.verdict = "none"]
      <4>1. n \in ReviewRecords /\ n.phase = "over" /\ review' = [review EXCEPT ![r] = n]
        <5>1. review[r] \in ReviewRecords /\ "cache" \in Makers
          BY DEF BouncerInv, Makers
        <5>2. n \in ReviewRecords /\ n.phase = "over"
          BY <3>2, <5>1 DEF ReviewRecords
        <5> QED
          BY <3>1, <5>1, <5>2 DEF Answered, ReviewRecords, BouncerInv
      <4> HIDE DEF n
      <4> QED
        BY <3>2, <4>1, OneReview DEF BouncerInv
  <2>2. CASE Hit(op) = {}
    <3>1. PICK dropped \in Dropped(op) :
            \/ \E a \in ByPattern(op) : Finalized(dropped, r, a, "pattern", TRUE)
            \/ Finalized(dropped, r, "warn_allow", "skipped", TRUE)
            \/ /\ decisionCache' = dropped
               /\ \E p \in {"child", "create"} :
                    review' = [review EXCEPT ![r].phase = p, ![r].attempt = 1]
      BY <1>3, <2>2 DEF Examined
    <3>2. Decisions(dropped)
      BY DroppedDecisions DEF BouncerInv
    <3>3. CASE \E a \in ByPattern(op) : Finalized(dropped, r, a, "pattern", TRUE)
      BY <3>2, <3>3, FinalizedInv DEF Makers, ByPattern, Answers
    <3>4. CASE Finalized(dropped, r, "warn_allow", "skipped", TRUE)
      BY <3>2, <3>4, FinalizedInv DEF Makers, Answers
    <3>5. CASE /\ decisionCache' = dropped
               /\ \E p \in {"child", "create"} :
                    review' = [review EXCEPT ![r].phase = p, ![r].attempt = 1]
      <4>1. PICK p \in {"child", "create"} :
              review' = [review EXCEPT ![r].phase = p, ![r].attempt = 1]
        BY <3>5
      <4> DEFINE n == [review[r] EXCEPT !.phase = p, !.attempt = 1]
      <4>2. n \in ReviewRecords /\ n.phase # "delete" /\ review' = [review EXCEPT ![r] = n]
        <5>1. review[r] \in ReviewRecords
          BY DEF BouncerInv
        <5>2. n \in ReviewRecords /\ n.phase # "delete"
          BY <5>1 DEF ReviewRecords
        <5> QED
          BY <4>1, <5>1, <5>2 DEF ReviewRecords, BouncerInv
      <4> HIDE DEF n
      <4> QED
        BY <3>2, <3>5, <4>2, OneReview
    <3> QED
      BY <3>1, <3>3, <3>4, <3>5
  <2> QED
    BY <2>1, <2>2
<1>4. ASSUME NEW r \in Reviews, ClassifierTimeout(r) PROVE BouncerInv'
  <2> DEFINE n == [review[r] EXCEPT !.timedOut = TRUE]
  <2>1. /\ n \in ReviewRecords /\ n.phase = review[r].phase /\ n.verdict = review[r].verdict
        /\ review' = [review EXCEPT ![r] = n] /\ UNCHANGED decisionCache
    <3>1. review[r] \in ReviewRecords
      BY DEF BouncerInv
    <3>2. n \in ReviewRecords /\ n.phase = review[r].phase /\ n.verdict = review[r].verdict
      BY <3>1 DEF ReviewRecords
    <3> QED
      BY <1>4, <3>1, <3>2 DEF ReviewRecords, BouncerInv, ClassifierTimeout
  <2> HIDE DEF n
  <2> QED
    BY <2>1, OneReview DEF BouncerInv
<1>5. ASSUME NEW r \in Reviews, ChildCloses(r) PROVE BouncerInv'
  BY <1>5, FailsInv, FinalizedInv DEF Makers, ChildCloses, BouncerInv
<1>6. ASSUME NEW r \in Reviews, SessionCreated(r) PROVE BouncerInv'
  BY <1>6, FailsInv DEF SessionCreated, BouncerInv, ReviewRecords, Makers
<1>7. ASSUME NEW r \in Reviews, Prompted(r) PROVE BouncerInv'
  <2>1. PICK v \in Answers \cup {"failed"} :
          review' = [review EXCEPT ![r].phase = "delete", ![r].verdict = v]
    BY <1>7 DEF Prompted
  <2> DEFINE n == [review[r] EXCEPT !.phase = "delete", !.verdict = v]
  <2>2. n \in ReviewRecords /\ n.verdict # "none" /\ review' = [review EXCEPT ![r] = n]
    <3>1. review[r] \in ReviewRecords
      BY DEF BouncerInv
    <3>2. n \in ReviewRecords /\ n.verdict # "none"
      BY <3>1 DEF ReviewRecords, Answers
    <3> QED
      BY <2>1, <3>1, <3>2 DEF ReviewRecords, BouncerInv
  <2> HIDE DEF n
  <2> QED
    BY <1>7, <2>2, OneReview DEF Prompted, BouncerInv
<1>8. ASSUME NEW r \in Reviews, SessionDeleted(r) PROVE BouncerInv'
  <2>1. CASE review[r].verdict = "failed"
    BY <1>8, <2>1, FailsInv DEF SessionDeleted
  <2>2. CASE review[r].verdict # "failed"
    <3>1. review[r].verdict \in Answers
      BY <1>8, <2>2 DEF SessionDeleted, BouncerInv, ReviewRecords, Makers
    <3>2. PICK sure \in BOOLEAN :
            Finalized(decisionCache, r, review[r].verdict, "classifier", sure)
      BY <1>8, <2>2 DEF SessionDeleted
    <3> QED
      BY <3>1, <3>2, FinalizedInv DEF Makers, BouncerInv
  <2> QED
    BY <2>1, <2>2
<1>9. ASSUME NEW r \in Reviews, Taken(r) PROVE BouncerInv'
  BY <1>9 DEF Taken, NoReview, BouncerInv, ReviewRecords, Makers
<1>10. CASE UNCHANGED bouncerVars
  BY <1>10 DEF bouncerVars, BouncerInv
<1> QED
  BY <1>1, <1>2, <1>3, <1>4, <1>5, <1>6, <1>7, <1>8, <1>9, <1>10 DEF BouncerNext

\* At first nothing is cached and nothing is reviewed.
LEMMA BouncerStart == BouncerInit => BouncerInv
BY BouncerAssumption DEF BouncerInit, NoReview, BouncerInv, ReviewRecords, Decisions

\* The cache of the bouncer (bouncer-integration.ts) holds decisions only, one
\* for an operation, for any number of reviews and any size of the cache.
THEOREM OnlyDecisionsCachedHolds == BouncerSpec => []OnlyDecisionsCached
<1>1. BouncerInv => OnlyDecisionsCached
  BY DEF BouncerInv, Decisions, OnlyDecisionsCached
<1>2. BouncerInv /\ [BouncerNext]_bouncerVars => BouncerInv'
  BY BouncerStep
<1> QED
  BY <1>1, <1>2, BouncerStart, PTL DEF BouncerSpec

--------------------------------------------------------------------------------
\* The questions of Questions.

\* The types of a question.
QuestionRecords ==
  [call : {"none", "waiting", "answers", "noAnswers", "killed"}, pending : BOOLEAN,
   route : {"none", "waiting", "answered", "timeout"}, cards : SUBSET Viewers]

\* What is registered has its request waiting, and the rest of a route runs for an
\* asker that still waits or is gone.
QuestionsInv ==
  /\ cliCrashes \in 0..MaxCrashes
  /\ question \in [Asked -> QuestionRecords]
  /\ \A q \in Asked :
       /\ question[q].pending => question[q].route = "waiting"
       /\ question[q].route # "none" => question[q].call \in {"waiting", "killed"}

\* A step of one question keeps the invariant if its record does.
LEMMA OneQuestion ==
  ASSUME QuestionsInv, NEW q \in Asked, NEW n \in QuestionRecords,
         question' = [question EXCEPT ![q] = n], cliCrashes' = cliCrashes,
         n.pending => n.route = "waiting",
         n.route # "none" => n.call \in {"waiting", "killed"}
  PROVE  QuestionsInv'
BY DEF QuestionsInv

\* Only a restart is counted.
LEMMA RestartsCounted ==
  /\ CliRestarts => cliCrashes' = cliCrashes + 1
  /\ \A q \in Asked :
       /\ AskUnrouted(q) \/ Ask(q) \/ QuestionTimeout(q) \/ RouteEnds(q) \/ AskerEnds(q)
            => cliCrashes' = cliCrashes
       /\ \A w \in Viewers : Answer(q, w) => cliCrashes' = cliCrashes
<1>1. CliRestarts => cliCrashes' = cliCrashes + 1
  BY Zenon DEF CliRestarts
<1>2. ASSUME NEW q \in Asked, AskUnrouted(q) PROVE cliCrashes' = cliCrashes
  BY <1>2, Zenon DEF AskUnrouted
<1>3. ASSUME NEW q \in Asked, Ask(q) PROVE cliCrashes' = cliCrashes
  BY <1>3, Zenon DEF Ask
<1>4. ASSUME NEW q \in Asked, QuestionTimeout(q) PROVE cliCrashes' = cliCrashes
  BY <1>4, Zenon DEF QuestionTimeout
<1>5. ASSUME NEW q \in Asked, RouteEnds(q) PROVE cliCrashes' = cliCrashes
  BY <1>5, Zenon DEF RouteEnds
<1>6. ASSUME NEW q \in Asked, AskerEnds(q) PROVE cliCrashes' = cliCrashes
  BY <1>6, Zenon DEF AskerEnds
<1>7. ASSUME NEW q \in Asked, NEW w \in Viewers, Answer(q, w) PROVE cliCrashes' = cliCrashes
  BY <1>7, Zenon DEF Answer
<1> QED
  BY <1>1, <1>2, <1>3, <1>4, <1>5, <1>6, <1>7

LEMMA QuestionsStep ==
  ASSUME QuestionsInv, [QuestionsNext]_questionVars
  PROVE  QuestionsInv'
<1>0. /\ question \in [Asked -> QuestionRecords]
      /\ \A q \in Asked :
           /\ question[q] \in QuestionRecords
           /\ question[q].pending => question[q].route = "waiting"
           /\ question[q].route # "none" => question[q].call \in {"waiting", "killed"}
  BY DEF QuestionsInv
<1>1. ASSUME NEW q \in Asked, AskUnrouted(q) PROVE QuestionsInv'
  <2>1. PICK n : n = [question[q] EXCEPT !.call = "noAnswers"]
    OBVIOUS
  <2>2. /\ n \in QuestionRecords /\ n.pending = question[q].pending
        /\ n.route = question[q].route /\ question[q].call = "none"
        /\ question' = [question EXCEPT ![q] = n]
    BY <1>0, <1>1, <2>1 DEF AskUnrouted, QuestionRecords
  <2> QED
    BY <1>0, <1>1, <2>2, OneQuestion, RestartsCounted
<1>2. ASSUME NEW q \in Asked, Ask(q) PROVE QuestionsInv'
  <2>1. PICK n : n = [call |-> "waiting", pending |-> TRUE, route |-> "waiting",
                      cards |-> Viewers]
    OBVIOUS
  <2>2. /\ n \in QuestionRecords /\ n.route = "waiting" /\ n.call = "waiting"
        /\ question' = [question EXCEPT ![q] = n]
    BY <1>2, <2>1 DEF Ask, QuestionRecords
  <2> QED
    BY <1>2, <2>2, OneQuestion, RestartsCounted
<1>3. ASSUME NEW q \in Asked, NEW w \in Viewers, Answer(q, w) PROVE QuestionsInv'
  <2>1. PICK n : n = [question[q] EXCEPT !.cards = @ \ {w}, !.pending = FALSE,
                        !.route = IF question[q].pending THEN "answered" ELSE @]
    OBVIOUS
  <2>2. /\ n \in QuestionRecords /\ n.pending = FALSE /\ n.call = question[q].call
        /\ n.route = IF question[q].pending THEN "answered" ELSE question[q].route
    BY <1>0, <2>1 DEF QuestionRecords
  <2>3. question' = [question EXCEPT ![q] = n]
    BY <1>0, <1>3, <2>1 DEF Answer, QuestionRecords
  <2> QED
    BY <1>0, <1>3, <2>2, <2>3, OneQuestion, RestartsCounted
<1>4. ASSUME NEW q \in Asked, QuestionTimeout(q) PROVE QuestionsInv'
  <2>1. PICK n : n = [question[q] EXCEPT !.pending = FALSE, !.route = "timeout"]
    OBVIOUS
  <2>2. /\ n \in QuestionRecords /\ n.pending = FALSE /\ n.call = question[q].call
        /\ n.route = "timeout" /\ question[q].pending
    BY <1>0, <1>4, <2>1 DEF QuestionRecords, QuestionTimeout
  <2>3. question' = [question EXCEPT ![q] = n]
    BY <1>0, <1>4, <2>1 DEF QuestionTimeout, QuestionRecords
  <2> QED
    BY <1>0, <1>4, <2>2, <2>3, OneQuestion, RestartsCounted
<1>5. ASSUME NEW q \in Asked, RouteEnds(q) PROVE QuestionsInv'
  <2>1. PICK n : n = [question[q] EXCEPT
       !.route = "none", !.cards = Dismissed(@, question[q].route),
       !.call = IF @ # "waiting" THEN @
                ELSE IF question[q].route = "answered" THEN "answers" ELSE "noAnswers"]
    OBVIOUS
  <2>2. /\ n \in QuestionRecords /\ n.pending = question[q].pending /\ n.route = "none"
        /\ question[q].route \in {"answered", "timeout"}
    BY <1>0, <1>5, <2>1 DEF QuestionRecords, RouteEnds, Dismissed
  <2>3. question' = [question EXCEPT ![q] = n]
    BY <1>0, <1>5, <2>1 DEF RouteEnds, QuestionRecords
  <2> QED
    BY <1>0, <1>5, <2>2, <2>3, OneQuestion, RestartsCounted
<1>6. ASSUME NEW q \in Asked, AskerEnds(q) PROVE QuestionsInv'
  <2>1. PICK n : n = [question[q] EXCEPT !.call = "killed"]
    OBVIOUS
  <2>2. /\ n \in QuestionRecords /\ n.pending = question[q].pending /\ n.call = "killed"
        /\ n.route = question[q].route /\ question' = [question EXCEPT ![q] = n]
    BY <1>0, <1>6, <2>1 DEF AskerEnds, QuestionRecords
  <2> QED
    BY <1>0, <1>6, <2>2, OneQuestion, RestartsCounted
<1>7. CASE CliRestarts
  <2>1. \A q \in Asked : /\ question'[q] \in QuestionRecords
                         /\ question'[q].pending = FALSE /\ question'[q].route = "none"
    BY <1>0, <1>7 DEF CliRestarts, QuestionRecords
  <2>2. question' \in [Asked -> QuestionRecords]
    BY <1>7, <2>1 DEF CliRestarts
  <2>3. cliCrashes' \in 0..MaxCrashes
    <3>1. cliCrashes' = cliCrashes + 1
      BY <1>7, RestartsCounted
    <3>2. cliCrashes < MaxCrashes
      BY <1>7, Zenon DEF CliRestarts
    <3> QED
      BY <3>1, <3>2, QuestionsAssumption DEF QuestionsInv
  <2> QED
    BY <2>1, <2>2, <2>3 DEF QuestionsInv
<1>8. CASE UNCHANGED questionVars
  BY <1>8 DEF questionVars, QuestionsInv
<1> QED
  BY <1>1, <1>2, <1>3, <1>4, <1>5, <1>6, <1>7, <1>8 DEF QuestionsNext

\* At first nothing is asked.
LEMMA QuestionsStart == QuestionsInit => QuestionsInv
BY QuestionsAssumption DEF QuestionsInit, QuestionsInv, QuestionRecords

\* The answer of the user that comes first reaches the agent
\* (ask-user-question-bridge.ts), for any number of questions and webs.
THEOREM FirstAnswerStands == QuestionsSpec => FirstAnswerHolds
<1>1. QuestionsInit => QuestionsInv
  BY QuestionsStart
<1>2. QuestionsInv /\ [QuestionsNext]_questionVars => QuestionsInv'
  BY QuestionsStep
<1> DEFINE Stands == \A q \in Asked : question[q].route = "answered" /\ cliCrashes' = cliCrashes
                       => question'[q].route = "answered"
                          \/ question'[q].call \in {"answers", "killed"}
<1>3. QuestionsInv /\ [QuestionsNext]_questionVars => [Stands]_questionVars
  <2> SUFFICES ASSUME QuestionsInv, QuestionsNext, cliCrashes' = cliCrashes,
                      NEW q \in Asked, question[q].route = "answered"
               PROVE  question'[q].route = "answered" \/ question'[q].call \in {"answers", "killed"}
    OBVIOUS
  <2>1. /\ question \in [Asked -> QuestionRecords] /\ question[q] \in QuestionRecords
        /\ ~ question[q].pending /\ question[q].call \in {"waiting", "killed"}
    BY DEF QuestionsInv
  <2>2. ~ CliRestarts
    BY RestartsCounted DEF QuestionsInv
  <2>3. ASSUME NEW o \in Asked, AskUnrouted(o) \/ Ask(o)
        PROVE  question'[q] = question[q]
    BY <2>1, <2>3 DEF AskUnrouted, Ask
  <2>4. ASSUME NEW o \in Asked, o # q,
               \/ QuestionTimeout(o) \/ RouteEnds(o) \/ AskerEnds(o)
               \/ \E w \in Viewers : Answer(o, w)
        PROVE  question'[q] = question[q]
    BY <2>1, <2>4 DEF QuestionTimeout, RouteEnds, AskerEnds, Answer
  <2>5. ~ QuestionTimeout(q)
    BY <2>1 DEF QuestionTimeout
  <2>6. ASSUME RouteEnds(q) PROVE question'[q].call \in {"answers", "killed"}
    BY <2>1, <2>6 DEF RouteEnds, QuestionRecords
  <2>7. ASSUME AskerEnds(q) PROVE question'[q].route = "answered"
    BY <2>1, <2>7 DEF AskerEnds, QuestionRecords
  <2>8. ASSUME NEW w \in Viewers, Answer(q, w) PROVE question'[q].route = "answered"
    BY <2>1, <2>8 DEF Answer, QuestionRecords
  <2> QED
    BY <2>2, <2>3, <2>4, <2>5, <2>6, <2>7, <2>8 DEF QuestionsNext
<1> QED
  BY <1>1, <1>2, <1>3, PTL DEF QuestionsSpec, FirstAnswerHolds

--------------------------------------------------------------------------------
\* The text of HeadlessStream.

\* The fields of the text, and why at most one place takes text: nothing is held back
\* for a reason that no longer, or not yet, holds.
TextRecords ==
  [arrived : 0..MaxPieces, shown : Seq(1..MaxPieces), resume : Seq(1..MaxPieces),
   post : Seq(1..MaxPieces), line : Seq(1..MaxPieces), active : BOOLEAN, deltas : BOOLEAN,
   messages : SUBSET (1..MaxPieces), over : BOOLEAN, result : Seq(1..MaxPieces)]
HeldBack ==
  /\ ~ text.active => text.resume = <<>>
  /\ text.messages = {} => text.post = <<>>
  /\ ~ text.deltas => text.line = <<>> /\ text.post = <<>> /\ text.resume = <<>>
  /\ ~ text.over => text.result = <<>>
  /\ text.messages \subseteq 1..text.arrived
StreamInv == text \in TextRecords /\ HeldBack /\ TextAccounted

\* The elements of a concatenation.
LEMMA ConcatElements ==
  \A a, b \in Seq(Nat) : a \o b \in Seq(Nat) /\ ToSet(a \o b) = ToSet(a) \cup ToSet(b)
<1> TAKE a, b \in Seq(Nat)
<1> DEFINE c == a \o b
<1>1. /\ c \in Seq(Nat) /\ Len(a) \in Nat /\ Len(b) \in Nat /\ Len(c) = Len(a) + Len(b)
      /\ \A i \in 1..Len(a) + Len(b) : c[i] = IF i <= Len(a) THEN a[i] ELSE b[i - Len(a)]
  BY ConcatProperties
<1>2. DOMAIN c = 1..Len(c) /\ DOMAIN a = 1..Len(a) /\ DOMAIN b = 1..Len(b)
  BY <1>1
<1> HIDE DEF c
<1>3. \A i \in 1..Len(a) : i \in 1..Len(c) /\ c[i] = a[i]
  BY <1>1
<1>4. \A i \in 1..Len(b) : i + Len(a) \in 1..Len(c) /\ c[i + Len(a)] = b[i]
  <2> TAKE i \in 1..Len(b)
  <2>1. i + Len(a) \in 1..Len(a) + Len(b) /\ ~ (i + Len(a) <= Len(a))
        /\ (i + Len(a)) - Len(a) = i
    BY <1>1
  <2> QED
    BY <1>1, <2>1
<1>5. \A i \in 1..Len(c) : (i \in 1..Len(a) /\ c[i] = a[i])
                           \/ (i - Len(a) \in 1..Len(b) /\ c[i] = b[i - Len(a)])
  BY <1>1
<1>6. \A x : x \in ToSet(c) <=> \E i \in 1..Len(c) : c[i] = x
  BY <1>2 DEF ToSet
<1>7. \A x : x \in ToSet(a) <=> \E i \in 1..Len(a) : a[i] = x
  BY <1>2 DEF ToSet
<1>8. \A x : x \in ToSet(b) <=> \E i \in 1..Len(b) : b[i] = x
  BY <1>2 DEF ToSet
<1>9. \A x : x \in ToSet(c) <=> x \in ToSet(a) \/ x \in ToSet(b)
  BY <1>3, <1>4, <1>5, <1>6, <1>7, <1>8
<1> QED
  BY <1>1, <1>9 DEF c

\* The end of sorted text is taken off: the rest is sorted and holds what it did.
LEMMA SortedFront ==
  ASSUME NEW a \in Seq(Nat), NEW b \in Seq(Nat), InOrder(a \o b)
  PROVE  InOrder(a) /\ ToSet(a) = ToSet(a \o b) \ ToSet(b)
<1> DEFINE c == a \o b
<1>1. /\ c \in Seq(Nat) /\ Len(a) \in Nat /\ Len(b) \in Nat /\ Len(c) = Len(a) + Len(b)
      /\ \A i \in 1..Len(a) + Len(b) : c[i] = IF i <= Len(a) THEN a[i] ELSE b[i - Len(a)]
  BY ConcatProperties
<1>2. \A i, j \in 1..Len(c) : i < j => c[i] < c[j]
  BY DEF InOrder
<1>3. ToSet(c) = ToSet(a) \cup ToSet(b)
  BY ConcatElements
<1>4. DOMAIN a = 1..Len(a) /\ DOMAIN b = 1..Len(b)
  OBVIOUS
<1> HIDE DEF c
<1>5. \A i \in 1..Len(a) : i \in 1..Len(c) /\ c[i] = a[i] /\ a[i] \in Nat
  BY <1>1
<1>6. \A i \in 1..Len(b) : i + Len(a) \in 1..Len(c) /\ c[i + Len(a)] = b[i]
  <2> TAKE i \in 1..Len(b)
  <2>1. i + Len(a) \in 1..Len(a) + Len(b) /\ ~ (i + Len(a) <= Len(a))
        /\ (i + Len(a)) - Len(a) = i
    BY <1>1
  <2> QED
    BY <1>1, <2>1
<1>7. InOrder(a)
  BY <1>2, <1>5 DEF InOrder
<1>8. \A i \in 1..Len(a), j \in 1..Len(b) : a[i] # b[j]
  <2> TAKE i \in 1..Len(a), j \in 1..Len(b)
  <2>1. i < j + Len(a)
    BY <1>1
  <2> QED
    BY <1>2, <1>5, <1>6, <2>1
<1>9. ToSet(a) \cap ToSet(b) = {}
  BY <1>4, <1>8 DEF ToSet
<1> QED
  BY <1>3, <1>7, <1>9 DEF c

\* A later piece comes to the end of sorted text.
LEMMA SortedAppend ==
  ASSUME NEW a \in Seq(Nat), NEW p \in Nat, InOrder(a), \A x \in ToSet(a) : x < p
  PROVE  InOrder(a \o <<p>>) /\ ToSet(a \o <<p>>) = ToSet(a) \cup {p}
<1> DEFINE c == a \o <<p>>
<1>1. /\ c \in Seq(Nat) /\ Len(a) \in Nat /\ Len(c) = Len(a) + 1 /\ c[Len(a) + 1] = p
      /\ \A i \in 1..Len(a) : c[i] = a[i]
  OBVIOUS
<1>2. ToSet(c) = ToSet(a) \cup ToSet(<<p>>)
  <2>1. <<p>> \in Seq(Nat)
    OBVIOUS
  <2> QED
    BY <2>1, ConcatElements
<1>3. ToSet(<<p>>) = {p}
  <2>1. DOMAIN <<p>> = {1} /\ <<p>>[1] = p
    OBVIOUS
  <2> QED
    BY <2>1 DEF ToSet
<1> HIDE DEF c
<1>4. \A i \in 1..Len(a) : a[i] < p /\ a[i] \in Nat
  <2>1. DOMAIN a = 1..Len(a)
    OBVIOUS
  <2> QED
    BY <2>1 DEF ToSet
<1>5. \A i, j \in 1..Len(a) : i < j => a[i] < a[j]
  BY DEF InOrder
<1>6. InOrder(c)
  <2> SUFFICES ASSUME NEW i \in 1..Len(c), NEW j \in 1..Len(c), i < j PROVE c[i] < c[j]
    BY DEF InOrder
  <2>1. i \in 1..Len(a) /\ (j \in 1..Len(a) \/ j = Len(a) + 1)
    BY <1>1
  <2> QED
    BY <1>1, <1>4, <1>5, <2>1
<1> QED
  BY <1>2, <1>3, <1>6 DEF c
\* Concatenation is associative (a form the first-order provers instantiate).
LEMMA Associative ==
  \A a, b, c \in Seq(Nat) : (a \o b) \o c = a \o (b \o c)
BY Z3

\* A piece that arrives comes after everything before it.
LEMMA PieceArrives ==
  ASSUME StreamInv
  PROVE  /\ AllText \in Seq(Nat) /\ Piece \in Nat /\ AllText \o <<Piece>> \in Seq(Nat)
         /\ InOrder(AllText \o <<Piece>>)
         /\ ToSet(AllText \o <<Piece>>) = 1..Piece \ text.messages
<1>1. /\ text.shown \in Seq(Nat) /\ text.result \in Seq(Nat) /\ text.resume \in Seq(Nat)
      /\ text.post \in Seq(Nat) /\ text.line \in Seq(Nat) /\ text.arrived \in Nat
      /\ text.messages \subseteq 1..text.arrived
  <2>1. 1..MaxPieces \subseteq Nat /\ 0..MaxPieces \subseteq Nat
    BY StreamAssumption
  <2>2. Seq(1..MaxPieces) \subseteq Seq(Nat)
    BY <2>1, SeqMonotonic
  <2> QED
    BY <2>1, <2>2 DEF StreamInv, TextRecords, HeldBack
<1>2. AllText \in Seq(Nat) /\ Piece = text.arrived + 1
  BY <1>1 DEF AllText, Piece
<1>3. InOrder(AllText) /\ ToSet(AllText) = 1..text.arrived \ text.messages
  BY DEF StreamInv, TextAccounted
<1>4. \A x \in ToSet(AllText) : x < Piece
  BY <1>1, <1>2, <1>3
<1>5. Piece \in Nat /\ AllText \o <<Piece>> \in Seq(Nat)
  BY <1>1, <1>2
<1>6. InOrder(AllText \o <<Piece>>) /\ ToSet(AllText \o <<Piece>>) = ToSet(AllText) \cup {Piece}
  BY <1>2, <1>3, <1>4, <1>5, SortedAppend
<1>7. (1..text.arrived \ text.messages) \cup {Piece} = 1..Piece \ text.messages
  <2>1. \A x : x \in 1..Piece <=> x \in 1..text.arrived \/ x = Piece
    BY <1>1, <1>2
  <2>2. Piece \notin text.messages
    BY <1>1, <1>2
  <2> QED
    BY <2>1, <2>2
<1> QED
  BY <1>2, <1>3, <1>5, <1>6, <1>7

\* The text as the fields of its record, all of them sequences of numbers.
LEMMA TextFields ==
  ASSUME text \in TextRecords
  PROVE  /\ text.shown \in Seq(Nat) /\ text.result \in Seq(Nat) /\ text.resume \in Seq(Nat)
         /\ text.post \in Seq(Nat) /\ text.line \in Seq(Nat)
<1>1. 1..MaxPieces \subseteq Nat
  BY StreamAssumption
<1>2. Seq(1..MaxPieces) \subseteq Seq(Nat)
  BY <1>1, SeqMonotonic
<1> QED
  BY <1>2 DEF TextRecords

LEMMA DeltaInv ==
  ASSUME StreamInv, TextDelta
  PROVE  StreamInv'
<1> DEFINE l == text.line \o <<Piece>>
           front == ((text.shown \o text.result) \o text.resume) \o text.post
<1>1. text \in TextRecords /\ HeldBack /\ TextAccounted
  BY DEF StreamInv
<1>2. /\ Piece \in 1..MaxPieces /\ Piece = text.arrived + 1 /\ Piece \in 0..MaxPieces
      /\ text.over = FALSE /\ text.result = <<>> /\ text.arrived \in Nat
  BY <1>1, StreamAssumption DEF TextDelta, Arriving, Streaming, Piece, TextRecords, HeldBack
<1>3. /\ text.shown \in Seq(Nat) /\ text.result \in Seq(Nat) /\ text.resume \in Seq(Nat)
      /\ text.post \in Seq(Nat) /\ text.line \in Seq(Nat) /\ Piece \in Nat
      /\ <<Piece>> \in Seq(Nat)
  BY <1>1, <1>2, TextFields
<1>4. /\ l \in Seq(Nat) /\ l \in Seq(1..MaxPieces) /\ front \in Seq(Nat)
      /\ AllText \o <<Piece>> = front \o l
  <2>1. l \in Seq(Nat) /\ l \in Seq(1..MaxPieces) /\ front \in Seq(Nat)
    BY <1>1, <1>2, <1>3 DEF TextRecords
  <2>2. AllText = front \o text.line
    BY DEF AllText
  <2>3. (front \o text.line) \o <<Piece>> = front \o l
    <3>1. PICK x \in Seq(Nat), y \in Seq(Nat), z \in Seq(Nat) :
            x = front /\ y = text.line /\ z = <<Piece>>
      BY <1>3, <2>1
    <3>2. (x \o y) \o z = x \o (y \o z)
      BY Associative, Zenon
    <3> QED
      BY <3>1, <3>2, Zenon
  <2> QED
    BY <2>1, <2>2, <2>3
<1>5. /\ InOrder(front \o l)
      /\ ToSet(front \o l) = 1..Piece \ text.messages
  BY <1>4, PieceArrives, Zenon
<1>6. ToSet(front \o l) = ToSet(front) \cup ToSet(l)
  BY <1>4, ConcatElements, Zenon
<1> HIDE DEF front, l
<1>7. ToSet(l) \subseteq 1..MaxPieces /\ ToSet(l) \subseteq 1..Piece
  <2>1. ToSet(l) \subseteq 1..Piece
    BY <1>5, <1>6
  <2> QED
    BY <1>2, <2>1, StreamAssumption
<1> USE DEF front
<1> DEFINE t == [text EXCEPT !.arrived = Piece, !.deltas = TRUE]
<1>8. /\ t \in TextRecords /\ t.arrived = Piece /\ t.deltas = TRUE /\ t.shown = text.shown
      /\ t.resume = text.resume /\ t.post = text.post /\ t.line = text.line
      /\ t.active = text.active /\ t.messages = text.messages /\ t.over = FALSE
      /\ t.result = <<>>
  BY <1>1, <1>2 DEF TextRecords
<1>9. text' \in Detected(t, l)
  BY DEF TextDelta, t, l
<1> HIDE DEF t
<1>10. CASE text' = [t EXCEPT !.line = l]
  <2>1. /\ text' \in TextRecords /\ HeldBack'
        /\ text'.arrived = Piece /\ text'.messages = text.messages
        /\ text'.shown = text.shown /\ text'.result = text.result
        /\ text'.resume = text.resume /\ text'.post = text.post /\ text'.line = l
    <3>1. text' \in TextRecords
      BY <1>4, <1>8, <1>10 DEF TextRecords
    <3>2. /\ text'.arrived = Piece /\ text'.messages = text.messages
          /\ text'.shown = text.shown /\ text'.result = text.result
          /\ text'.resume = text.resume /\ text'.post = text.post /\ text'.line = l
          /\ text'.active = text.active /\ text'.deltas = TRUE /\ text'.over = FALSE
      BY <1>2, <1>8, <1>10 DEF TextRecords
    <3>3. text.messages \subseteq 1..Piece
      BY <1>1, <1>2 DEF HeldBack
    <3> QED
      BY <1>1, <1>2, <3>1, <3>2, <3>3 DEF HeldBack
  <2>2. AllText' = front \o l
    BY <2>1 DEF AllText
  <2> QED
    BY <1>5, <2>1, <2>2 DEF StreamInv, TextAccounted
<1>11. CASE text' = [t EXCEPT !.line = <<>>, !.messages = @ \cup ToSet(l)]
  <2>1. /\ text' \in TextRecords /\ HeldBack'
        /\ text'.arrived = Piece /\ text'.messages = text.messages \cup ToSet(l)
        /\ text'.shown = text.shown /\ text'.result = text.result
        /\ text'.resume = text.resume /\ text'.post = text.post /\ text'.line = <<>>
    <3>1. text.messages \cup ToSet(l) \subseteq 1..MaxPieces
      BY <1>1, <1>7 DEF TextRecords
    <3>2. text' \in TextRecords
      BY <1>8, <1>11, <3>1 DEF TextRecords
    <3>3. /\ text'.arrived = Piece /\ text'.messages = text.messages \cup ToSet(l)
          /\ text'.shown = text.shown /\ text'.result = text.result
          /\ text'.resume = text.resume /\ text'.post = text.post /\ text'.line = <<>>
          /\ text'.active = text.active /\ text'.deltas = TRUE /\ text'.over = FALSE
      BY <1>2, <1>8, <1>11 DEF TextRecords
    <3>4. text.messages \cup ToSet(l) \subseteq 1..Piece
      <4>1. text.messages \subseteq 1..Piece
        BY <1>1, <1>2 DEF HeldBack
      <4> QED
        BY <1>7, <4>1
    <3> QED
      BY <1>1, <1>2, <3>2, <3>3, <3>4 DEF HeldBack
  <2>2. AllText' = front \o <<>>
    BY <2>1 DEF AllText
  <2>3. AllText' = front
    BY <1>4, <2>2
  <2>4. InOrder(front) /\ ToSet(front) = ToSet(front \o l) \ ToSet(l)
    BY <1>4, <1>5, SortedFront
  <2>5. ToSet(front) = 1..Piece \ (text.messages \cup ToSet(l))
    BY <1>5, <2>4
  <2> QED
    BY <2>1, <2>3, <2>4, <2>5 DEF StreamInv, TextAccounted
<1>12. CASE text' = Through([t EXCEPT !.line = <<>>], l)
  <2> DEFINE v == [t EXCEPT !.line = <<>>]
  <2>1. /\ v \in TextRecords /\ v.arrived = Piece /\ v.deltas = TRUE /\ v.shown = text.shown
        /\ v.resume = text.resume /\ v.post = text.post /\ v.line = <<>>
        /\ v.active = text.active /\ v.messages = text.messages /\ v.over = FALSE
        /\ v.result = <<>>
    BY <1>8 DEF TextRecords
  <2> HIDE DEF v
  <2>2. CASE text.messages # {}
    <3>1. text' = [v EXCEPT !.post = @ \o l]
      BY <1>12, <2>1, <2>2 DEF Through, v
    <3>2. text.post \o l \in Seq(1..MaxPieces)
      BY <1>1, <1>4 DEF TextRecords
    <3>3. /\ text' \in TextRecords /\ HeldBack'
          /\ text'.arrived = Piece /\ text'.messages = text.messages
          /\ text'.shown = text.shown /\ text'.result = text.result
          /\ text'.resume = text.resume /\ text'.post = text.post \o l /\ text'.line = <<>>
      <4>1. text' \in TextRecords
        BY <2>1, <3>1, <3>2 DEF TextRecords
      <4>2. /\ text'.arrived = Piece /\ text'.messages = text.messages
            /\ text'.shown = text.shown /\ text'.result = text.result
            /\ text'.resume = text.resume /\ text'.post = text.post \o l /\ text'.line = <<>>
            /\ text'.active = text.active /\ text'.deltas = TRUE /\ text'.over = FALSE
        BY <1>2, <2>1, <3>1 DEF TextRecords
      <4>3. text.messages \subseteq 1..Piece
        BY <1>1, <1>2 DEF HeldBack
      <4> QED
        BY <1>1, <1>2, <2>2, <4>1, <4>2, <4>3 DEF HeldBack
    <3>4. AllText' = (((text.shown \o text.result) \o text.resume) \o (text.post \o l)) \o <<>>
      BY <3>3 DEF AllText
    <3>5. ((text.shown \o text.result) \o text.resume) \o (text.post \o l) = front \o l
      <4>1. (text.shown \o text.result) \o text.resume \in Seq(Nat)
        BY <1>3
      <4> QED
        BY <1>3, <1>4, <4>1, Associative, Zenon
    <3>6. AllText' = front \o l
      BY <1>4, <3>4, <3>5
    <3> QED
      BY <1>5, <3>3, <3>6 DEF StreamInv, TextAccounted
  <2>3. CASE text.messages = {} /\ text.active
    <3>1. text' = [v EXCEPT !.resume = @ \o l]
      BY <1>12, <2>1, <2>3 DEF Through, v
    <3>2. text.resume \o l \in Seq(1..MaxPieces) /\ text.post = <<>>
      BY <1>1, <1>4, <2>3 DEF TextRecords, HeldBack
    <3>3. /\ text' \in TextRecords /\ HeldBack'
          /\ text'.arrived = Piece /\ text'.messages = text.messages
          /\ text'.shown = text.shown /\ text'.result = text.result
          /\ text'.resume = text.resume \o l /\ text'.post = text.post /\ text'.line = <<>>
      BY <1>1, <1>2, <2>1, <2>3, <3>1, <3>2 DEF TextRecords, HeldBack
    <3>4. AllText' = (((text.shown \o text.result) \o (text.resume \o l)) \o <<>>) \o <<>>
      BY <3>2, <3>3 DEF AllText
    <3>5. (text.shown \o text.result) \o (text.resume \o l) = front \o l
      <4>1. text.shown \o text.result \in Seq(Nat)
            /\ (text.shown \o text.result) \o text.resume \in Seq(Nat)
        BY <1>3
      <4>2. front = (text.shown \o text.result) \o text.resume
        BY <3>2, <4>1
      <4>3. PICK x \in Seq(Nat), y \in Seq(Nat), z \in Seq(Nat) :
              x = text.shown \o text.result /\ y = text.resume /\ z = l
        BY <1>3, <1>4, <4>1
      <4>4. (x \o y) \o z = x \o (y \o z)
        BY Associative, Zenon
      <4> HIDE DEF front
      <4> QED
        BY <4>2, <4>3, <4>4, Zenon
    <3>6. AllText' = front \o l
      BY <1>4, <3>4, <3>5
    <3> QED
      BY <1>5, <3>3, <3>6 DEF StreamInv, TextAccounted
  <2>4. CASE text.messages = {} /\ ~ text.active
    <3>1. text' = [v EXCEPT !.shown = @ \o l]
      BY <1>12, <2>1, <2>4 DEF Through, v
    <3>2. /\ text.shown \o l \in Seq(1..MaxPieces) /\ text.shown \o l \in Seq(Nat)
          /\ text.post = <<>> /\ text.resume = <<>>
      BY <1>1, <1>3, <1>4, <2>4 DEF TextRecords, HeldBack
    <3>3. /\ text' \in TextRecords /\ HeldBack'
          /\ text'.arrived = Piece /\ text'.messages = text.messages
          /\ text'.shown = text.shown \o l /\ text'.result = <<>>
          /\ text'.resume = <<>> /\ text'.post = <<>> /\ text'.line = <<>>
      BY <1>1, <1>2, <2>1, <2>4, <3>1, <3>2 DEF TextRecords, HeldBack
    <3>4. AllText' = text.shown \o l
      BY <3>2, <3>3 DEF AllText
    <3>5. front = text.shown
      BY <1>2, <1>3, <3>2
    <3> QED
      BY <1>5, <3>3, <3>4, <3>5 DEF StreamInv, TextAccounted
  <2> QED
    BY <2>2, <2>3, <2>4
<1> QED
  BY <1>9, <1>10, <1>11, <1>12 DEF Detected

LEMMA MessageInv ==
  ASSUME StreamInv, AssistantMessage
  PROVE  StreamInv'
<1>1. text \in TextRecords /\ HeldBack /\ TextAccounted
  BY DEF StreamInv
<1>2. /\ Piece \in 1..MaxPieces /\ Piece = text.arrived + 1 /\ Piece \in 0..MaxPieces
      /\ text.over = FALSE /\ text.result = <<>> /\ text.arrived \in Nat
      /\ text.line = <<>> /\ text.post = <<>> /\ text.resume = <<>> /\ text.deltas = FALSE
  BY <1>1, StreamAssumption DEF AssistantMessage, Arriving, Streaming, Piece, TextRecords, HeldBack
<1>3. text.shown \in Seq(Nat) /\ AllText = text.shown
  BY <1>1, <1>2, TextFields DEF AllText
<1> DEFINE s == text.shown \o <<Piece>>
<1>4. s \in Seq(1..MaxPieces) /\ s \in Seq(Nat) /\ s \o <<>> = s
  BY <1>1, <1>2, <1>3 DEF TextRecords
<1>5. InOrder(s) /\ ToSet(s) = 1..Piece \ text.messages
  BY <1>3, PieceArrives
<1> HIDE DEF s
<1>6. text' = Released([text EXCEPT !.arrived = Piece, !.shown = s])
  BY DEF AssistantMessage, s
<1>7. /\ text' \in TextRecords /\ HeldBack'
      /\ text'.arrived = Piece /\ text'.messages = text.messages
      /\ text'.shown = s /\ text'.result = <<>>
      /\ text'.resume = <<>> /\ text'.post = <<>> /\ text'.line = <<>>
  <2>1. text.resume \in Seq(1..MaxPieces) /\ <<>> \in Seq(1..MaxPieces) /\ s \o text.resume = s
    BY <1>2, <1>4
  <2>2. text' = [text EXCEPT !.arrived = Piece, !.shown = s, !.active = FALSE, !.resume = <<>>]
    BY <1>1, <1>2, <1>6, <2>1 DEF TextRecords, Released
  <2>3. text' \in TextRecords
    BY <1>1, <1>2, <1>4, <2>1, <2>2 DEF TextRecords
  <2>4. /\ text'.arrived = Piece /\ text'.messages = text.messages
        /\ text'.shown = s /\ text'.result = <<>>
        /\ text'.resume = <<>> /\ text'.post = <<>> /\ text'.line = <<>>
        /\ text'.active = FALSE /\ text'.deltas = FALSE /\ text'.over = FALSE
    BY <1>1, <1>2, <2>2 DEF TextRecords
  <2>5. text.messages \subseteq 1..Piece
    BY <1>1, <1>2 DEF HeldBack
  <2> QED
    BY <2>3, <2>4, <2>5 DEF HeldBack
<1>8. AllText' = s
  BY <1>4, <1>7 DEF AllText
<1> QED
  BY <1>5, <1>7, <1>8 DEF StreamInv, TextAccounted

LEMMA ContextInv ==
  ASSUME StreamInv, ContextShown
  PROVE  StreamInv'
<1>1. text \in TextRecords /\ HeldBack /\ TextAccounted
  BY DEF StreamInv
<1>2. text.over = FALSE /\ text.result = <<>>
  BY <1>1 DEF ContextShown, Streaming, TextRecords, HeldBack
<1>3. /\ text.shown \in Seq(Nat) /\ text.resume \in Seq(Nat)
      /\ text.post \in Seq(Nat) /\ text.line \in Seq(Nat)
  BY <1>1, TextFields
<1>4. text.shown \o text.resume \in Seq(1..MaxPieces) /\ text.shown \o text.resume \in Seq(Nat)
  BY <1>1, <1>3 DEF TextRecords
<1>5. /\ text' \in TextRecords /\ HeldBack'
      /\ text'.arrived = text.arrived /\ text'.messages = text.messages
      /\ text'.shown = text.shown \o text.resume /\ text'.result = <<>>
      /\ text'.resume = <<>> /\ text'.post = text.post /\ text'.line = text.line
  BY <1>1, <1>2, <1>4 DEF TextRecords, HeldBack, ContextShown, Released
<1>6. AllText' = AllText
  <2>1. AllText' = ((((text.shown \o text.resume) \o <<>>) \o <<>>) \o text.post) \o text.line
    BY <1>5 DEF AllText
  <2>2. AllText = (((text.shown \o <<>>) \o text.resume) \o text.post) \o text.line
    BY <1>2 DEF AllText
  <2> QED
    BY <1>3, <1>4, <2>1, <2>2
<1> QED
  BY <1>1, <1>5, <1>6 DEF StreamInv, TextAccounted

LEMMA CloseInv ==
  ASSUME StreamInv, StreamCloses
  PROVE  StreamInv'
<1> DEFINE a == text.shown
           u == text.resume
           q == text.post
           l == text.line
           front == (a \o u) \o q
<1>1. text \in TextRecords /\ HeldBack /\ TextAccounted
  BY DEF StreamInv
<1>2. text.over = FALSE /\ text.result = <<>>
  BY <1>1 DEF StreamCloses, Streaming, TextRecords, HeldBack
<1>3. a \in Seq(Nat) /\ u \in Seq(Nat) /\ q \in Seq(Nat) /\ l \in Seq(Nat)
  BY <1>1, TextFields
<1>4. AllText = front \o l
  BY <1>2, <1>3 DEF AllText
<1>5. (IF text.active THEN u ELSE <<>>) = u
  BY <1>1 DEF HeldBack
<1>6. PICK message \in BOOLEAN :
        text' = [text EXCEPT !.over = TRUE, !.line = <<>>, !.post = <<>>, !.resume = <<>>,
          !.messages = IF message THEN @ \cup ToSet(l) ELSE @,
          !.result = (u \o q) \o (IF message THEN <<>> ELSE l)]
  BY <1>5 DEF StreamCloses
<1>7. ToSet(l) \subseteq 1..text.arrived /\ ToSet(l) \subseteq 1..MaxPieces
  <2>1. ToSet(l) \subseteq ToSet(AllText)
    <3>1. front \in Seq(Nat)
      BY <1>3
    <3>2. ToSet(front \o l) = ToSet(front) \cup ToSet(l)
      BY <1>3, <3>1, ConcatElements, Zenon
    <3> QED
      BY <1>4, <3>2
  <2>2. text.arrived \in Nat /\ text.arrived <= MaxPieces
    BY <1>1, StreamAssumption DEF TextRecords
  <2> QED
    BY <1>1, <2>1, <2>2, StreamAssumption DEF TextAccounted
<1>8. /\ a \o ((u \o q) \o l) = front \o l /\ a \o (u \o q) = front /\ front \in Seq(Nat)
      /\ u \o q \in Seq(Nat)
  <2>1. PICK x \in Seq(Nat), y \in Seq(Nat), z \in Seq(Nat), w \in Seq(Nat) :
          x = a /\ y = u /\ z = q /\ w = l
    BY <1>3
  <2>2. /\ x \o ((y \o z) \o w) = ((x \o y) \o z) \o w
        /\ x \o (y \o z) = (x \o y) \o z
        /\ x \o y \in Seq(Nat) /\ (x \o y) \o z \in Seq(Nat) /\ y \o z \in Seq(Nat)
    <3>1. x \o y \in Seq(Nat) /\ y \o z \in Seq(Nat) /\ (x \o y) \o z \in Seq(Nat)
      OBVIOUS
    <3>2. x \o (y \o z) = (x \o y) \o z
      BY Associative, Zenon
    <3>3. x \o ((y \o z) \o w) = (x \o (y \o z)) \o w
      BY <3>1, Associative, Zenon
    <3> QED
      BY <3>1, <3>2, <3>3, Zenon
  <2> QED
    BY <2>1, <2>2, Zenon
<1>9. /\ u \o q \in Seq(1..MaxPieces) /\ (u \o q) \o l \in Seq(1..MaxPieces)
      /\ (u \o q) \o <<>> = u \o q /\ <<>> \in Seq(1..MaxPieces)
  BY <1>1, <1>8 DEF TextRecords
<1>10. CASE message
  <2>1. /\ text' \in TextRecords /\ HeldBack'
        /\ text'.arrived = text.arrived /\ text'.messages = text.messages \cup ToSet(l)
        /\ text'.shown = a /\ text'.result = u \o q
        /\ text'.resume = <<>> /\ text'.post = <<>> /\ text'.line = <<>>
    BY <1>1, <1>6, <1>7, <1>9, <1>10 DEF TextRecords, HeldBack
  <2>2. AllText' = front
    <3>1. AllText' = (((a \o (u \o q)) \o <<>>) \o <<>>) \o <<>>
      BY <2>1 DEF AllText
    <3> QED
      BY <1>8, <3>1
  <2>3. InOrder(front) /\ ToSet(front) = ToSet(front \o l) \ ToSet(l)
    BY <1>1, <1>3, <1>4, <1>8, SortedFront DEF TextAccounted
  <2> QED
    BY <1>1, <1>4, <2>1, <2>2, <2>3 DEF StreamInv, TextAccounted
<1>11. CASE ~ message
  <2>1. /\ text' \in TextRecords /\ HeldBack'
        /\ text'.arrived = text.arrived /\ text'.messages = text.messages
        /\ text'.shown = a /\ text'.result = (u \o q) \o l
        /\ text'.resume = <<>> /\ text'.post = <<>> /\ text'.line = <<>>
    BY <1>1, <1>6, <1>9, <1>11 DEF TextRecords, HeldBack
  <2>2. AllText' = AllText
    <3>1. AllText' = (((a \o ((u \o q) \o l)) \o <<>>) \o <<>>) \o <<>>
      BY <2>1 DEF AllText
    <3>2. front \o l \in Seq(Nat)
      BY <1>3, <1>8
    <3> QED
      BY <1>4, <1>8, <3>1, <3>2
  <2> QED
    BY <1>1, <2>1, <2>2 DEF StreamInv, TextAccounted
<1> QED
  BY <1>10, <1>11

\* At first nothing has arrived.
LEMMA StreamStart == StreamInit => StreamInv
<1> SUFFICES ASSUME StreamInit PROVE StreamInv
  OBVIOUS
<1>1. /\ text \in TextRecords /\ HeldBack /\ text.arrived = 0 /\ text.shown = <<>>
      /\ text.result = <<>> /\ text.resume = <<>> /\ text.post = <<>> /\ text.line = <<>>
  BY StreamAssumption DEF StreamInit, TextRecords, HeldBack
<1>2. AllText = <<>>
  BY <1>1 DEF AllText
<1>3. InOrder(<<>>) /\ ToSet(<<>>) = {} /\ 1..0 = {}
  BY DEF InOrder, ToSet
<1> QED
  BY <1>1, <1>2, <1>3 DEF StreamInv, TextAccounted

\* One case for each action.
LEMMA StreamStep == StreamInv /\ [StreamNext]_text => StreamInv'
<1>1. StreamInv /\ UNCHANGED text => StreamInv'
  BY DEF StreamInv, HeldBack, TextAccounted, AllText
<1> QED
  BY <1>1, DeltaInv, MessageInv, ContextInv, CloseInv DEF StreamNext

\* Whatever the CLI wrote is shown, held back or handed over with the result, once and
\* in its order, but for the timeout messages (claude-invoker-stream.ts, stall-detector),
\* for any number of pieces.
THEOREM TextAccountedHolds == StreamSpec => []TextAccounted
<1>1. StreamInv => TextAccounted
  BY DEF StreamInv
<1> QED
  BY <1>1, StreamStart, StreamStep, PTL DEF StreamSpec

--------------------------------------------------------------------------------
\* The queue of the session stays within its bound, the reviews in their phases.
QueueBounded ==
  /\ openCode.queue \in 0..MaxQueued
  /\ openCodeReview \in [Permissions ->
       {"none", "review", "once", "reject", "answered", "unanswered"}]

\* An event takes one place of the queue, unless the consumer waits for it.
LEMMA EmittedQueue ==
  ASSUME NEW e \in EngineRecords
  PROVE  Emitted(e).queue \in {e.queue, e.queue + 1} /\ Emitted(e) \in EngineRecords
<1>1. Emitted(e) \in {e, [e EXCEPT !.waiting = FALSE], [e EXCEPT !.queue = @ + 1]}
  BY DEF Emitted
<1>2. Emitted(e).queue \in {e.queue, e.queue + 1}
  BY <1>1 DEF EngineRecords
<1> QED
  BY <1>2, EmittedKeeps

\* So does what is shown to the user.
LEMMA ShownQueue ==
  ASSUME NEW e \in EngineRecords
  PROVE  Shown(e).queue \in {e.queue, e.queue + 1} /\ Shown(e) \in EngineRecords
BY EmittedQueue DEF Shown

\* One case for each action: what asks for room gets at most that.
LEMMA QueueStep ==
  ASSUME OpenCodeInv, QueueBounded, [OpenCodeNext]_openCodeVars
  PROVE  QueueBounded'
<1>1. /\ openCode \in EngineRecords /\ openCode.queue \in 0..MaxQueued /\ MaxQueued \in Nat
      /\ openCodeReview \in [Permissions ->
           {"none", "review", "once", "reject", "answered", "unanswered"}]
  BY OpenCodeAssumption DEF OpenCodeInv, QueueBounded
<1>2. ASSUME openCode'.queue = openCode.queue, UNCHANGED openCodeReview
      PROVE  QueueBounded'
  BY <1>1, <1>2 DEF QueueBounded
<1>3. ASSUME Room, openCode'.queue \in {openCode.queue, openCode.queue + 1, openCode.queue + 2},
             UNCHANGED openCodeReview
      PROVE  QueueBounded'
  BY <1>1, <1>3 DEF QueueBounded, Room
<1>4. CASE StartOpenCode
  BY <1>1, <1>2, <1>4 DEF StartOpenCode, EngineRecords
<1>5. CASE StartStep
  BY <1>1, <1>2, <1>5 DEF StartStep, EngineRecords
<1>6. CASE SendPrompt \/ PromptAccepted
  BY <1>1, <1>2, <1>6 DEF SendPrompt, PromptAccepted, EngineRecords
<1>7. CASE AbortFails \/ PlainEvent
  BY <1>1, <1>3, <1>7, EmittedQueue DEF AbortFails, PlainEvent, Pumping
<1>8. CASE PumpEnds
  <2>1. CASE openCode' = [openCode EXCEPT !.pump = "over"]
    BY <1>1, <1>2, <1>8, <2>1 DEF PumpEnds, EngineRecords
  <2>2. CASE Room /\ openCode' = ClosedIterator(Emitted([openCode EXCEPT !.pump = "over"]))
    <3> DEFINE e == [openCode EXCEPT !.pump = "over"]
    <3>1. e \in EngineRecords /\ e.queue = openCode.queue
      BY <1>1 DEF EngineRecords
    <3> HIDE DEF e
    <3>2. Emitted(e).queue \in {openCode.queue, openCode.queue + 1} /\ Emitted(e) \in EngineRecords
      BY <3>1, EmittedQueue
    <3>3. openCode'.queue = Emitted(e).queue
      BY <2>2, <3>2 DEF ClosedIterator, EngineRecords, e
    <3> QED
      BY <1>3, <1>8, <2>2, <3>2, <3>3 DEF PumpEnds
  <2> QED
    BY <1>8, <2>1, <2>2 DEF PumpEnds
<1>9. CASE Consume
  BY <1>1, <1>9 DEF Consume, EngineRecords, QueueBounded
<1>10. CASE ConsumerReturns \/ DisposeOpenCode \/ DisposePumpOver \/ DisposeDeleted
  BY <1>1, <1>2, <1>10
     DEF ConsumerReturns, DisposeOpenCode, DisposePumpOver, DisposeDeleted, ClosedIterator, EngineRecords
<1>11. ASSUME NEW c \in Calls
       PROVE  /\ Announced(openCode, c).queue \in {openCode.queue, openCode.queue + 1}
              /\ Announced(openCode, c) \in EngineRecords
  <2> DEFINE e == [openCode EXCEPT !.announced = @ \cup {c}]
  <2>1. e \in EngineRecords /\ e.queue = openCode.queue
    BY <1>1 DEF EngineRecords
  <2>2. Announced(openCode, c) \in {openCode, Emitted(e)}
    BY DEF Announced
  <2> HIDE DEF e
  <2> QED
    BY <1>1, <2>1, <2>2, EmittedQueue
<1>12. ASSUME NEW c \in Calls, ToolRunning(c) PROVE QueueBounded'
  BY <1>1, <1>3, <1>11, <1>12 DEF ToolRunning, Pumping
<1>13. ASSUME NEW c \in Calls, ToolOver(c) PROVE QueueBounded'
  <2>1. openCode'.queue \in {Announced(openCode, c).queue, Announced(openCode, c).queue + 1}
    BY <1>11, <1>13, EmittedQueue DEF ToolOver
  <2>2. openCode'.queue \in {openCode.queue, openCode.queue + 1, openCode.queue + 2}
    BY <1>1, <1>11, <2>1
  <2> QED
    BY <1>3, <1>13, <2>2 DEF ToolOver, Pumping
<1>14. ASSUME NEW n \in 0..MaxTokens, Tokens(n) PROVE QueueBounded'
  BY <1>1, <1>2, <1>3, <1>14, EmittedQueue DEF Tokens, Pumping
<1>15. ASSUME NEW p \in Permissions, PermissionAsked(p) PROVE QueueBounded'
  <2>1. openCode'.queue \in {openCode.queue, openCode.queue + 1}
    BY <1>1, <1>15, EmittedQueue DEF PermissionAsked
  <2> QED
    BY <1>1, <1>15, <2>1 DEF PermissionAsked, Pumping, Room, QueueBounded
<1>16. ASSUME NEW p \in Permissions, Reviewed(p) PROVE QueueBounded'
  BY <1>1, <1>16 DEF Reviewed, Verdicts, QueueBounded
<1>17. ASSUME NEW p \in Permissions, PermissionAnswered(p) PROVE QueueBounded'
  <2>1. PICK answered \in BOOLEAN :
          /\ openCode' = LET e == IF answered THEN openCode ELSE Shown(openCode)
                         IN  IF openCodeReview[p] = "reject" THEN Shown(e) ELSE e
          /\ openCodeReview' = [openCodeReview EXCEPT
               ![p] = IF answered THEN "answered" ELSE "unanswered"]
    BY <1>17 DEF PermissionAnswered
  <2> DEFINE e == IF answered THEN openCode ELSE Shown(openCode)
  <2>2. e \in EngineRecords /\ e.queue \in {openCode.queue, openCode.queue + 1}
    BY <1>1, ShownQueue
  <2>3. openCode' \in {e, Shown(e)}
    BY <2>1
  <2> HIDE DEF e
  <2>4. openCode'.queue \in {openCode.queue, openCode.queue + 1, openCode.queue + 2}
    BY <1>1, <2>2, <2>3, ShownQueue
  <2> QED
    BY <1>1, <1>17, <2>1, <2>4 DEF PermissionAnswered, Room, QueueBounded
<1>18. CASE UNCHANGED openCodeVars
  BY <1>18 DEF openCodeVars, QueueBounded
<1> QED
  BY <1>4, <1>5, <1>6, <1>7, <1>8, <1>9, <1>10, <1>12, <1>13, <1>14, <1>15, <1>16, <1>17, <1>18
     DEF OpenCodeNext

\* The two invariants together are the types.
LEMMA OpenCodeTyped == OpenCodeInv /\ QueueBounded => OpenCodeTypeOK
BY DEF OpenCodeInv, QueueBounded, EngineRecords, OpenCodeTypeOK

\* At first the queue is empty.
LEMMA QueueInit == OpenCodeInit => QueueBounded
BY OpenCodeAssumption DEF OpenCodeInit, QueueBounded

--------------------------------------------------------------------------------
\* A run of ClaudeEngine: an extension is only granted where one is left, and every
\* prompt but the one that runs has been answered.
Warnings == 0..WarnTicks
Deadlines == 0..LongestTicks
Caps == 0..CapTicks
Waits == -1..LongestTicks
Grants == 0..MaxExtensions
RunFields ==
  [phase : {"idle", "running", "closing"}, life : {"none", "working", "hung", "term", "kill"},
   interval : BOOLEAN, silence : Warnings, warned : BOOLEAN,
   left : Deadlines, quiet : Warnings, elapsed : Caps,
   asked : Waits, extended : Grants,
   cancelled : BOOLEAN, blamed : Tools \cup {NoTool}, checkpoint : BOOLEAN]
ToolRecords ==
  [pending : BOOLEAN, watch : {"none", "first", "last"},
   asking : {"no", "current", "replaced"}, stray : BOOLEAN]
Grantable(r) == r.asked >= 0 => r.extended < MaxExtensions
RunInv ==
  headless \in RunFields /\ headlessTools \in [Tools -> ToolRecords] /\ Grantable(headless)

\* The ends of the ranges of ticks.
LEMMA Ticks ==
  /\ 0 \in Warnings /\ 0 \in Deadlines /\ KillTicks \in Deadlines /\ 0 \in Caps
  /\ 0 \in Waits /\ -1 \in Waits /\ 0 \in Grants
BY HeadlessAssumption DEF Warnings, Deadlines, Caps, Waits, Grants

\* No assessment is in progress at -1, one is at 0.
LEMMA NotAsked == ~ (-1 >= 0) /\ (0 >= 0)
OBVIOUS

\* A run that is over, and one that starts.
LEMMA RunStarts ==
  /\ NoRun \in RunFields /\ Grantable(NoRun) /\ NoRun.phase = "idle"
  /\ Spawned \in RunFields /\ Grantable(Spawned) /\ Spawned.phase = "running"
<1>1. NoRun \in RunFields
  BY Ticks DEF NoRun, RunFields
<1>2. NoRun.asked = -1
  BY DEF NoRun
<1>3. Spawned \in RunFields /\ Spawned.asked = NoRun.asked /\ Spawned.phase = "running"
  BY <1>1 DEF Spawned, RunFields
<1>4. Grantable(NoRun) /\ Grantable(Spawned)
  BY <1>2, <1>3, NotAsked DEF Grantable
<1> QED
  BY <1>1, <1>3, <1>4 DEF NoRun

\* What the watchdog writes about a call.
LEMMA UnwatchTyped ==
  ASSUME NEW w \in ToolRecords
  PROVE  /\ Unwatch(w) \in ToolRecords /\ Watched(w) \in ToolRecords /\ Unwatched \in ToolRecords
         /\ Extended(w) \in ToolRecords
         /\ [w EXCEPT !.asking = "no"] \in ToolRecords
         /\ [w EXCEPT !.pending = FALSE] \in ToolRecords
BY DEF Unwatch, Watched, Unwatched, Extended, ToolRecords

\* What output and a kill write about a run; neither asks for an assessment.
LEMMA RunEdits ==
  ASSUME NEW r \in RunFields, Grantable(r)
  PROVE  /\ Active(r) \in RunFields /\ Grantable(Active(r))
         /\ Terminated(r) \in RunFields /\ Grantable(Terminated(r))
         /\ Active(r).phase = r.phase /\ Terminated(r).phase = r.phase
<1>1. Active(r) \in RunFields /\ Terminated(r) \in RunFields
  BY Ticks DEF Active, Terminated, RunFields
<1>2. /\ Active(r).asked = r.asked /\ Active(r).extended = r.extended /\ Active(r).phase = r.phase
      /\ Terminated(r).asked = r.asked /\ Terminated(r).extended = r.extended
      /\ Terminated(r).phase = r.phase
  BY DEF Active, Terminated, RunFields
<1> QED
  BY <1>1, <1>2 DEF Grantable

\* A kill by the watchdog leaves a run that has not ended.
LEMMA BlameTyped ==
  ASSUME RunInv, NEW t \in Tools, Blame(t)
  PROVE  RunInv' /\ headless'.phase = headless.phase
<1>1. Checkpoint(t) \in BOOLEAN
  BY DEF Checkpoint
<1>2. headless' \in RunFields /\ Grantable(headless') /\ headless'.phase = headless.phase
  <2>1. Terminated(headless) \in RunFields /\ Grantable(Terminated(headless))
        /\ Terminated(headless).phase = headless.phase
    BY RunEdits DEF RunInv
  <2> DEFINE r == Terminated(headless)
  <2> HIDE DEF r
  <2>2. headless' \in {headless, [r EXCEPT !.blamed = t, !.checkpoint = Checkpoint(t)]}
    BY DEF Blame, r
  <2>3. r \in RunFields /\ Grantable(r) /\ r.phase = headless.phase
    BY <2>1 DEF r
  <2> QED
    BY <1>1, <2>2, <2>3 DEF RunInv, RunFields, Grantable
<1>3. headlessTools' \in [Tools -> ToolRecords]
  <2>1. ASSUME NEW u \in Tools PROVE headlessTools'[u] \in ToolRecords
    <3>1. headlessTools[u] \in ToolRecords
      BY DEF RunInv
    <3> QED
      BY <3>1, UnwatchTyped DEF Blame
  <2> QED
    BY <2>1 DEF Blame
<1> QED
  BY <1>2, <1>3 DEF RunInv, Grantable

\* The parts of the invariant.
LEMMA RunKept ==
  ASSUME headless' \in RunFields, Grantable(headless'), headlessTools' \in [Tools -> ToolRecords]
  PROVE  RunInv'
BY DEF RunInv, Grantable

\* A tick keeps the clocks within their durations.
LEMMA TickTyped ==
  ASSUME NEW r \in RunFields, Grantable(r)
  PROVE  Passed(r) \in RunFields /\ Grantable(Passed(r)) /\ Passed(r).phase = r.phase
<1>1. /\ More(r.silence, WarnTicks) \in Warnings /\ Less(r.left) \in Deadlines
      /\ Less(r.quiet) \in Warnings /\ More(r.elapsed, CapTicks) \in Caps
      /\ (IF r.asked < 0 THEN r.asked ELSE More(r.asked, LongestTicks)) \in Waits
      /\ (IF r.asked < 0 THEN r.asked ELSE More(r.asked, LongestTicks)) >= 0 => r.asked >= 0
  BY HeadlessAssumption DEF RunFields, More, Less, Warnings, Deadlines, Caps, Waits
<1>2. /\ Passed(r) \in RunFields /\ Passed(r).phase = r.phase /\ Passed(r).extended = r.extended
      /\ Passed(r).asked = IF r.asked < 0 THEN r.asked ELSE More(r.asked, LongestTicks)
  BY <1>1 DEF RunFields, Passed
<1> QED
  BY <1>1, <1>2 DEF Grantable

\* Every step of a run but its end.
LEMMA HeadlessStepsTyped ==
  ASSUME RunInv, HeadlessSteps
  PROVE  RunInv' /\ (headless'.phase # "idle" <=> headless.phase # "idle")
<1>1. /\ headless \in RunFields /\ Grantable(headless) /\ headlessTools \in [Tools -> ToolRecords]
      /\ \A t \in Tools : headlessTools[t] \in ToolRecords
  BY DEF RunInv
<1> DEFINE Goal == RunInv' /\ (headless'.phase # "idle" <=> headless.phase # "idle")
<1>2. CASE ProcessWrites
  BY <1>1, <1>2, RunEdits, RunKept DEF ProcessWrites
<1>3. CASE ProcessHangs \/ KillTimer
  <2>1. PICK l \in {"hung", "kill"} : headless' = [headless EXCEPT !.life = l]
    BY <1>3 DEF ProcessHangs, KillTimer
  <2>2. headless' \in RunFields /\ Grantable(headless') /\ headless'.phase = headless.phase
    BY <1>1, <2>1 DEF RunFields, Grantable
  <2> QED
    BY <1>1, <1>3, <2>2, RunKept DEF ProcessHangs, KillTimer
<1>4. CASE ProcessExits
  <2>1. headless' \in RunFields /\ Grantable(headless') /\ headless'.phase = "closing"
    BY <1>1, <1>4 DEF ProcessExits, RunFields, Grantable
  <2>2. headlessTools' \in [Tools -> ToolRecords]
    BY <1>1, <1>4, UnwatchTyped DEF ProcessExits
  <2> QED
    BY <1>4, <2>1, <2>2, RunKept DEF ProcessExits, Running
<1>5. CASE StallTick
  <2>1. PICK f \in BOOLEAN :
          LET r == Passed(headless)
              p == IF f /\ r.left > 0 THEN [r EXCEPT !.left = KillTicks] ELSE r IN
          headless' =
            IF (r.elapsed = CapTicks /\ Flagged(r)) \/ p.left = 0 THEN Terminated(p)
            ELSE IF ~ Silent(p) THEN p
            ELSE IF p.extended < MaxExtensions THEN [p EXCEPT !.asked = 0]
            ELSE [p EXCEPT !.warned = TRUE]
    BY <1>5 DEF StallTick
  <2> DEFINE r == Passed(headless)
             p == IF f /\ r.left > 0 THEN [r EXCEPT !.left = KillTicks] ELSE r
  <2>2. r \in RunFields /\ Grantable(r) /\ r.phase = headless.phase
    BY <1>1, TickTyped
  <2>3. p \in RunFields /\ Grantable(p) /\ p.phase = headless.phase
    <3> HIDE DEF r
    <3>1. p \in {r, [r EXCEPT !.left = KillTicks]}
      OBVIOUS
    <3> HIDE DEF p
    <3> QED
      BY <2>2, <3>1, Ticks DEF RunFields, Grantable
  <2>4. \/ headless' \in {Terminated(p), p, [p EXCEPT !.warned = TRUE]}
        \/ (p.extended < MaxExtensions /\ headless' = [p EXCEPT !.asked = 0])
    <3>1. headless' =
            IF (r.elapsed = CapTicks /\ Flagged(r)) \/ p.left = 0 THEN Terminated(p)
            ELSE IF ~ Silent(p) THEN p
            ELSE IF p.extended < MaxExtensions THEN [p EXCEPT !.asked = 0]
            ELSE [p EXCEPT !.warned = TRUE]
      BY <2>1
    <3> HIDE DEF r, p
    <3> QED
      BY <3>1
  <2> HIDE DEF r, p
  <2>5. headless' \in RunFields /\ Grantable(headless') /\ headless'.phase = headless.phase
    <3>1. CASE headless' = Terminated(p)
      BY <2>3, <3>1, RunEdits
    <3>2. CASE headless' \in {p, [p EXCEPT !.warned = TRUE]}
      BY <2>3, <3>2 DEF RunFields, Grantable
    <3>3. CASE p.extended < MaxExtensions /\ headless' = [p EXCEPT !.asked = 0]
      BY <2>3, <3>3, Ticks DEF RunFields, Grantable
    <3> QED
      BY <2>4, <3>1, <3>2, <3>3
  <2> QED
    BY <1>1, <1>5, <2>5, RunKept DEF StallTick
<1>6. CASE AssessmentEnds
  <2>1. PICK n \in StallVerdicts :
          headless' = IF n > 0 THEN Granted(headless, n)
                      ELSE [headless EXCEPT !.asked = -1, !.warned = TRUE]
    BY <1>6 DEF AssessmentEnds
  <2>2. headless.asked \in Deadlines /\ headless.extended + 1 \in Grants
    BY <1>1, <1>6, HeadlessAssumption
       DEF AssessmentEnds, RunFields, Grantable, Deadlines, Waits, Grants
  <2>3. n > 0 => Until(n) \in Deadlines /\ Until(WarnTicks) \in Warnings
    BY <2>2, HeadlessAssumption DEF StallVerdicts, Until, Deadlines, Warnings
  <2>4. headless' \in RunFields /\ headless'.asked = -1 /\ headless'.phase = headless.phase
    <3>1. CASE n > 0
      BY <1>1, <2>1, <2>2, <2>3, <3>1, Ticks DEF Granted, RunFields
    <3>2. CASE ~ n > 0
      BY <1>1, <2>1, <3>2, Ticks DEF RunFields
    <3> QED
      BY <3>1, <3>2
  <2>5. Grantable(headless')
    BY <2>4, NotAsked DEF Grantable
  <2> QED
    BY <1>1, <1>6, <2>4, <2>5, RunKept DEF AssessmentEnds
<1>7. ASSUME NEW t \in Tools, ToolBegins(t) PROVE Goal
  <2>1. headlessTools' \in [Tools -> ToolRecords]
    BY <1>1, <1>7, UnwatchTyped DEF ToolBegins
  <2> QED
    BY <1>1, <1>7, <2>1, RunEdits, RunKept DEF ToolBegins
<1>8. ASSUME NEW t \in Tools, ToolReturns(t) PROVE Goal
  <2>1. headlessTools' \in [Tools -> ToolRecords]
    BY <1>1, <1>8, UnwatchTyped DEF ToolReturns
  <2> QED
    BY <1>1, <1>8, <2>1, RunEdits, RunKept DEF ToolReturns
<1>9. ASSUME NEW t \in Tools, WatchTimer(t) PROVE Goal
  <2>1. CASE Blame(t)
    BY <2>1, BlameTyped
  <2>2. CASE headlessTools' = [headlessTools EXCEPT ![t].asking = "current"] /\ UNCHANGED headless
    BY <1>1, <2>2, RunKept DEF ToolRecords
  <2> QED
    BY <1>9, <2>1, <2>2 DEF WatchTimer
<1>10. ASSUME NEW t \in Tools, Verdict(t) PROVE Goal
  <2>1. CASE Blame(t)
    BY <2>1, BlameTyped
  <2>2. CASE headlessTools' = [headlessTools EXCEPT ![t] = Extended(@)] /\ UNCHANGED headless
    BY <1>1, <2>2, UnwatchTyped, RunKept
  <2> QED
    BY <1>10, <2>1, <2>2 DEF Verdict
<1>11. ASSUME NEW t \in Tools, StrayTimer(t) PROVE Goal
  <2>1. CASE Blame(t)
    BY <2>1, BlameTyped
  <2>2. CASE headlessTools' = [headlessTools EXCEPT ![t].stray = FALSE] /\ UNCHANGED headless
    BY <1>1, <2>2, RunKept DEF ToolRecords
  <2> QED
    BY <1>11, <2>1, <2>2 DEF StrayTimer
<1> QED
  BY <1>2, <1>3, <1>4, <1>5, <1>6, <1>7, <1>8, <1>9, <1>10, <1>11 DEF HeadlessSteps

\* A run starts, is cleaned up and ends.
LEMMA RunTyped ==
  ASSUME RunInv
  PROVE  /\ StartRun => RunInv' /\ headless'.phase = "running"
         /\ RunResolves => RunInv' /\ headless'.phase = "idle" /\ headless.phase # "idle"
         /\ Cleanup => RunInv' /\ headless'.phase = headless.phase
<1>1. headless \in RunFields /\ Grantable(headless) /\ headlessTools \in [Tools -> ToolRecords]
  BY DEF RunInv
<1>2. Unwatched \in ToolRecords
  BY DEF Unwatched, ToolRecords
<1>3. ASSUME StartRun PROVE RunInv' /\ headless'.phase = "running"
  <2>1. headless' \in RunFields /\ Grantable(headless') /\ headless'.phase = "running"
    BY <1>3, RunStarts DEF StartRun
  <2>2. headlessTools' \in [Tools -> ToolRecords]
    BY <1>2, <1>3 DEF StartRun
  <2> QED
    BY <2>1, <2>2, RunKept
<1>4. ASSUME RunResolves
      PROVE  RunInv' /\ headless'.phase = "idle" /\ headless.phase # "idle"
  <2>1. /\ headless' \in RunFields /\ headless'.asked = -1
        /\ headless'.phase = "idle" /\ headless.phase # "idle"
    BY <1>1, <1>4, Ticks DEF RunResolves, RunFields
  <2>2. Grantable(headless')
    BY <2>1, NotAsked DEF Grantable
  <2>3. headlessTools' \in [Tools -> ToolRecords]
    BY <1>2, <1>4 DEF RunResolves
  <2> QED
    BY <2>1, <2>2, <2>3, RunKept
<1>5. ASSUME Cleanup PROVE RunInv' /\ headless'.phase = headless.phase
  <2>1. /\ headless' \in RunFields /\ headless'.phase = headless.phase
        /\ headless'.asked = headless.asked /\ headless'.extended = headless.extended
    BY <1>1, <1>5 DEF Cleanup, RunFields
  <2>2. headlessTools' \in [Tools -> ToolRecords]
    BY <1>1, <1>5 DEF Cleanup
  <2> QED
    BY <1>1, <2>1, <2>2, RunKept DEF Grantable
<1> QED
  BY <1>3, <1>4, <1>5

\* A session: a run is in flight while its process is, and every prompt but that
\* of the run in flight has had its end.
SessionRecords ==
  [started : BOOLEAN, disposed : BOOLEAN, closing : BOOLEAN, run : BOOLEAN,
   prompts : 0..MaxPrompts, turns : 0..MaxPrompts, iterDone : BOOLEAN, waiting : BOOLEAN]
TurnsOver ==
  /\ claude.run <=> headless.phase # "idle"
  /\ claude.turns <= claude.prompts
  /\ claude.run => claude.turns < claude.prompts
ClaudeInv == RunInv /\ claude \in SessionRecords /\ TurnsOver

\* A session without a step of its counters.
LEMMA SessionKept ==
  ASSUME ClaudeInv, RunInv', headless'.phase # "idle" <=> headless.phase # "idle",
         claude' \in SessionRecords, claude'.run = claude.run,
         claude'.prompts = claude.prompts, claude'.turns = claude.turns
  PROVE  ClaudeInv'
BY DEF ClaudeInv, TurnsOver

\* What an event does to the session.
LEMMA ClaudeToldTyped ==
  ASSUME NEW c \in SessionRecords, NEW fatal \in BOOLEAN
  PROVE  /\ ClaudeTold(c, fatal) \in SessionRecords /\ ClaudeTold(c, fatal).run = c.run
         /\ ClaudeTold(c, fatal).prompts = c.prompts /\ ClaudeTold(c, fatal).turns = c.turns
BY DEF ClaudeTold, SessionRecords

\* One case for each action.
LEMMA ClaudeStep ==
  ASSUME ClaudeInv, [ClaudeNext]_claudeVars
  PROVE  ClaudeInv'
<1>1. claude \in SessionRecords /\ RunInv
  BY DEF ClaudeInv
<1>2. ASSUME UNCHANGED headlessVars
      PROVE  RunInv' /\ (headless'.phase # "idle" <=> headless.phase # "idle")
  BY <1>1, <1>2 DEF headlessVars, RunInv, Grantable
<1>3. CASE ClaudeStart \/ ClaudeDisposed \/ ClaudeConsume
  <2>1. /\ claude' \in SessionRecords /\ claude'.run = claude.run
        /\ claude'.prompts = claude.prompts /\ claude'.turns = claude.turns
    BY <1>1, <1>3 DEF ClaudeStart, ClaudeDisposed, ClaudeConsume, SessionRecords
  <2>2. UNCHANGED headlessVars
    BY <1>3 DEF ClaudeStart, ClaudeDisposed, ClaudeConsume
  <2> QED
    BY <1>2, <2>1, <2>2, SessionKept
<1>4. CASE ClaudePrompt
  <2>1. /\ claude' \in SessionRecords /\ claude'.run = TRUE
        /\ claude'.prompts = claude.prompts + 1 /\ claude'.turns = claude.turns
        /\ claude.prompts \in Nat /\ claude.turns \in Nat
    <3>1. /\ claude.prompts \in Nat /\ claude.turns \in Nat
          /\ claude.prompts + 1 \in 0..MaxPrompts
      BY <1>1, <1>4, ClaudeAssumption DEF ClaudePrompt, SessionRecords
    <3>2. claude' = [claude EXCEPT !.run = TRUE, !.prompts = @ + 1]
      BY <1>4 DEF ClaudePrompt
    <3> QED
      BY <1>1, <3>1, <3>2 DEF SessionRecords
  <2>2. RunInv' /\ headless'.phase = "running"
    BY <1>1, <1>4, RunTyped DEF ClaudePrompt
  <2> QED
    BY <2>1, <2>2 DEF ClaudeInv, TurnsOver
<1>5. CASE ClaudeStreams
  <2>1. RunInv' /\ (headless'.phase # "idle" <=> headless.phase # "idle")
    BY <1>1, <1>5, HeadlessStepsTyped DEF ClaudeStreams
  <2>2. claude' \in {claude, ClaudeTold(claude, FALSE)}
    BY <1>5 DEF ClaudeStreams
  <2>3. FALSE \in BOOLEAN
    OBVIOUS
  <2> QED
    BY <1>1, <2>1, <2>2, <2>3, ClaudeToldTyped, SessionKept
<1>6. CASE ClaudeRunEnds
  <2>1. RunInv' /\ headless'.phase = "idle" /\ headless.phase # "idle"
    BY <1>1, <1>6, RunTyped DEF ClaudeRunEnds
  <2>2. PICK failed \in BOOLEAN :
          claude' = [ClaudeTold(claude, failed) EXCEPT !.run = FALSE, !.turns = @ + 1]
    BY <1>6 DEF ClaudeRunEnds
  <2> DEFINE c == ClaudeTold(claude, failed)
  <2>3. c \in SessionRecords /\ c.turns = claude.turns /\ c.prompts = claude.prompts
    BY <1>1, ClaudeToldTyped
  <2>4. claude.turns < claude.prompts
    BY <2>1 DEF ClaudeInv, TurnsOver
  <2> HIDE DEF c
  <2>5. claude' = [c EXCEPT !.run = FALSE, !.turns = @ + 1]
    BY <2>2 DEF c
  <2>6. c.turns + 1 \in 0..MaxPrompts /\ c.turns + 1 <= c.prompts
    BY <2>3, <2>4, ClaudeAssumption DEF SessionRecords
  <2>7. /\ claude' \in SessionRecords /\ claude'.run = FALSE
        /\ claude'.turns = c.turns + 1 /\ claude'.prompts = c.prompts
    BY <2>3, <2>5, <2>6 DEF SessionRecords
  <2> QED
    BY <2>1, <2>6, <2>7 DEF ClaudeInv, TurnsOver
<1>7. CASE ClaudeCancel
  BY <1>1, <1>7, RunTyped, SessionKept DEF ClaudeCancel
<1>8. CASE ClaudeDispose
  <2>1. /\ claude' \in SessionRecords /\ claude'.run = claude.run
        /\ claude'.prompts = claude.prompts /\ claude'.turns = claude.turns
    BY <1>1, <1>8 DEF ClaudeDispose, SessionRecords
  <2>2. RunInv' /\ (headless'.phase # "idle" <=> headless.phase # "idle")
    BY <1>1, <1>2, <1>8, RunTyped DEF ClaudeDispose
  <2> QED
    BY <2>1, <2>2, SessionKept
<1>9. CASE UNCHANGED claudeVars
  BY <1>1, <1>2, <1>9, SessionKept DEF claudeVars
<1> QED
  BY <1>3, <1>4, <1>5, <1>6, <1>7, <1>8, <1>9 DEF ClaudeNext

\* At first no run has started.
LEMMA ClaudeStarts == ClaudeInit => ClaudeInv
<1> SUFFICES ASSUME ClaudeInit PROVE ClaudeInv
  OBVIOUS
<1>1. headless \in RunFields /\ Grantable(headless) /\ headless.phase = "idle"
  BY RunStarts DEF ClaudeInit, HeadlessInit
<1>2. headlessTools \in [Tools -> ToolRecords]
  BY DEF ClaudeInit, HeadlessInit, Unwatched, ToolRecords
<1>3. claude \in SessionRecords /\ claude.run = FALSE /\ claude.turns = claude.prompts
  BY ClaudeAssumption DEF ClaudeInit, SessionRecords
<1> QED
  BY <1>1, <1>2, <1>3, ClaudeAssumption DEF ClaudeInv, TurnsOver, RunInv, SessionRecords

\* Such a session has its types.
LEMMA ClaudeTyped == ClaudeInv => ClaudeTypeOK
BY DEF ClaudeInv, RunInv, RunFields, ToolRecords, SessionRecords, ClaudeTypeOK, HeadlessTypeOK,
       Warnings, Deadlines, Caps, Waits, Grants

--------------------------------------------------------------------------------
\* The parts side by side, of which one moves.
EnginesInv ==
  /\ ServerTypeOK /\ OpenCodeInv /\ QueueBounded /\ ClaudeInv /\ ResilientInv
  /\ StreamInv /\ BouncerInv /\ QuestionsInv

\* The invariants of the parts hold the types of all of them.
LEMMA EnginesTyped == EnginesInv => EnginesTypeOK
<1> SUFFICES ASSUME EnginesInv PROVE EnginesTypeOK
  OBVIOUS
<1>1. ServerTypeOK /\ OpenCodeTypeOK /\ ClaudeTypeOK
  BY OpenCodeTyped, ClaudeTyped DEF EnginesInv
<1>2. ResilientTypeOK
  BY DEF EnginesInv, ResilientInv, ResilientRecords, ResilientTypeOK
<1>3. StreamTypeOK
  BY DEF EnginesInv, StreamInv, TextRecords, StreamTypeOK
<1>4. BouncerTypeOK
  <2>1. BouncerInv
    BY DEF EnginesInv
  <2>2. ASSUME NEW i \in 1..Len(decisionCache)
        PROVE  decisionCache[i] \in [op : SUBSET Features, answer : Answers, fresh : BOOLEAN,
                                     by : {"pattern", "classifier", "skipped", "fallback"}]
    <3>1. decisionCache[i] \in CacheEntries /\ decisionCache[i].by \in {"pattern", "classifier"}
      BY <2>1, <2>2 DEF BouncerInv, Decisions
    <3> QED
      BY <3>1 DEF CacheEntries
  <2>3. review \in [Reviews ->
         [op : SUBSET Features, ai : BOOLEAN,
          phase : {"idle", "asked", "child", "create", "prompt", "delete", "over"},
          attempt : 0..2, timedOut : BOOLEAN, verdict : Answers \cup {"none", "failed"},
          answer : Answers \cup {"none"},
          by : {"none", "pattern", "classifier", "cache", "skipped", "fallback"}]]
    <3>1. {0, 1, 2} = 0..2
      OBVIOUS
    <3>2. Makers \cup {"none"} =
            {"none", "pattern", "classifier", "cache", "skipped", "fallback"}
      BY DEF Makers
    <3> QED
      BY <2>1, <3>1, <3>2 DEF BouncerInv, ReviewRecords
  <2> QED
    BY <2>1, <2>2, <2>3 DEF BouncerInv, Decisions, BouncerTypeOK
<1>5. QuestionsTypeOK
  BY DEF EnginesInv, QuestionsInv, QuestionRecords, QuestionsTypeOK
<1> QED
  BY <1>1, <1>2, <1>3, <1>4, <1>5 DEF EnginesTypeOK

\* The subprocesses, sessions, runs, texts, reviews and questions of the engines keep
\* their fields in their ranges, and every counter, queue and cache its limit
\* (retries, extensions, queue of events, decision cache), for every value of the limits.
THEOREM EnginesTypeCorrect == EnginesSpec => []EnginesTypeOK
<1>1. EnginesInit => EnginesInv
  BY ServerTypeInit, OpenCodeStart, QueueInit, ClaudeStarts, ResilientStart, StreamStart,
     BouncerStart, QuestionsStart
     DEF EnginesInit, EnginesInv
<1>2. EnginesInv /\ [EnginesNext]_enginesVars => EnginesInv'
  <2> SUFFICES ASSUME EnginesInv, [EnginesNext]_enginesVars PROVE EnginesInv'
    OBVIOUS
  <2>1. /\ [ServerNext]_serverVars /\ [OpenCodeNext]_openCodeVars /\ [ClaudeNext]_claudeVars
        /\ [ResilientNext]_resilient /\ [StreamNext]_text /\ [BouncerNext]_bouncerVars
        /\ [QuestionsNext]_questionVars
    BY DEF EnginesNext, enginesVars
  <2>2. ServerTypeOK'
    BY <2>1, ServerTypeStep DEF EnginesInv
  <2>3. OpenCodeInv' /\ QueueBounded'
    BY <2>1, OpenCodeStep, QueueStep DEF EnginesInv
  <2>4. ClaudeInv' /\ ResilientInv' /\ StreamInv'
    BY <2>1, ClaudeStep, ResilientStep, StreamStep DEF EnginesInv
  <2>5. BouncerInv' /\ QuestionsInv'
    BY <2>1, BouncerStep, QuestionsStep DEF EnginesInv
  <2> QED
    BY <2>2, <2>3, <2>4, <2>5 DEF EnginesInv
<1> QED
  BY <1>1, <1>2, EnginesTyped, PTL DEF EnginesSpec
================================================================================
