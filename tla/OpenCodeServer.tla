--------------------------- MODULE OpenCodeServer ---------------------------
(* The owner of the one `opencode serve` subprocess of a CLI:                 *)
(* engines/opencode/OpenCodeServerManager.ts. A start has two phases, each an *)
(* await: the readiness line, then a health probe. A crash schedules a        *)
(* restart with a timer. Delays and backoff are abstracted to "later".        *)
EXTENDS Naturals, FiniteSets

CONSTANTS
  ServerProcs,        \* subprocesses that may exist at one time
  MaxRestarts,        \* maxRestartAttempts
  MaxServerCrashes    \* bound: unexpected exits of a ready server

ASSUME ServerAssumption ==
  /\ ServerProcs \subseteq Nat \ {0}
  /\ MaxRestarts \in Nat /\ MaxServerCrashes \in Nat

NoProc == 0

VARIABLES
  server,         \* the manager's fields
  serverProcess,  \* each subprocess and the spawnOnce call that made it
  serverCrashes,  \* unexpected exits so far
  startMet,       \* a start() came while a restart waited for its timer
  overlapped      \* subprocesses whose starts overlapped with another's

serverVars == <<server, serverProcess, serverCrashes, startMet, overlapped>>

\* Phases: "line" and "health" await; "answered": the probe was answered and
\* its continuation has not run; "ready": the crash handler is wired; "over".
ServerTypeOK ==
  /\ server \in [status : {"idle", "starting", "ready", "restarting", "failed", "shutdown"},
                 proc : ServerProcs \cup {NoProc}, url : BOOLEAN,
                 promise : BOOLEAN, timers : Nat, attempts : Nat, down : BOOLEAN]
  /\ serverProcess \in [ServerProcs ->
        [life : {"none", "alive", "stopping"},
         phase : {"over", "line", "health", "answered", "ready"}, restart : BOOLEAN]]
  /\ serverCrashes \in 0..MaxServerCrashes
  /\ startMet \in BOOLEAN /\ overlapped \subseteq ServerProcs

Gone == [life |-> "none", phase |-> "over", restart |-> FALSE]

ServerInit ==
  /\ server = [status |-> "idle", proc |-> NoProc, url |-> FALSE,
               promise |-> FALSE, timers |-> 0, attempts |-> 0, down |-> FALSE]
  /\ serverProcess = [p \in ServerProcs |-> Gone]
  /\ serverCrashes = 0 /\ startMet = FALSE /\ overlapped = {}

Free(p) == serverProcess[p] = Gone
Starting(p) == serverProcess[p].phase \in {"line", "health"}

\* spawnOnce up to its first await. It asks neither for another start under way nor
\* for the subprocess that this.proc holds.
Others == {q \in ServerProcs : Starting(q) \/ server.proc = q}
SpawnOnce(p, s, restart) ==
  /\ Free(p) /\ \A q \in ServerProcs : q < p => ~ Free(q)
  /\ overlapped' = IF Others = {} THEN overlapped \ {p} ELSE overlapped \cup Others \cup {p}
  /\ server' = [s EXCEPT !.status = IF restart THEN "restarting" ELSE "starting",
                         !.proc = p, !.promise = TRUE]
  /\ serverProcess' = [serverProcess EXCEPT
       ![p] = [life |-> "alive", phase |-> "line", restart |-> restart]]

\* scheduleRestart.
Rescheduled(s) ==
  IF s.down THEN s
  ELSE IF s.attempts + 1 > MaxRestarts
       THEN [s EXCEPT !.attempts = @ + 1, !.status = "failed"]
       ELSE [s EXCEPT !.attempts = @ + 1, !.status = "restarting", !.timers = @ + 1]

\* start(): refused when closed, shared while one is in flight; the first use of an
\* engine calls it, also while a restart waits. A start whose spawnOnce throws at once
\* (down) changes nothing.
ServerStart(p) ==
  /\ server.status \notin {"shutdown", "failed"} /\ ~ server.down
  /\ ~ (server.status = "ready" /\ server.proc # NoProc)
  /\ ~ server.promise
  /\ startMet' = (startMet \/ server.timers > 0)
  /\ SpawnOnce(p, server, FALSE)
  /\ UNCHANGED serverCrashes

\* The restart timer of scheduleRestart.
RestartTimer(p) ==
  /\ server.timers > 0
  /\ IF server.down
     THEN /\ server' = [server EXCEPT !.timers = @ - 1]
          /\ UNCHANGED <<serverProcess, overlapped>>
     ELSE SpawnOnce(p, [server EXCEPT !.timers = @ - 1], TRUE)
  /\ UNCHANGED <<serverCrashes, startMet>>

\* Mutant: a subprocess is let go without a signal.
LetGo(life) == life

\* runStartupPhase and the catch that follows it: the subprocess is killed,
\* this.proc cleared, and only a restart schedules another one.
Killed(life) == IF life = "alive" THEN "stopping" ELSE life
FailedStartup(p, life) ==
  LET s == [server EXCEPT !.proc = NoProc, !.promise = FALSE] IN
  /\ server' = IF serverProcess[p].restart THEN Rescheduled(s) ELSE s
  /\ serverProcess' = [serverProcess EXCEPT
       ![p] = IF life = "none" THEN Gone
              ELSE [life |-> Killed(life), phase |-> "over", restart |-> FALSE]]

\* awaitReadinessLine: the line; or an error, the timeout or a line it cannot
\* parse; or the exit of the subprocess.
ReadinessLine(p) ==
  /\ serverProcess[p].phase = "line"
  /\ \/ /\ serverProcess[p].life # "none"
        /\ serverProcess' = [serverProcess EXCEPT ![p].phase = "health"]
        /\ UNCHANGED server
     \/ FailedStartup(p, serverProcess[p].life)
     \/ FailedStartup(p, "none")
  /\ UNCHANGED <<serverCrashes, startMet, overlapped>>

\* awaitHealthy: a probe is answered below 500, or the budget is spent.
ProbeAnswered(p) ==
  /\ serverProcess[p].phase = "health" /\ serverProcess[p].life # "none"
  /\ serverProcess' = [serverProcess EXCEPT ![p].phase = "answered"]
  /\ UNCHANGED <<server, serverCrashes, startMet, overlapped>>
ProbesFail(p) ==
  /\ serverProcess[p].phase = "health"
  /\ FailedStartup(p, serverProcess[p].life)
  /\ UNCHANGED <<serverCrashes, startMet, overlapped>>

\* The end of spawnOnce; it asks neither whether the manager was shut down in
\* between nor whether the subprocess still runs.
ServerReady(p) ==
  /\ serverProcess[p].phase = "answered"
  /\ server' = [server EXCEPT !.url = TRUE, !.status = "ready",
                              !.attempts = 0, !.promise = FALSE]
  /\ serverProcess' = [serverProcess EXCEPT
       ![p] = IF @.life = "none" THEN Gone ELSE [@ EXCEPT !.phase = "ready"]]
  /\ UNCHANGED <<serverCrashes, startMet, overlapped>>

\* The exit of a subprocess after its first phase; wireCrashHandler.
Unexpected(p) == server.proc = p /\ ~ server.down
ServerExit(p) ==
  /\ serverProcess[p].life # "none" /\ serverProcess[p].phase # "line"
  /\ IF serverProcess[p].life = "alive"
     THEN serverCrashes < MaxServerCrashes /\ serverCrashes' = serverCrashes + 1
     ELSE UNCHANGED serverCrashes
  /\ serverProcess' = [serverProcess EXCEPT
       ![p] = IF @.phase \in {"ready", "over"} THEN Gone ELSE [@ EXCEPT !.life = "none"]]
  /\ server' = IF serverProcess[p].phase = "ready" /\ Unexpected(p)
               THEN Rescheduled([server EXCEPT !.proc = NoProc, !.url = FALSE])
               ELSE server
  /\ UNCHANGED <<startMet, overlapped>>

\* shutdown() up to the await of the exit; a pending timer only finds it down.
ServerShutdown ==
  /\ server.status # "shutdown"
  /\ server' = [server EXCEPT !.status = "shutdown", !.down = TRUE, !.url = FALSE,
                              !.proc = NoProc, !.timers = 0]
  /\ serverProcess' = [p \in ServerProcs |->
       IF p = server.proc THEN [serverProcess[p] EXCEPT !.life = Killed(@)]
       ELSE serverProcess[p]]
  /\ UNCHANGED <<serverCrashes, startMet, overlapped>>

ServerNext ==
  \/ ServerShutdown
  \/ \E p \in ServerProcs :
       \/ ServerStart(p) \/ RestartTimer(p) \/ ReadinessLine(p)
       \/ ProbeAnswered(p) \/ ProbesFail(p) \/ ServerReady(p) \/ ServerExit(p)

\* Timers fire, a phase of a start ends (each has a timeout), a continuation
\* runs, and a subprocess that was sent a signal exits (SIGKILL after 1 s). Only the
\* bound on subprocesses ever disables a timer that waits.
ServerFairness ==
  /\ SF_serverVars(\E p \in ServerProcs : RestartTimer(p))
  /\ \A p \in ServerProcs :
       /\ WF_serverVars(ReadinessLine(p)) /\ WF_serverVars(ProbesFail(p))
       /\ WF_serverVars(ServerReady(p))
       /\ WF_serverVars(serverProcess[p].life = "stopping" /\ ServerExit(p))

ServerSpec == ServerInit /\ [][ServerNext]_serverVars /\ ServerFairness
-----------------------------------------------------------------------------
\* Every subprocess that was not told to stop is the one the manager holds, so
\* that shutdown() reaches it, over failing starts, crashes, restarts and a shutdown
\* in any phase of a start: but for those whose starts overlapped, the one failing
\* start then letting go of the other's. They overlap only after a start() that came
\* while a restart waited for its timer.
ServerNoOrphan ==
  /\ \A p \in ServerProcs :
       serverProcess[p].life = "alive" => server.proc = p \/ p \in overlapped
  /\ overlapped # {} => startMet

\* A crash is followed by a server that is ready again, by giving up after
\* MaxRestarts failures in a row, or by a shutdown: never by a wait for ever.
ServerRecovers ==
  server.status = "restarting" ~> server.status \in {"ready", "failed", "shutdown"}
=============================================================================
