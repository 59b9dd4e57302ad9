--------------------------- MODULE OpenCodeEngine ---------------------------
(* One OpenCode session: engines/opencode/OpenCodeEngine.ts behind the lazy   *)
(* wrapper of engines/factory.ts. The opencode server and its SDK are         *)
(* external: any answer they may give is a choice of an action. What an event *)
(* carries is abstracted to its kind.                                         *)
EXTENDS Naturals, FiniteSets

CONSTANTS
  Calls,          \* tool calls of the session
  Permissions,    \* permission requests of the session
  MaxTokens,      \* bound: the largest usage reported
  MaxQueued       \* bound: events waiting for the consumer

ASSUME OpenCodeAssumption == MaxTokens \in Nat /\ MaxQueued \in Nat

VARIABLES
  openCode,         \* fields of the wrapper and of its inner engine
  openCodeReview,   \* each permission request on its way through the bouncer
  openCodeStream    \* what the consumer has been sent (EngineContract)

openCodeVars == <<openCode, openCodeReview, openCodeStream>>

Contract == INSTANCE EngineContract WITH stream <- openCodeStream

\* start: startSession up to its next await. closing: dispose up to its next
\* await. announced: toolStarted. early: disposed of before there was an inner
\* engine, while the server started.
OpenCodeTypeOK ==
  /\ openCode \in [start : {"new", "server", "create", "subscribe", "started"},
                   disposed : BOOLEAN, innerDisposed : BOOLEAN, early : BOOLEAN,
                   pump : {"none", "running", "over"},
                   closing : {"no", "pump", "delete", "over"},
                   prompt : {"none", "sending"}, announced : SUBSET Calls,
                   iterDone : BOOLEAN, queue : 0..MaxQueued, waiting : BOOLEAN]
  /\ openCodeReview \in [Permissions ->
        {"none", "review", "once", "reject", "answered", "unanswered"}]
  /\ Contract!ContractTypeOK

OpenCodeInit ==
  /\ openCode = [start |-> "new", disposed |-> FALSE, innerDisposed |-> FALSE,
                 early |-> FALSE, pump |-> "none", closing |-> "no",
                 prompt |-> "none", announced |-> {}, iterDone |-> FALSE,
                 queue |-> 0, waiting |-> FALSE]
  /\ openCodeReview = [p \in Permissions |-> "none"]
  /\ Contract!ContractInit

\* closeIterator and emit: a waiting consumer gets the event, else it queues.
ClosedIterator(e) == [e EXCEPT !.iterDone = TRUE, !.waiting = FALSE]
Emitted(e) ==
  IF e.iterDone THEN e
  ELSE IF e.waiting THEN [e EXCEPT !.waiting = FALSE] ELSE [e EXCEPT !.queue = @ + 1]
Room == openCode.queue + 2 <= MaxQueued

Send(change) == openCodeStream' = IF openCode.iterDone THEN openCodeStream ELSE change
NothingSent == UNCHANGED openCodeStream

\* startSession: manager.start(), getClient and the inner engine, session.create
\* (or a session to resume), event.subscribe. A failure leaves it to be retried. No
\* step looks whether the wrapper was disposed of in between.
StartOpenCode ==
  /\ openCode.start = "new" /\ ~ openCode.disposed
  /\ openCode' = [openCode EXCEPT !.start = "server"]
  /\ UNCHANGED openCodeReview /\ NothingSent
StartStep ==
  /\ \E s \in {"new", "create", "subscribe", "started"} :
       /\ <<openCode.start, s>> \in
            {<<"server", "create">>, <<"server", "subscribe">>, <<"server", "new">>,
             <<"create", "subscribe">>, <<"create", "new">>,
             <<"subscribe", "started">>, <<"subscribe", "new">>}
       /\ openCode' = [openCode EXCEPT !.start = s,
                                       !.pump = IF s = "started" THEN "running" ELSE @]
  /\ UNCHANGED openCodeReview /\ NothingSent

\* sendPrompt, and the answer of session.promptAsync.
SendPrompt ==
  /\ openCode.start = "started" /\ ~ openCode.disposed /\ openCode.prompt = "none"
  /\ openCode' = [openCode EXCEPT !.prompt = "sending"]
  /\ UNCHANGED openCodeReview /\ NothingSent
PromptAccepted ==
  /\ openCode.prompt = "sending"
  /\ openCode' = [openCode EXCEPT !.prompt = "none"]
  /\ UNCHANGED openCodeReview /\ NothingSent

\* cancel, whose abort fails: one non-fatal engine.error.
AbortFails ==
  /\ openCode.start = "started" /\ ~ openCode.innerDisposed /\ Room
  /\ openCode' = Emitted(openCode)
  /\ UNCHANGED openCodeReview /\ NothingSent

\* The pump hands an event of our session over: belongsToSession, handleSseEvent.
Pumping == openCode.pump = "running" /\ ~ openCode.innerDisposed /\ Room

\* A text, reasoning, idle or session.error event.
PlainEvent ==
  /\ Pumping
  /\ openCode' = Emitted(openCode)
  /\ UNCHANGED openCodeReview /\ NothingSent

\* onToolPart: the start is announced once, however often the server repeats it.
Announced(e, c) ==
  IF c \in e.announced THEN e
  ELSE Emitted([e EXCEPT !.announced = @ \cup {c}])
AnnounceStart(s, c) == IF c \in openCode.announced THEN s
                       ELSE [s EXCEPT !.begun = @ \cup {c}]
ToolRunning(c) ==
  /\ Pumping
  /\ openCode' = Announced(openCode, c)
  /\ Send(AnnounceStart(openCodeStream, c))
  /\ UNCHANGED openCodeReview
ToolOver(c) ==
  /\ Pumping
  /\ openCode' = Emitted(Announced(openCode, c))
  /\ Send([AnnounceStart(openCodeStream, c) EXCEPT !.ended = @ \cup {c}])
  /\ UNCHANGED openCodeReview

\* Mutant: the tokens are reported as they come.
CountedAsSent(n) == n

\* applyTokens: an update below the running maximum is not reported.
Counted(n) == IF n > openCodeStream.usage THEN n ELSE openCodeStream.usage
Tokens(n) ==
  /\ Pumping
  /\ IF Counted(n) = openCodeStream.usage
     THEN UNCHANGED openCode /\ NothingSent
     ELSE openCode' = Emitted(openCode) /\ Send([openCodeStream EXCEPT !.usage = Counted(n)])
  /\ UNCHANGED openCodeReview

\* permission.updated: the request is shown, then reviewed beside the pump.
PermissionAsked(p) ==
  /\ Pumping /\ openCodeReview[p] = "none"
  /\ openCode' = Emitted(openCode)
  /\ openCodeReview' = [openCodeReview EXCEPT ![p] = "review"]
  /\ NothingSent

\* reviewPermissionSafely: a review that throws is a deny.
Verdicts == {"once", "reject"}
Reviewed(p) ==
  /\ openCodeReview[p] = "review"
  /\ \E v \in Verdicts : openCodeReview' = [openCodeReview EXCEPT ![p] = v]
  /\ UNCHANGED openCode /\ NothingSent

\* The rest of resolvePermission: a failed answer and a denial are each shown,
\* unless the engine was disposed of.
Shown(e) == IF e.innerDisposed THEN e ELSE Emitted(e)
PermissionAnswered(p) ==
  /\ openCodeReview[p] \in Verdicts /\ Room
  /\ \E answered \in BOOLEAN :
       LET e == IF answered THEN openCode ELSE Shown(openCode) IN
       /\ openCode' = IF openCodeReview[p] = "reject" THEN Shown(e) ELSE e
       /\ openCodeReview' = [openCodeReview EXCEPT
            ![p] = IF answered THEN "answered" ELSE "unanswered"]
  /\ NothingSent

\* The stream ends (quietly, or with a fatal engine.error that ends the
\* iterator), or the pump finds the engine disposed of at its next event.
PumpEnds ==
  /\ openCode.pump = "running"
  /\ \/ openCode' = [openCode EXCEPT !.pump = "over"] /\ NothingSent
     \/ /\ ~ openCode.innerDisposed /\ Room
        /\ openCode' = ClosedIterator(Emitted([openCode EXCEPT !.pump = "over"]))
        /\ Send([openCodeStream EXCEPT !.done = TRUE])
  /\ UNCHANGED openCodeReview

\* dispose: the wrapper's flag; an inner engine, once there is one, also stops
\* its pump, deletes its session and closes its iterator, with an await before
\* each of the last two.
HasInner == openCode.start \notin {"new", "server"}
DisposeOpenCode ==
  /\ ~ openCode.disposed
  /\ openCode' = [openCode EXCEPT !.disposed = TRUE, !.innerDisposed = HasInner,
                                  !.early = openCode.start = "server",
                                  !.closing = IF HasInner THEN "pump" ELSE "over"]
  /\ UNCHANGED openCodeReview /\ NothingSent
DisposePumpOver ==
  /\ openCode.closing = "pump" /\ openCode.pump # "running"
  /\ openCode' = [openCode EXCEPT !.closing = "delete"]
  /\ UNCHANGED openCodeReview /\ NothingSent
DisposeDeleted ==
  /\ openCode.closing = "delete"
  /\ openCode' = [ClosedIterator(openCode) EXCEPT !.closing = "over"]
  /\ Send([openCodeStream EXCEPT !.done = TRUE])
  /\ UNCHANGED openCodeReview

\* next() of the iterator: a queued event, or the end, or a wait.
Consume ==
  /\ openCode.start = "started" /\ ~ openCode.waiting
  /\ \/ openCode.queue > 0 /\ openCode' = [openCode EXCEPT !.queue = @ - 1]
     \/ /\ openCode.queue = 0 /\ ~ openCode.iterDone
        /\ openCode' = [openCode EXCEPT !.waiting = TRUE]
  /\ UNCHANGED openCodeReview /\ NothingSent

\* return() of the iterator.
ConsumerReturns ==
  /\ openCode.start = "started" /\ ~ openCode.iterDone
  /\ openCode' = ClosedIterator(openCode)
  /\ Send([openCodeStream EXCEPT !.done = TRUE])
  /\ UNCHANGED openCodeReview

OpenCodeNext ==
  \/ StartOpenCode \/ StartStep \/ SendPrompt \/ PromptAccepted \/ AbortFails
  \/ PlainEvent \/ PumpEnds \/ Consume \/ ConsumerReturns
  \/ DisposeOpenCode \/ DisposePumpOver \/ DisposeDeleted
  \/ \E c \in Calls : ToolRunning(c) \/ ToolOver(c)
  \/ \E n \in 0..MaxTokens : Tokens(n)
  \/ \E p \in Permissions : PermissionAsked(p) \/ Reviewed(p) \/ PermissionAnswered(p)

\* Requests settle, the consumer keeps reading, a review has its own timeouts,
\* and after dispose the stream yields once more (return() waits for that).
OpenCodeFairness ==
  /\ WF_openCodeVars(StartStep) /\ WF_openCodeVars(Consume)
  /\ WF_openCodeVars(openCode.innerDisposed /\ PumpEnds)
  /\ WF_openCodeVars(DisposePumpOver) /\ WF_openCodeVars(DisposeDeleted)
  /\ \A p \in Permissions :
       WF_openCodeVars(Reviewed(p)) /\ SF_openCodeVars(PermissionAnswered(p))

OpenCodeSpec == OpenCodeInit /\ [][OpenCodeNext]_openCodeVars /\ OpenCodeFairness
-----------------------------------------------------------------------------
\* The events of a session keep the engine contract: repeated and late updates
\* of the server, tokens that fall, a fatal error and a dispose in the middle of
\* a turn never make a call end before it starts, the usage fall, or an event
\* follow the end of the stream.
OpenCodeKeepsContract == Contract!ContractSpec

\* The server never hangs waiting: every permission request the pump has taken
\* is answered or its answer has failed, whatever the bouncer does and even
\* when the engine is disposed of during the review.
PermissionsSettle ==
  \A p \in Permissions :
    openCodeReview[p] = "review" ~> openCodeReview[p] \in {"answered", "unanswered"}

\* After dispose nothing is left: the pump stops, the iterator is closed and a
\* consumer that waits for an event is released, in whatever phase of a start,
\* a turn or a review dispose came, but one: while the server starts there is no
\* inner engine to tell, and the one that is made after it lives on.
DisposeEnds ==
  openCode.disposed /\ ~ openCode.early ~>
    (openCode.pump # "running" /\ ~ openCode.waiting
      /\ (HasInner => openCode.iterDone))
=============================================================================
