------------------------ MODULE PlatformConnection ------------------------
(***************************************************************************)
(* The CLI's socket to the platform and the relay on top of it             *)
(* (server/services/platform.ts and createPlatformRelay of                 *)
(* server/server-setup.ts): connecting, pairing, heartbeat, the kinds of   *)
(* close and what each leads to, and the one context through which all web *)
(* clients behind the platform reach the message handlers.                 *)
(*                                                                         *)
(* The platform is not in this repository: it opens, refuses, closes and   *)
(* loses sockets, pairs an open one once, and tells of web clients.        *)
(***************************************************************************)
EXTENDS Naturals, FiniteSets, Sequences

CONSTANTS
    Sockets,       \* WebSocket objects, used again once closed
    Contexts,      \* relay contexts, used again once closed
    MaxReconnectAttempts,
    MaxMissedPongs,
    MaxPending,    \* relayed messages kept while there is no context
    MaxMessages,   \* bound: messages of the web clients
    None

ASSUME PlatformConstants ==
    /\ None \notin Sockets \cup Contexts
    /\ MaxReconnectAttempts \in Nat /\ MaxMissedPongs \in Nat
    /\ MaxPending \in Nat /\ MaxMessages \in Nat

VARIABLES
    state,         \* [Sockets -> readyState; "closed" once onclose has run]
    paired,        \* sockets the platform has paired
    ws, isConnected, everConnected, isIntentionallyClosed, protocolUpgradeRequired,
    reconnectTimeout,   \* "none", "backoff" or "sentinel"
    reconnectAttempts,
    heartbeatInterval,  \* whether the field holds a timer
    beats,              \* timers that tick
    missedPongs,
    gaveUp,        \* what the user was last told about ending the attempts
    (* createPlatformRelay *)
    relay,         \* platformRelayContext
    connected,     \* relay contexts the message handler knows
    pending, handled,   \* messages, by number in the order they were sent
    sent

sockVars == <<state, paired, ws>>
flagVars == <<isConnected, everConnected, isIntentionallyClosed, protocolUpgradeRequired>>
retryVars == <<reconnectTimeout, reconnectAttempts, gaveUp>>
beatVars == <<heartbeatInterval, beats, missedPongs>>
relayVars == <<relay, connected, pending, handled, sent>>
vars == <<sockVars, flagVars, retryVars, beatVars, relayVars>>

Numbers == 1..MaxMessages

TypeOK ==
    /\ state \in [Sockets -> {"connecting", "open", "closing", "closed"}]
    /\ paired \subseteq Sockets /\ ws \in Sockets \cup {None}
    /\ isConnected \in BOOLEAN /\ everConnected \in BOOLEAN /\ heartbeatInterval \in BOOLEAN
    /\ isIntentionallyClosed \in BOOLEAN /\ protocolUpgradeRequired \in BOOLEAN
    /\ reconnectTimeout \in {"none", "backoff", "sentinel"}
    /\ reconnectAttempts \in 0..MaxReconnectAttempts
    /\ beats \in Nat /\ missedPongs \in 0..MaxMissedPongs
    /\ gaveUp \in {"no", "login", "auth", "old", "attempts"}
    /\ relay \in Contexts \cup {None} /\ connected \subseteq Contexts
    /\ pending \in Seq(Numbers) /\ Len(pending) <= MaxPending
    /\ handled \in Seq(Numbers) /\ sent \in 0..MaxMessages

Init ==
    /\ state = [s \in Sockets |-> "closed"] /\ paired = {} /\ ws = None
    /\ isConnected = FALSE /\ everConnected = FALSE
    /\ isIntentionallyClosed = FALSE /\ protocolUpgradeRequired = FALSE
    \* createPlatformRelay connects at once
    /\ reconnectTimeout = "backoff" /\ reconnectAttempts = 0 /\ gaveUp = "no"
    /\ heartbeatInterval = FALSE /\ beats = 0 /\ missedPongs = 0
    /\ relay = None /\ connected = {} /\ pending = <<>> /\ handled = <<>> /\ sent = 0

Alive(s) == state[s] # "closed"
Delivers(s) == state[s] \in {"open", "closing"}
-----------------------------------------------------------------------------
(* Connecting                                                                *)

SetState(s, to) == state' = [state EXCEPT ![s] = to]

(* scheduleReconnect.  Mutant: attempts are not counted.                     *)
Uncounted(n) == n
Attempt(n) == n + 1

\* Mutant of the next definition: the last attempt ends without a word.
StopTrying ==
    IF reconnectAttempts >= MaxReconnectAttempts
    THEN reconnectTimeout' = "none" /\ UNCHANGED <<reconnectAttempts, gaveUp>>
    ELSE /\ reconnectTimeout' = "backoff"
         /\ reconnectAttempts' = Attempt(reconnectAttempts) /\ UNCHANGED gaveUp

\* scheduleReconnect where no timer is pending.
StartTimer ==
    IF reconnectAttempts >= MaxReconnectAttempts
    THEN gaveUp' = "attempts" /\ reconnectTimeout' = "none" /\ UNCHANGED reconnectAttempts
    ELSE /\ reconnectTimeout' = "backoff"
         /\ reconnectAttempts' = Attempt(reconnectAttempts) /\ UNCHANGED gaveUp

ScheduleReconnect ==
    IF reconnectTimeout # "none" THEN UNCHANGED retryVars ELSE StartTimer

(* connect(), from the timer, whose field it has emptied.  Without           *)
(* credentials it says so and stops; a constructor that throws is retried.   *)
Connect ==
    /\ reconnectTimeout # "none"
    /\ isIntentionallyClosed' = FALSE /\ protocolUpgradeRequired' = FALSE
    /\ \/ \E s \in Sockets :
             /\ ~Alive(s) /\ SetState(s, "connecting")
             /\ ws' = s /\ paired' = paired \ {s} /\ gaveUp' = "no"
             /\ reconnectTimeout' = "none" /\ UNCHANGED reconnectAttempts
       \/ /\ gaveUp' = "login" /\ reconnectTimeout' = "none"
          /\ UNCHANGED <<sockVars, reconnectAttempts>>
       \/ StartTimer /\ UNCHANGED sockVars
    /\ UNCHANGED <<isConnected, everConnected, beatVars, relayVars>>

Open(s) ==
    /\ state[s] = "connecting" /\ SetState(s, "open")
    /\ reconnectAttempts' = 0
    /\ UNCHANGED <<paired, ws, flagVars, reconnectTimeout, gaveUp, beatVars, relayVars>>

(* The `ws` library hands the response over and leaves the socket alone.     *)
AnswerUpgradeRequired(s) ==
    /\ state[s] = "connecting" /\ protocolUpgradeRequired' = TRUE
    /\ UNCHANGED <<sockVars, isConnected, everConnected, isIntentionallyClosed, retryVars,
                   beatVars, relayVars>>

(* startConnectionTimeout.                                                   *)
ConnectionTimeout(s) ==
    /\ state[s] = "connecting" /\ ws = s /\ SetState(s, "closing")
    /\ UNCHANGED <<paired, ws, flagVars, retryVars, beatVars, relayVars>>
-----------------------------------------------------------------------------
(* The end of a socket                                                       *)

StopHeartbeat ==
    /\ beats' = IF heartbeatInterval THEN beats - 1 ELSE beats
    /\ heartbeatInterval' = FALSE

\* onDisconnected and onWebDisconnected
DropRelay ==
    /\ connected' = connected \ {relay} /\ relay' = None
    /\ pending' = <<>>

TooOld(why) == protocolUpgradeRequired \/ why = "old"

\* 1006 before the first pairing is taken for an authentication failure.
AuthFailure(why) == why = "auth" \/ (why = "lost" /\ ~everConnected)

(* handleSocketClose                                                         *)
SocketClosed(s, why) ==
    /\ SetState(s, "closed")
    /\ StopHeartbeat /\ isConnected' = FALSE
    /\ \/ /\ isIntentionallyClosed
          /\ UNCHANGED <<retryVars, relayVars>>
       \/ /\ ~isIntentionallyClosed /\ TooOld(why)
          /\ DropRelay
          /\ gaveUp' = "old" /\ reconnectTimeout' = "sentinel"
          /\ UNCHANGED <<reconnectAttempts, handled, sent>>
       \/ /\ ~isIntentionallyClosed /\ ~TooOld(why) /\ AuthFailure(why)
          /\ gaveUp' = "auth"
          /\ UNCHANGED <<reconnectTimeout, reconnectAttempts, relayVars>>
       \/ /\ ~isIntentionallyClosed /\ ~TooOld(why) /\ ~AuthFailure(why)
          /\ DropRelay /\ ScheduleReconnect
          /\ UNCHANGED <<handled, sent>>
    /\ UNCHANGED <<paired, ws, everConnected, isIntentionallyClosed, protocolUpgradeRequired,
                   missedPongs>>

Refused(s) == state[s] = "connecting" /\ SocketClosed(s, "lost")

(* The platform closes, or the link is lost.                                 *)
ClosedByPlatform(s) ==
    /\ state[s] = "open"
    /\ \E why \in {"lost", "away", "auth", "old"} : SocketClosed(s, why)

(* The end of a close() of the CLI, answered or not.                         *)
ClosedByCLI(s) ==
    /\ state[s] = "closing"
    /\ \E why \in {"lost", "away"} : SocketClosed(s, why)

(* disconnect()                                                              *)
Disconnect ==
    /\ ~isIntentionallyClosed /\ isIntentionallyClosed' = TRUE
    /\ StopHeartbeat
    /\ reconnectTimeout' = "none"
    /\ state' = [s \in Sockets |->
                   IF s = ws /\ Alive(s) THEN "closing" ELSE state[s]]
    /\ ws' = None /\ isConnected' = FALSE
    /\ UNCHANGED <<paired, everConnected, protocolUpgradeRequired, reconnectAttempts, gaveUp,
                   missedPongs, relayVars>>
-----------------------------------------------------------------------------
(* Pairing and the heartbeat                                                 *)

Paired(s) ==
    /\ Delivers(s) /\ s \notin paired /\ paired' = paired \cup {s}
    /\ isConnected' = TRUE /\ everConnected' = TRUE
    /\ missedPongs' = 0 /\ heartbeatInterval' = TRUE /\ beats' = beats + 1
    /\ UNCHANGED <<state, ws, isIntentionallyClosed, protocolUpgradeRequired, retryVars,
                   relayVars>>

Missed(n) == n >= MaxMissedPongs

(* heartbeatTick                                                             *)
Tick ==
    /\ beats > 0 /\ ws # None /\ isConnected
    /\ IF Missed(missedPongs)
       THEN /\ missedPongs' = 0 /\ StopHeartbeat
            /\ IF Alive(ws) THEN SetState(ws, "closing") ELSE UNCHANGED state
       ELSE missedPongs' = missedPongs + 1 /\ UNCHANGED <<state, heartbeatInterval, beats>>
    /\ UNCHANGED <<paired, ws, flagVars, retryVars, relayVars>>

Pong(s) ==
    /\ Delivers(s) /\ missedPongs' = 0
    /\ UNCHANGED <<sockVars, flagVars, retryVars, heartbeatInterval, beats, relayVars>>
-----------------------------------------------------------------------------
(* The relay                                                                 *)

\* What is kept is handled in the order it came.  Mutant: last come, first served.
LastFirst(q) == [i \in 1..Len(q) |-> q[Len(q) - i + 1]]
Drained(q) == q

\* Mutant: the old context is forgotten, not closed.
Forgotten(c) == {}
Closed(c) == {c}

WebConnected(s) ==
    /\ Delivers(s) /\ s \in paired
    /\ \E c \in Contexts \ connected :
          /\ relay' = c /\ connected' = (connected \ Closed(relay)) \cup {c}
    /\ handled' = handled \o Drained(pending) /\ pending' = <<>>
    /\ UNCHANGED <<sockVars, flagVars, retryVars, beatVars, sent>>

WebDisconnected(s) ==
    /\ Delivers(s) /\ s \in paired
    /\ DropRelay
    /\ UNCHANGED <<sockVars, flagVars, retryVars, beatVars, handled, sent>>

(* A message of a web: handled, kept for the next web_connected, or dropped. *)
Relayed(s) ==
    /\ Delivers(s) /\ s \in paired
    /\ sent < MaxMessages /\ sent' = sent + 1
    /\ IF relay # None
       THEN handled' = Append(handled, sent') /\ UNCHANGED pending
       ELSE /\ pending' = IF Len(pending) < MaxPending
                          THEN Append(pending, sent') ELSE pending
            /\ UNCHANGED handled
    /\ UNCHANGED <<sockVars, flagVars, retryVars, beatVars, relay, connected>>

Next ==
    \/ Connect \/ Disconnect \/ Tick
    \/ \E s \in Sockets :
          \/ Open(s) \/ AnswerUpgradeRequired(s) \/ ConnectionTimeout(s) \/ Refused(s)
          \/ ClosedByPlatform(s) \/ ClosedByCLI(s)
          \/ Paired(s) \/ Pong(s) \/ WebConnected(s) \/ WebDisconnected(s) \/ Relayed(s)

(* Timers fire, a socket does not stay connecting (ConnectionTimeout) and    *)
(* close() comes to its end.  The platform owes nothing.                     *)
Fairness ==
    /\ WF_vars(Connect)
    /\ \A s \in Sockets : WF_vars(ConnectionTimeout(s)) /\ WF_vars(ClosedByCLI(s))

Spec == Init /\ [][Next]_vars /\ Fairness
-----------------------------------------------------------------------------
(* Properties                                                                *)

(* However sockets are refused, time out, are lost or closed from either     *)
(* end, the CLI never has two of them: attempts follow each other            *)
(* (handleSocketClose, scheduleReconnect).                                   *)
OneSocket == \A s, t \in Sockets : Alive(s) /\ Alive(t) => s = t

(* While the CLI is meant to be connected, one heartbeat at most ticks, and  *)
(* only over a socket that is not closed (startHeartbeat, stopHeartbeat).    *)
OneHeartbeat ==
    ~isIntentionallyClosed =>
        beats <= 1 /\ (beats = 1 => ws # None /\ Delivers(ws) /\ ws \in paired)

(* The CLI never stops trying without having said why: there is a socket, a  *)
(* timer, or a message to the user (handleSocketClose).                      *)
NotStranded ==
    ~isIntentionallyClosed =>
        (\E s \in Sockets : Alive(s)) \/ reconnectTimeout # "none" \/ gaveUp # "no"

(* The message handler knows no relay context but the current one, and none  *)
(* at all without a socket, authentication failures excepted                 *)
(* (createPlatformRelay).                                                    *)
RelayHasSocket ==
    /\ connected = {relay} \ {None}
    /\ relay # None => (\E s \in Sockets : Alive(s)) \/ isIntentionallyClosed \/ gaveUp = "auth"

(* What the webs sent is handled in the order it was sent and once, across   *)
(* the wait for web_connected and reconnects (onRelayedMessage,              *)
(* onWebConnected).                                                          *)
HandledInOrder == \A i, j \in 1..Len(handled) : i < j => handled[i] < handled[j]

(* A CLI without a socket gets one open, gives up or is told to stop.        *)
Down == ~\E s \in Sockets : Alive(s)
Settles ==
    Down ~> \/ \E s \in Sockets : state[s] = "open"
            \/ gaveUp # "no" \/ isIntentionallyClosed
=============================================================================
