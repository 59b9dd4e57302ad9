---------------------- MODULE PlatformConnectionProofs ----------------------
(***************************************************************************)
(* Proofs about PlatformConnection, for any number of sockets and contexts *)
(* and any limits.                                                         *)
(***************************************************************************)
EXTENDS PlatformConnection, SequenceTheorems, TLAPS

(* A timer and a socket exclude each other, which is why there is never a    *)
(* second socket; unless the CLI is shutting down `ws` is the one there is.  *)
Sole ==
    /\ OneSocket
    /\ \A s \in Sockets : Alive(s) => reconnectTimeout = "none"
    /\ ~isIntentionallyClosed => \A s \in Sockets : Alive(s) => ws = s

(* The timer that ticks is the one the field holds, and its socket is paired *)
(* and not closed yet.                                                       *)
Beating ==
    /\ beats = IF heartbeatInterval THEN 1 ELSE 0
    /\ heartbeatInterval => \E s \in Sockets : Delivers(s) /\ s \in paired

Live == TypeOK /\ Sole /\ Beating

Quiet == UNCHANGED <<sockVars, beatVars, reconnectTimeout, isIntentionallyClosed>>

LEMMA InitLive == ASSUME PlatformConstants PROVE Init => Live
<1> SUFFICES ASSUME Init PROVE Live
  OBVIOUS
<1>1. TypeOK
  <2>1. /\ state \in [Sockets -> {"connecting", "open", "closing", "closed"}]
        /\ reconnectAttempts \in 0..MaxReconnectAttempts
        /\ missedPongs \in 0..MaxMissedPongs /\ sent \in 0..MaxMessages
    BY DEF Init, PlatformConstants
  <2>2. pending \in Seq(Numbers) /\ Len(pending) <= MaxPending /\ handled \in Seq(Numbers)
    BY DEF Init, PlatformConstants
  <2> QED
    BY <2>1, <2>2 DEF TypeOK, Init
<1>2. Sole /\ Beating
  BY DEF Sole, Beating, OneSocket, Alive, Init
<1> QED
  BY <1>1, <1>2 DEF Live

(* What leaves sockets, timers and heartbeat alone keeps what is said of     *)
(* them.                                                                     *)
LEMMA QuietLive ==
    ASSUME Sole, Beating, Quiet
    PROVE  Sole' /\ Beating'
BY DEF Sole, Beating, Quiet, OneSocket, Alive, Delivers, sockVars, beatVars

LEMMA StartTimerType ==
    ASSUME PlatformConstants, TypeOK, StartTimer
    PROVE  /\ reconnectTimeout' \in {"none", "backoff"}
           /\ reconnectAttempts' \in 0..MaxReconnectAttempts
           /\ gaveUp' \in {"no", "login", "auth", "old", "attempts"}
           /\ reconnectTimeout' # "none" \/ gaveUp' # "no"
BY DEF PlatformConstants, TypeOK, StartTimer, Attempt

LEMMA DropRelayType ==
    ASSUME PlatformConstants, TypeOK, DropRelay
    PROVE  /\ relay' = None /\ connected' \subseteq Contexts
           /\ pending' = <<>>
           /\ pending' \in Seq(Numbers) /\ Len(pending') <= MaxPending
BY DEF PlatformConstants, TypeOK, DropRelay

-----------------------------------------------------------------------------
(* Sockets that open, time out and close.                                    *)

LEMMA ConnectLive ==
    ASSUME PlatformConstants, Live, Connect
    PROVE  Live'
<1> USE DEF Live
<1>1. \A s \in Sockets : ~Alive(s)
  BY DEF Connect, Sole
<1>2. ~heartbeatInterval /\ beats = 0
  BY <1>1 DEF Beating, Delivers, Alive, TypeOK
<1>3. CASE \E s \in Sockets :
             /\ ~Alive(s) /\ SetState(s, "connecting")
             /\ ws' = s /\ paired' = paired \ {s} /\ gaveUp' = "no"
             /\ reconnectTimeout' = "none" /\ UNCHANGED reconnectAttempts
  <2> PICK s \in Sockets :
             /\ ~Alive(s) /\ SetState(s, "connecting")
             /\ ws' = s /\ paired' = paired \ {s} /\ gaveUp' = "no"
             /\ reconnectTimeout' = "none" /\ UNCHANGED reconnectAttempts
    BY <1>3
  <2>1. \A t \in Sockets : Alive(t)' => t = s
    BY <1>1 DEF SetState, Alive, TypeOK
  <2>2. TypeOK'
    BY DEF TypeOK, Connect, SetState, beatVars, relayVars
  <2>3. Sole'
    BY <2>1 DEF Sole, OneSocket, Connect
  <2>4. Beating'
    BY <1>2 DEF Beating, Connect, beatVars
  <2> QED
    BY <2>2, <2>3, <2>4
<1>4. CASE UNCHANGED sockVars
  <2>1. TypeOK'
    BY <1>4, StartTimerType
       DEF TypeOK, Connect, SetState, sockVars, beatVars, relayVars
  <2>2. \A s \in Sockets : ~Alive(s)'
    BY <1>1, <1>4 DEF Alive, sockVars
  <2>3. Sole'
    BY <2>2 DEF Sole, OneSocket
  <2>4. Beating'
    BY <1>2 DEF Beating, Connect, beatVars
  <2> QED
    BY <2>1, <2>3, <2>4
<1> QED
  BY <1>3, <1>4 DEF Connect

LEMMA OpenLive ==
    ASSUME NEW s \in Sockets, Live, PlatformConstants,
           Open(s) \/ ConnectionTimeout(s)
    PROVE  Live'
<1> USE DEF Live
<1>1. \A t \in Sockets : /\ Alive(t)' <=> Alive(t)
                         /\ Delivers(t) => Delivers(t)'
  BY DEF Open, ConnectionTimeout, SetState, Alive, Delivers, TypeOK
<1>2. TypeOK'
  BY DEF Open, ConnectionTimeout, SetState, TypeOK, PlatformConstants, flagVars, retryVars,
         beatVars, relayVars
<1>3. Sole'
  BY <1>1 DEF Sole, OneSocket, Open, ConnectionTimeout, flagVars, retryVars
<1>4. Beating'
  BY <1>1 DEF Beating, Open, ConnectionTimeout, beatVars
<1> QED
  BY <1>2, <1>3, <1>4

LEMMA StopHeartbeatType ==
    ASSUME Beating, TypeOK, StopHeartbeat
    PROVE  beats' = 0 /\ heartbeatInterval' = FALSE
BY DEF Beating, TypeOK, StopHeartbeat

(* Whatever ends a socket: afterwards there is none, and no heartbeat.       *)
LEMMA SocketClosedLive ==
    ASSUME PlatformConstants, Live, NEW s \in Sockets, Alive(s),
           NEW why \in {"lost", "away", "auth", "old"}, SocketClosed(s, why)
    PROVE  /\ Live' /\ \A t \in Sockets : ~Alive(t)'
           /\ reconnectTimeout = "none"
<1> USE DEF Live
<1>1. \A t \in Sockets : ~Alive(t)'
  BY DEF Sole, OneSocket, SocketClosed, SetState, Alive, TypeOK
<1>2. beats' = 0 /\ heartbeatInterval' = FALSE
  BY StopHeartbeatType DEF SocketClosed
<1>3. reconnectTimeout = "none"
  BY DEF Sole
<1>4. TypeOK'
  <2>1. /\ state' \in [Sockets -> {"connecting", "open", "closing", "closed"}]
        /\ paired' \subseteq Sockets /\ ws' \in Sockets \cup {None}
        /\ isConnected' \in BOOLEAN /\ everConnected' \in BOOLEAN
        /\ heartbeatInterval' \in BOOLEAN /\ isIntentionallyClosed' \in BOOLEAN
        /\ protocolUpgradeRequired' \in BOOLEAN
        /\ beats' \in Nat /\ missedPongs' \in 0..MaxMissedPongs
    BY <1>2 DEF SocketClosed, SetState, TypeOK
  <2>2. /\ reconnectTimeout' \in {"none", "backoff", "sentinel"}
        /\ reconnectAttempts' \in 0..MaxReconnectAttempts
        /\ gaveUp' \in {"no", "login", "auth", "old", "attempts"}
    BY <1>3, StartTimerType DEF SocketClosed, ScheduleReconnect, retryVars, TypeOK
  <2>3. /\ relay' \in Contexts \cup {None} /\ connected' \subseteq Contexts
        /\ pending' \in Seq(Numbers) /\ Len(pending') <= MaxPending
        /\ handled' \in Seq(Numbers) /\ sent' \in 0..MaxMessages
    BY DropRelayType DEF SocketClosed, relayVars, TypeOK
  <2> QED
    BY <2>1, <2>2, <2>3 DEF TypeOK
<1>5. Sole'
  BY <1>1 DEF Sole, OneSocket
<1>6. Beating'
  BY <1>2 DEF Beating
<1> QED
  BY <1>1, <1>3, <1>4, <1>5, <1>6

(* The ways in which a socket ends.                                          *)
Ends(s) == Refused(s) \/ ClosedByPlatform(s) \/ ClosedByCLI(s)

LEMMA EndsIsClosed ==
    ASSUME NEW s \in Sockets, Ends(s)
    PROVE  /\ Alive(s)
           /\ \E why \in {"lost", "away", "auth", "old"} : SocketClosed(s, why)
BY DEF Ends, Refused, ClosedByPlatform, ClosedByCLI, Alive

LEMMA DisconnectLive ==
    ASSUME Live, Disconnect
    PROVE  Live'
<1> USE DEF Live
<1>1. \A t \in Sockets : Alive(t)' => Alive(t)
  BY DEF Disconnect, Alive, TypeOK
<1>2. beats' = 0 /\ heartbeatInterval' = FALSE
  BY StopHeartbeatType DEF Disconnect
<1>3. TypeOK'
  BY <1>2 DEF Disconnect, TypeOK, relayVars
<1>4. Sole'
  BY <1>1 DEF Sole, OneSocket, Disconnect
<1>5. Beating'
  BY <1>2 DEF Beating
<1> QED
  BY <1>3, <1>4, <1>5

-----------------------------------------------------------------------------
(* Pairing, the heartbeat, and what is no business of the socket.            *)

LEMMA PairedLive ==
    ASSUME PlatformConstants, Live, NEW s \in Sockets, Paired(s)
    PROVE  Live'
<1> USE DEF Live
<1>1. ~heartbeatInterval
  BY DEF Beating, Sole, OneSocket, Delivers, Alive, Paired
<1>2. TypeOK'
  BY DEF Paired, TypeOK, PlatformConstants, retryVars, relayVars
<1>3. Sole'
  BY DEF Paired, Sole, OneSocket, Alive, retryVars
<1>4. beats' = 1 /\ heartbeatInterval' = TRUE /\ Delivers(s)' /\ s \in paired'
  BY <1>1 DEF Beating, TypeOK, Paired, Delivers
<1>5. Beating'
  BY <1>4 DEF Beating
<1> QED
  BY <1>2, <1>3, <1>5

LEMMA TickLive ==
    ASSUME PlatformConstants, Live, Tick
    PROVE  Live'
<1> USE DEF Live
<1>1. CASE Missed(missedPongs)
  <2>1. beats' = 0 /\ heartbeatInterval' = FALSE
    BY <1>1, StopHeartbeatType DEF Tick
  <2>2. /\ missedPongs' = 0 /\ UNCHANGED <<paired, ws, flagVars, retryVars, relayVars>>
        /\ ws \in Sockets
        /\ IF Alive(ws) THEN SetState(ws, "closing") ELSE UNCHANGED state
    BY <1>1 DEF Tick, TypeOK
  <2>3. TypeOK'
    <3>1. state' \in [Sockets -> {"connecting", "open", "closing", "closed"}]
      BY <2>2 DEF TypeOK, SetState
    <3>2. missedPongs' \in 0..MaxMissedPongs
      BY <2>2, 0 \in 0..MaxMissedPongs DEF PlatformConstants
    <3> QED
      BY <2>1, <2>2, <3>1, <3>2 DEF TypeOK, flagVars, retryVars, relayVars
  <2>4. \A t \in Sockets : Alive(t)' => Alive(t)
    BY <2>2 DEF SetState, Alive, TypeOK
  <2>5. Sole'
    BY <2>2, <2>4 DEF Sole, OneSocket, flagVars, retryVars
  <2>6. Beating'
    BY <2>1 DEF Beating
  <2> QED
    BY <2>3, <2>5, <2>6
<1>2. CASE ~Missed(missedPongs)
  <2>1. TypeOK'
    <3>1. missedPongs' \in 0..MaxMissedPongs
      BY <1>2 DEF Tick, Missed, TypeOK, PlatformConstants
    <3>2. UNCHANGED <<sockVars, flagVars, retryVars, heartbeatInterval, beats, relayVars>>
      BY <1>2 DEF Tick, sockVars
    <3> QED
      BY <3>1, <3>2 DEF TypeOK, sockVars, flagVars, retryVars, relayVars
  <2>2. Sole' /\ Beating'
    BY <1>2 DEF Tick, Sole, Beating, OneSocket, Alive, Delivers, flagVars, retryVars
  <2> QED
    BY <2>1, <2>2
<1> QED
  BY <1>1, <1>2

Relaying(s) == WebConnected(s) \/ WebDisconnected(s) \/ Relayed(s)

LEMMA OthersLive ==
    ASSUME PlatformConstants, Live, NEW s \in Sockets,
           AnswerUpgradeRequired(s) \/ Pong(s) \/ Relaying(s)
    PROVE  Live'
<1> USE DEF Live
<1>1. CASE AnswerUpgradeRequired(s) \/ Pong(s)
  <2>1. TypeOK'
    <3>1. missedPongs' \in 0..MaxMissedPongs /\ protocolUpgradeRequired' \in BOOLEAN
      <4>1. CASE AnswerUpgradeRequired(s)
        BY <4>1 DEF AnswerUpgradeRequired, TypeOK, beatVars
      <4>2. CASE Pong(s)
        BY <4>2 DEF Pong, TypeOK, PlatformConstants, flagVars
      <4> QED
        BY <1>1, <4>1, <4>2
    <3>2. UNCHANGED <<sockVars, isConnected, everConnected, isIntentionallyClosed, retryVars,
                      heartbeatInterval, beats, relayVars>>
      BY <1>1 DEF AnswerUpgradeRequired, Pong, flagVars, beatVars
    <3> QED
      BY <3>1, <3>2 DEF TypeOK, sockVars, retryVars, relayVars
  <2>2. Sole' /\ Beating'
    BY <1>1 DEF AnswerUpgradeRequired, Pong, Sole, Beating, OneSocket, Alive, Delivers,
                sockVars, flagVars, retryVars, beatVars
  <2> QED
    BY <2>1, <2>2
<1>2. CASE Relaying(s)
  <2>1. Quiet /\ UNCHANGED <<flagVars, retryVars>>
    BY <1>2 DEF Relaying, WebConnected, WebDisconnected, Relayed, Quiet, flagVars, retryVars
  <2>2. /\ relay' \in Contexts \cup {None} /\ connected' \subseteq Contexts
        /\ pending' \in Seq(Numbers) /\ Len(pending') <= MaxPending
        /\ handled' \in Seq(Numbers) /\ sent' \in 0..MaxMessages
    <3>1. CASE WebConnected(s)
      <4>1. handled \o pending \in Seq(Numbers)
        BY DEF TypeOK
      <4> QED
        BY <3>1, <4>1 DEF WebConnected, Drained, Closed, TypeOK, PlatformConstants
    <3>2. CASE WebDisconnected(s)
      BY <3>2, DropRelayType DEF WebDisconnected, TypeOK
    <3>3. CASE Relayed(s)
      <4>1. sent' \in Numbers /\ sent' \in 0..MaxMessages
        BY <3>3 DEF Relayed, TypeOK, Numbers, PlatformConstants
      <4>2. /\ Append(pending, sent') \in Seq(Numbers)
            /\ Len(Append(pending, sent')) = Len(pending) + 1
            /\ Len(pending) \in Nat
            /\ Append(handled, sent') \in Seq(Numbers)
        BY <4>1 DEF TypeOK
      <4>3. Len(pending') <= MaxPending
        BY <3>3, <4>2 DEF Relayed, TypeOK, PlatformConstants
      <4> QED
        BY <3>3, <4>1, <4>2, <4>3 DEF Relayed, TypeOK
    <3> QED
      BY <1>2, <3>1, <3>2, <3>3 DEF Relaying
  <2>3. TypeOK'
    BY <2>1, <2>2 DEF TypeOK, Quiet, sockVars, beatVars, flagVars, retryVars
  <2> QED
    BY <2>1, <2>3, QuietLive
<1> QED
  BY <1>1, <1>2

LEMMA LiveStep == ASSUME PlatformConstants PROVE Live /\ [Next]_vars => Live'
<1> SUFFICES ASSUME Live, [Next]_vars PROVE Live'
  OBVIOUS
<1>1. CASE UNCHANGED vars
  <2>1. TypeOK'
    BY <1>1 DEF Live, TypeOK, vars, sockVars, flagVars, retryVars, beatVars, relayVars
  <2> QED
    BY <1>1, <2>1, QuietLive DEF Live, Quiet, vars, flagVars, retryVars
<1>2. CASE Connect \/ Disconnect \/ Tick
  BY <1>2, ConnectLive, DisconnectLive, TickLive
<1>3. ASSUME NEW s \in Sockets, Ends(s) PROVE Live'
  BY <1>3, EndsIsClosed, SocketClosedLive
<1>4. ASSUME NEW s \in Sockets,
             \/ Open(s) \/ AnswerUpgradeRequired(s) \/ ConnectionTimeout(s)
             \/ Paired(s) \/ Pong(s) \/ Relaying(s)
      PROVE  Live'
  BY <1>4, OpenLive, PairedLive, OthersLive
<1> QED
  BY <1>1, <1>2, <1>3, <1>4 DEF Next, Ends, Relaying

LEMMA AlwaysLive == ASSUME PlatformConstants PROVE Spec => []Live
<1>1. Init => Live
  BY InitLive
<1>2. Live /\ [Next]_vars => Live'
  BY LiveStep
<1> QED
  BY <1>1, <1>2, PTL DEF Spec

(* Every reachable state of the connection and its relay is well typed; in   *)
(* particular attempts, missed pongs and kept messages stay within limits.   *)
THEOREM ConnectionTypeCorrect == ASSUME PlatformConstants PROVE Spec => []TypeOK
<1>1. Live => TypeOK
  BY DEF Live
<1> QED
  BY <1>1, AlwaysLive, PTL

(* However sockets are refused, time out, are lost or closed, there is never *)
(* a second one.                                                             *)
THEOREM OneSocketHolds == ASSUME PlatformConstants PROVE Spec => []OneSocket
<1>1. Live => OneSocket
  BY DEF Live, Sole
<1> QED
  BY <1>1, AlwaysLive, PTL

(* Until the CLI shuts down one heartbeat at most ticks, over the paired     *)
(* socket that `ws` points to.                                               *)
THEOREM OneHeartbeatHolds == ASSUME PlatformConstants PROVE Spec => []OneHeartbeat
<1>1. Live => OneHeartbeat
  <2> SUFFICES ASSUME Live, ~isIntentionallyClosed
               PROVE  beats <= 1 /\ (beats = 1 => ws # None /\ Delivers(ws) /\ ws \in paired)
    BY DEF OneHeartbeat
  <2>1. beats <= 1 /\ (beats = 1 => heartbeatInterval)
    BY DEF Live, Beating
  <2>2. ASSUME heartbeatInterval PROVE ws # None /\ Delivers(ws) /\ ws \in paired
    <3>1. PICK s \in Sockets : Delivers(s) /\ s \in paired
      BY <2>2 DEF Live, Beating
    <3>2. ws = s
      BY <3>1 DEF Live, Sole, Alive, Delivers
    <3> QED
      BY <3>1, <3>2 DEF PlatformConstants
  <2> QED
    BY <2>1, <2>2
<1> QED
  BY <1>1, AlwaysLive, PTL

-----------------------------------------------------------------------------
(* Trying goes on, or its end was announced.                                 *)

LEMMA StrandedStep ==
    ASSUME PlatformConstants, Live, NotStranded, [Next]_vars
    PROVE  NotStranded'
<1>1. CASE Connect
  <2>1. CASE \E s \in Sockets : SetState(s, "connecting")
    <3>1. PICK s \in Sockets : SetState(s, "connecting")
      BY <2>1
    <3>2. Alive(s)'
      BY <3>1 DEF SetState, Alive, Live, TypeOK
    <3> QED
      BY <3>2 DEF NotStranded
  <2>2. CASE gaveUp' = "login" \/ StartTimer
    BY <2>2, StartTimerType DEF NotStranded, Live
  <2> QED
    BY <1>1, <2>1, <2>2 DEF Connect
<1>2. CASE Disconnect
  BY <1>2 DEF Disconnect, NotStranded
<1>3. CASE Tick
  <2>1. \A s \in Sockets : Alive(s) => Alive(s)'
    BY <1>3 DEF Tick, SetState, Alive, Live, TypeOK
  <2> QED
    BY <1>3, <2>1 DEF Tick, NotStranded, flagVars, retryVars
<1>4. ASSUME NEW s \in Sockets, Ends(s) PROVE NotStranded'
  <2>1. PICK why \in {"lost", "away", "auth", "old"} : SocketClosed(s, why)
    BY <1>4, EndsIsClosed
  <2>2. reconnectTimeout = "none"
    BY <1>4, EndsIsClosed DEF Live, Sole
  <2> QED
    BY <2>1, <2>2, StartTimerType DEF SocketClosed, ScheduleReconnect, NotStranded, Live
<1>5. ASSUME NEW s \in Sockets,
             \/ Open(s) \/ AnswerUpgradeRequired(s) \/ ConnectionTimeout(s)
             \/ Paired(s) \/ Pong(s) \/ Relaying(s)
      PROVE  NotStranded'
  <2>1. Alive(s)'
    BY <1>5 DEF Open, AnswerUpgradeRequired, ConnectionTimeout, Paired, Pong, Relaying,
                WebConnected, WebDisconnected, Relayed, Delivers, SetState, Alive, Live,
                TypeOK, sockVars
  <2> QED
    BY <2>1 DEF NotStranded
<1>6. CASE UNCHANGED vars
  BY <1>6 DEF NotStranded, Alive, vars, sockVars, flagVars, retryVars
<1> QED
  BY <1>1, <1>2, <1>3, <1>4, <1>5, <1>6 DEF Next, Ends, Relaying

(* Until it is shut down the CLI has a socket or a timer, or has told the    *)
(* user why it stopped trying.                                               *)
THEOREM NotStrandedHolds == ASSUME PlatformConstants PROVE Spec => []NotStranded
<1>1. Init => NotStranded
  BY DEF Init, NotStranded
<1>2. Live /\ NotStranded /\ [Next]_vars => NotStranded'
  BY StrandedStep
<1> QED
  BY <1>1, <1>2, AlwaysLive, PTL DEF Spec

-----------------------------------------------------------------------------
(* The relay's context.                                                      *)

(* No context waits for a timer: every close that starts one drops it.       *)
Bound == RelayHasSocket /\ (reconnectTimeout # "none" => relay = None)

LEMMA DropRelayBound ==
    ASSUME PlatformConstants, TypeOK, connected = {relay} \ {None}, DropRelay
    PROVE  relay' = None /\ connected' = {relay'} \ {None}
BY DEF DropRelay

LEMMA BoundStep ==
    ASSUME PlatformConstants, Live, Bound, [Next]_vars
    PROVE  Bound'
<1> USE DEF Bound
<1>1. CASE Connect
  BY <1>1 DEF Connect, RelayHasSocket, relayVars
<1>2. CASE Disconnect
  <2>1. UNCHANGED relayVars /\ isIntentionallyClosed' = TRUE /\ reconnectTimeout' = "none"
    BY <1>2 DEF Disconnect
  <2> QED
    BY <2>1 DEF RelayHasSocket, relayVars
<1>3. CASE Tick
  <2>1. \A s \in Sockets : Alive(s) => Alive(s)'
    BY <1>3 DEF Tick, SetState, Alive, Live, TypeOK
  <2> QED
    BY <1>3, <2>1 DEF Tick, RelayHasSocket, flagVars, retryVars, relayVars
<1>4. ASSUME NEW s \in Sockets, Ends(s) PROVE Bound'
  <2>1. PICK why \in {"lost", "away", "auth", "old"} : SocketClosed(s, why)
    BY <1>4, EndsIsClosed
  <2>2. reconnectTimeout = "none"
    BY <1>4, EndsIsClosed DEF Live, Sole
  <2>3. CASE DropRelay
    BY <2>3, DropRelayBound DEF RelayHasSocket, Live
  <2>4. CASE isIntentionallyClosed /\ UNCHANGED <<retryVars, relayVars>>
    BY <2>1, <2>2, <2>4 DEF SocketClosed, RelayHasSocket, retryVars, relayVars
  <2>5. CASE gaveUp' = "auth" /\ UNCHANGED <<reconnectTimeout, relayVars>>
    BY <2>2, <2>5 DEF RelayHasSocket, relayVars
  <2> QED
    BY <2>1, <2>3, <2>4, <2>5 DEF SocketClosed
<1>5. ASSUME NEW s \in Sockets,
             Open(s) \/ AnswerUpgradeRequired(s) \/ ConnectionTimeout(s) \/ Paired(s) \/ Pong(s)
      PROVE  Bound'
  <2>1. Alive(s)'
    BY <1>5 DEF Open, AnswerUpgradeRequired, ConnectionTimeout, Paired, Pong,
                Delivers, SetState, Alive, Live, TypeOK, sockVars
  <2>2. UNCHANGED <<relayVars, reconnectTimeout>>
    BY <1>5 DEF Open, AnswerUpgradeRequired, ConnectionTimeout, Paired, Pong, retryVars
  <2> QED
    BY <2>1, <2>2 DEF RelayHasSocket, relayVars
<1>6. ASSUME NEW s \in Sockets, Relaying(s) PROVE Bound'
  <2>1. Alive(s)' /\ Alive(s) /\ UNCHANGED reconnectTimeout
    BY <1>6 DEF Relaying, WebConnected, WebDisconnected, Relayed, Delivers, Alive, sockVars,
                retryVars
  <2>2. reconnectTimeout = "none"
    BY <2>1 DEF Live, Sole
  <2>3. connected' = {relay'} \ {None}
    <3>1. CASE WebConnected(s)
      BY <3>1 DEF WebConnected, Closed, RelayHasSocket, PlatformConstants
    <3>2. CASE WebDisconnected(s)
      BY <3>2 DEF WebDisconnected, DropRelay, RelayHasSocket
    <3>3. CASE Relayed(s)
      BY <3>3 DEF Relayed, RelayHasSocket
    <3> QED
      BY <1>6, <3>1, <3>2, <3>3 DEF Relaying
  <2> QED
    BY <2>1, <2>2, <2>3 DEF RelayHasSocket
<1>7. CASE UNCHANGED vars
  BY <1>7 DEF RelayHasSocket, Alive, vars, sockVars, flagVars, retryVars, relayVars
<1> QED
  BY <1>1, <1>2, <1>3, <1>4, <1>5, <1>6, <1>7 DEF Next, Ends, Relaying

(* The message handler knows the current relay context and no other, and     *)
(* none without a socket unless authentication failed or the CLI shuts down. *)
THEOREM RelayHasSocketHolds == ASSUME PlatformConstants PROVE Spec => []RelayHasSocket
<1>1. Init => Bound
  BY DEF Init, Bound, RelayHasSocket
<1>2. Live /\ Bound /\ [Next]_vars => Bound'
  BY BoundStep
<1>3. Bound => RelayHasSocket
  BY DEF Bound
<1> QED
  BY <1>1, <1>2, <1>3, AlwaysLive, PTL DEF Spec

-----------------------------------------------------------------------------
(* The order of the webs' messages.                                          *)

Increasing(q) == \A i, j \in 1..Len(q) : i < j => q[i] < q[j]
Below(q, n) == \A i \in 1..Len(q) : q[i] <= n

(* What waits was sent after everything that was handled, and nothing waits  *)
(* while there is a context to handle it.                                    *)
Queued ==
    /\ Increasing(handled) /\ Below(handled, sent)
    /\ Increasing(pending) /\ Below(pending, sent)
    /\ \A i \in 1..Len(handled) : \A j \in 1..Len(pending) : handled[i] < pending[j]
    /\ relay # None => pending = <<>>

LEMMA AppendIncreasing ==
    ASSUME NEW q \in Seq(Nat), NEW n \in Nat, Increasing(q), Below(q, n)
    PROVE  Increasing(Append(q, n + 1)) /\ Below(Append(q, n + 1), n + 1)
<1> DEFINE r == Append(q, n + 1)
<1>1. /\ Len(r) = Len(q) + 1 /\ Len(q) \in Nat
      /\ r[Len(r)] = n + 1
      /\ \A i \in 1..Len(q) : r[i] = q[i] /\ q[i] \in Nat
  OBVIOUS
<1> HIDE DEF r
<1>2. \A i \in 1..Len(r) : i = Len(r) \/ i \in 1..Len(q)
  BY <1>1
<1>3. Below(r, n + 1)
  BY <1>1, <1>2 DEF Below
<1>4. ASSUME NEW i \in 1..Len(r), NEW j \in 1..Len(r), i < j PROVE r[i] < r[j]
  <2>1. i \in 1..Len(q)
    BY <1>1, <1>4
  <2>2. CASE j = Len(r)
    BY <1>1, <2>1, <2>2 DEF Below
  <2>3. CASE j \in 1..Len(q)
    BY <1>1, <1>4, <2>1, <2>3 DEF Increasing
  <2> QED
    BY <1>2, <2>2, <2>3
<1> QED
  BY <1>3, <1>4 DEF Increasing, r

LEMMA ConcatIncreasing ==
    ASSUME NEW p \in Seq(Nat), NEW q \in Seq(Nat), NEW n \in Nat,
           Increasing(p), Increasing(q), Below(p, n), Below(q, n),
           \A i \in 1..Len(p) : \A j \in 1..Len(q) : p[i] < q[j]
    PROVE  Increasing(p \o q) /\ Below(p \o q, n)
<1> DEFINE r == p \o q
<1>1. /\ Len(r) = Len(p) + Len(q) /\ Len(p) \in Nat /\ Len(q) \in Nat
      /\ \A i \in 1..Len(p) : r[i] = p[i]
      /\ \A i \in 1..Len(r) : i > Len(p) => r[i] = q[i - Len(p)]
  OBVIOUS
<1> HIDE DEF r
<1>2. \A i \in 1..Len(r) : i \in 1..Len(p) \/ (i > Len(p) /\ i - Len(p) \in 1..Len(q))
  BY <1>1
<1>3. Below(r, n)
  BY <1>1, <1>2 DEF Below
<1>4. ASSUME NEW i \in 1..Len(r), NEW j \in 1..Len(r), i < j PROVE r[i] < r[j]
  <2>1. CASE j \in 1..Len(p)
    <3>1. i \in 1..Len(p)
      BY <1>1, <1>4, <2>1
    <3> QED
      BY <1>1, <1>4, <2>1, <3>1 DEF Increasing
  <2>2. CASE i \in 1..Len(p) /\ j > Len(p)
    <3>1. r[i] = p[i] /\ r[j] = q[j - Len(p)]
      BY <1>1, <2>2
    <3>2. j - Len(p) \in 1..Len(q)
      BY <1>1, <2>2
    <3> QED
      BY <2>2, <3>1, <3>2
  <2>3. CASE i > Len(p) /\ j > Len(p)
    <3>1. i - Len(p) \in 1..Len(q) /\ j - Len(p) \in 1..Len(q) /\ i - Len(p) < j - Len(p)
      BY <1>1, <1>4, <2>3
    <3>2. r[i] = q[i - Len(p)] /\ r[j] = q[j - Len(p)]
      BY <1>1, <2>3
    <3>3. q[i - Len(p)] < q[j - Len(p)]
      BY <3>1 DEF Increasing
    <3> QED
      BY <3>2, <3>3
  <2> QED
    BY <1>1, <1>2, <2>1, <2>2, <2>3
<1> QED
  BY <1>3, <1>4 DEF Increasing, r

LEMMA NumbersAreNat == PlatformConstants => Seq(Numbers) \subseteq Seq(Nat)
<1> SUFFICES ASSUME PlatformConstants, NEW q \in Seq(Numbers) PROVE q \in Seq(Nat)
  OBVIOUS
<1>1. Numbers \subseteq Nat
  BY DEF Numbers, PlatformConstants
<1> QED
  BY <1>1, SeqMonotonic

LEMMA EmptyQueued ==
    ASSUME Queued, pending' = <<>>, handled' = handled, sent' = sent
    PROVE  Queued'
BY DEF Queued, Increasing, Below

LEMMA QueuedStep ==
    ASSUME PlatformConstants, Live, Queued, [Next]_vars
    PROVE  Queued'
<1>0. pending \in Seq(Nat) /\ handled \in Seq(Nat) /\ sent \in Nat
  BY NumbersAreNat DEF Live, TypeOK, PlatformConstants
<1>1. CASE UNCHANGED relayVars
  BY <1>1 DEF Queued, Increasing, Below, relayVars
<1>2. ASSUME NEW s \in Sockets, Ends(s) PROVE Queued'
  <2>1. PICK why \in {"lost", "away", "auth", "old"} : SocketClosed(s, why)
    BY <1>2, EndsIsClosed
  <2>2. CASE DropRelay /\ UNCHANGED <<handled, sent>>
    BY <2>2, EmptyQueued DEF DropRelay
  <2> QED
    BY <1>1, <2>1, <2>2 DEF SocketClosed
<1>3. ASSUME NEW s \in Sockets, WebConnected(s) PROVE Queued'
  <2>1. handled' = handled \o pending /\ pending' = <<>> /\ sent' = sent
    BY <1>3 DEF WebConnected, Drained
  <2>2. Increasing(handled') /\ Below(handled', sent')
    BY <1>0, <2>1, ConcatIncreasing DEF Queued
  <2> QED
    BY <2>1, <2>2 DEF Queued, Increasing, Below
<1>4. ASSUME NEW s \in Sockets, WebDisconnected(s) PROVE Queued'
  BY <1>4, EmptyQueued DEF WebDisconnected, DropRelay
<1>5. ASSUME NEW s \in Sockets, Relayed(s) PROVE Queued'
  <2>1. /\ sent' = sent + 1 /\ relay' = relay
        /\ Below(handled, sent') /\ Below(pending, sent')
    BY <1>0, <1>5 DEF Relayed, Queued, Below
  <2>2. CASE relay # None
    <3>1. handled' = Append(handled, sent + 1) /\ pending' = <<>>
      BY <1>5, <2>1, <2>2 DEF Relayed, Queued
    <3>2. Increasing(handled') /\ Below(handled', sent')
      BY <1>0, <2>1, <3>1, AppendIncreasing DEF Queued
    <3> QED
      BY <3>1, <3>2 DEF Queued, Increasing, Below
  <2>3. CASE relay = None /\ Len(pending) < MaxPending
    <3>1. pending' = Append(pending, sent + 1) /\ handled' = handled
      BY <1>5, <2>1, <2>3 DEF Relayed
    <3>2. Increasing(pending') /\ Below(pending', sent')
      BY <1>0, <2>1, <3>1, AppendIncreasing DEF Queued
    <3>3. ASSUME NEW i \in 1..Len(handled), NEW j \in 1..Len(pending')
          PROVE  handled[i] < pending'[j]
      <4>1. /\ Len(pending') = Len(pending) + 1 /\ pending'[Len(pending')] = sent + 1
            /\ \A k \in 1..Len(pending) : pending'[k] = pending[k]
            /\ Len(pending) \in Nat /\ handled[i] \in Nat
        BY <1>0, <3>1
      <4>2. handled[i] < sent + 1
        BY <1>0, <4>1 DEF Queued, Below
      <4> QED
        BY <4>1, <4>2 DEF Queued
    <3> QED
      BY <2>1, <2>3, <3>1, <3>2, <3>3 DEF Queued
  <2>4. CASE relay = None /\ ~(Len(pending) < MaxPending)
    BY <1>5, <2>1, <2>4 DEF Relayed, Queued
  <2> QED
    BY <2>2, <2>3, <2>4
<1>6. CASE \/ Connect \/ Disconnect \/ Tick
           \/ \E s \in Sockets : \/ Open(s) \/ AnswerUpgradeRequired(s)
                                 \/ ConnectionTimeout(s) \/ Paired(s) \/ Pong(s)
  BY <1>1, <1>6 DEF Connect, Disconnect, Tick, Open, AnswerUpgradeRequired,
                    ConnectionTimeout, Paired, Pong
<1> QED
  BY <1>1, <1>2, <1>3, <1>4, <1>5, <1>6 DEF Next, Ends, vars

(* The webs' messages are handled in the order they were sent and once,      *)
(* however often sockets and contexts come and go in between.                *)
THEOREM HandledInOrderHolds == ASSUME PlatformConstants PROVE Spec => []HandledInOrder
<1>1. Init => Queued
  BY DEF Init, Queued, Increasing, Below
<1>2. Live /\ Queued /\ [Next]_vars => Queued'
  BY QueuedStep
<1>3. Queued => HandledInOrder
  BY DEF Queued, Increasing, HandledInOrder
<1> QED
  BY <1>1, <1>2, <1>3, AlwaysLive, PTL DEF Spec
=============================================================================
