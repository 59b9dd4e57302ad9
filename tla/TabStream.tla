----------------------------- MODULE TabStream -----------------------------
(***************************************************************************)
(* The events of a tab on their way to the web clients that show it        *)
(* (server/services/websocket/tab-event-buffer.ts, tab-broadcast.ts,       *)
(* tab-event-replay.ts, session-initialization.ts): numbered, kept for a   *)
(* while, broadcast to the connections there are, and replayed to a web    *)
(* that returns with the highest number it has seen, or replaced by a      *)
(* snapshot when the replay would have a gap.                              *)
(*                                                                         *)
(* A web is the browser code, which is not in this repository: it keeps    *)
(* the highest number it received and asks with it when it reconnects, as  *)
(* tab-broadcast.ts says.                                                  *)
(***************************************************************************)
EXTENDS Integers

CONSTANTS
    Webs,          \* web clients, each with a connection of its own
    MaxBuffered,   \* maxEvents of the buffer
    MaxEvents,     \* bound: events of the tab
    MaxLosses,     \* bound: restarts of the CLI and removals of the tab
    None, NoAsk

ASSUME StreamConstants ==
    /\ MaxBuffered \in Nat
    /\ MaxEvents \in Nat /\ MaxLosses \in Nat
    /\ None \notin Nat /\ NoAsk \notin Nat \cup {None}

VARIABLES
    (* the web clients *)
    hears,      \* those the server's messages reach
    opened,     \* those that have the tab open
    asked,      \* [Webs -> lastSeenSeq of the initTab on its way, or NoAsk]
    synced,     \* those whose initTab was answered since they connected
    seen,       \* [Webs -> events the web shows]
    lastSeen,   \* [Webs -> the highest seq received, None after a page load]
    stale,      \* those whose lastSeen comes from an earlier numbering
    torn,       \* those whose lastSeen passed events they were never sent
    (* the server *)
    conns,      \* allConnections
    hasBuffer, nextSeq, evictedThroughSeq,
    total,      \* events of the tab so far, in all buffers
    losses

webVars == <<hears, opened, asked, synced>>
viewVars == <<seen, lastSeen, stale, torn>>
bufVars == <<hasBuffer, nextSeq, evictedThroughSeq, total>>
vars == <<webVars, viewVars, conns, bufVars, losses>>

Seqs == Nat \cup {None}

TypeOK ==
    /\ conns \subseteq Webs /\ hears \subseteq conns /\ synced \subseteq hears
    /\ opened \subseteq Webs /\ synced \subseteq opened /\ stale \subseteq Webs
    /\ torn \subseteq Webs
    /\ asked \in [Webs -> Seqs \cup {NoAsk}]
    /\ \A w \in Webs : asked[w] # NoAsk => w \in hears \cap opened
    /\ seen \in [Webs -> SUBSET (1..total)]
    /\ lastSeen \in [Webs -> Seqs]
    /\ hasBuffer \in BOOLEAN
    /\ nextSeq \in Nat \ {0} /\ evictedThroughSeq \in Nat /\ total \in Nat
    /\ evictedThroughSeq < nextSeq /\ nextSeq <= total + 1
    /\ losses \in 0..MaxLosses

Init ==
    /\ conns = {} /\ hears = {} /\ opened = {} /\ synced = {} /\ stale = {} /\ torn = {}
    /\ asked = [w \in Webs |-> NoAsk]
    /\ seen = [w \in Webs |-> {}] /\ lastSeen = [w \in Webs |-> None]
    /\ hasBuffer = FALSE /\ nextSeq = 1 /\ evictedThroughSeq = 0 /\ total = 0
    /\ losses = 0
-----------------------------------------------------------------------------
(* The buffer                                                                *)

\* The event that seq number n of the present buffer stands for.
Event(n) == total - (nextSeq - 1) + n

(* What evict() may leave behind when the next number is n: age and bytes    *)
(* may take any prefix, the count cap takes what exceeds it.                 *)
Prefixes(n) == {e \in evictedThroughSeq..n - 1 : n - 1 - e <= MaxBuffered}
Frontiers(n) == Prefixes(n)

Highest(old, n) == IF old = None THEN n ELSE IF old < n THEN n ELSE old

Hearing == hears \cap opened

(* broadcastTabEvent.  A web shows and counts whatever reaches it, also events *)
(* that overtake the answer to its initTab.  It takes a command of a web to    *)
(* start the first event.                                                     *)
Emit ==
    /\ hasBuffer \/ synced # {}
    /\ total < MaxEvents /\ total' = total + 1
    /\ hasBuffer' = TRUE /\ nextSeq' = nextSeq + 1
    /\ evictedThroughSeq' \in Frontiers(nextSeq + 1)
    /\ seen' = [w \in Webs |-> IF w \in Hearing
                               THEN seen[w] \cup {total + 1} ELSE seen[w]]
    /\ lastSeen' = [w \in Webs |-> IF w \in Hearing
                                   THEN Highest(lastSeen[w], nextSeq) ELSE lastSeen[w]]
    /\ UNCHANGED <<webVars, stale, torn, conns, losses>>
-----------------------------------------------------------------------------
(* Web clients                                                               *)

(* A web that has the tab open asks for it as soon as it is connected.       *)
Connect(w) ==
    /\ w \notin conns
    /\ conns' = conns \cup {w} /\ hears' = hears \cup {w}
    /\ asked' = [asked EXCEPT ![w] = IF w \in opened THEN lastSeen[w] ELSE NoAsk]
    /\ UNCHANGED <<opened, synced, viewVars, bufVars, losses>>

(* The user opens the tab, or returns to it.                                 *)
Ask(w) ==
    /\ w \in hears /\ asked[w] = NoAsk /\ (w \in opened => w \in synced)
    /\ asked' = [asked EXCEPT ![w] = lastSeen[w]]
    /\ opened' = opened \cup {w}
    /\ UNCHANGED <<hears, synced, viewVars, conns, bufVars, losses>>

(* Live events came before the answer, and now it will not: the web has      *)
(* counted past what it missed.                                              *)
Tears(w) == w \notin synced /\ asked[w] \notin {NoAsk, lastSeen[w]}

(* The web's transport is gone and the server has not noticed.               *)
GoDark(w) ==
    /\ w \in hears
    /\ hears' = hears \ {w} /\ synced' = synced \ {w}
    /\ asked' = [asked EXCEPT ![w] = NoAsk]
    /\ torn' = IF Tears(w) THEN torn \cup {w} ELSE torn
    /\ UNCHANGED <<opened, seen, lastSeen, stale, conns, bufVars, losses>>

\* The part of handleClose that concerns the stream.
Close(w) ==
    /\ w \in conns \ hears
    /\ conns' = conns \ {w}
    /\ UNCHANGED <<webVars, viewVars, bufVars, losses>>

(* The page is loaded anew: what the web had seen is forgotten.              *)
Reload(w) ==
    /\ w \notin hears
    /\ seen' = [seen EXCEPT ![w] = {}]
    /\ lastSeen' = [lastSeen EXCEPT ![w] = None]
    /\ stale' = stale \ {w} /\ torn' = torn \ {w}
    /\ UNCHANGED <<webVars, conns, bufVars, losses>>
-----------------------------------------------------------------------------
(* initTab and resumeSession: replayTabEventsSince, decideRecoveryMode and   *)
(* the answer.                                                               *)

\* Mutant: off by one.
HasGapOneOff(from) == from + 1 < evictedThroughSeq'
HasGapSince(from) == from < evictedThroughSeq'

Answer(w) ==
    /\ asked[w] # NoAsk /\ asked' = [asked EXCEPT ![w] = NoAsk]
    /\ synced' = synced \cup {w}
    /\ UNCHANGED <<hears, opened, stale, conns, hasBuffer, nextSeq, total, losses>>

SnapshotOf(w) ==
    /\ seen' = [seen EXCEPT ![w] = 1..total] /\ torn' = torn \ {w}
    /\ UNCHANGED lastSeen

(* A first init.                                                             *)
InitCold(w) ==
    /\ Answer(w) /\ asked[w] = None
    /\ SnapshotOf(w)
    /\ UNCHANGED evictedThroughSeq

(* The web has numbers, the server no buffer: resumed, with nothing to send. *)
InitWithoutBuffer(w) ==
    /\ Answer(w) /\ asked[w] # None /\ ~hasBuffer
    /\ UNCHANGED <<seen, lastSeen, torn, evictedThroughSeq>>

InitAfterGap(w) ==
    /\ Answer(w) /\ asked[w] # None /\ hasBuffer
    /\ evictedThroughSeq' \in Frontiers(nextSeq)
    /\ HasGapSince(asked[w])
    /\ SnapshotOf(w)

(* getSince                                                                  *)
Since(from) == {n \in evictedThroughSeq' + 1..nextSeq - 1 : n > from}

InitIncremental(w) ==
    /\ Answer(w) /\ asked[w] # None /\ hasBuffer
    /\ evictedThroughSeq' \in Frontiers(nextSeq)
    /\ ~HasGapSince(asked[w])
    /\ LET replayed == Since(asked[w]) IN
       /\ seen' = [seen EXCEPT ![w] = @ \cup {Event(n) : n \in replayed}]
       /\ lastSeen' = [lastSeen EXCEPT
                         ![w] = IF replayed = {} THEN @ ELSE Highest(@, nextSeq - 1)]
       /\ UNCHANGED torn
-----------------------------------------------------------------------------
(* Losses of the buffer                                                      *)

NewNumbering ==
    /\ losses < MaxLosses /\ losses' = losses + 1
    /\ hasBuffer' = FALSE /\ nextSeq' = 1 /\ evictedThroughSeq' = 0
    /\ asked' = [w \in Webs |-> NoAsk] /\ synced' = {}
    /\ UNCHANGED total

Restart ==
    /\ NewNumbering
    /\ conns' = {} /\ hears' = {}
    /\ stale' = {w \in Webs : lastSeen[w] # None}
    /\ UNCHANGED <<opened, seen, lastSeen, torn>>

(* handleRemoveTab: those that hear of it close the tab; a web in the dark   *)
(* keeps it and brings it back.                                              *)
Remove ==
    /\ NewNumbering
    /\ opened' = opened \ hears
    /\ seen' = [w \in Webs |-> IF w \in hears THEN {} ELSE seen[w]]
    /\ lastSeen' = [w \in Webs |-> IF w \in hears THEN None ELSE lastSeen[w]]
    /\ stale' = {w \in Webs \ hears : lastSeen[w] # None}
    /\ torn' = torn \ hears
    /\ UNCHANGED <<conns, hears>>

Next ==
    \/ Emit
    \/ \E w \in Webs :
          \/ Connect(w) \/ Ask(w) \/ GoDark(w) \/ Close(w) \/ Reload(w)
          \/ InitCold(w) \/ InitWithoutBuffer(w) \/ InitAfterGap(w) \/ InitIncremental(w)
    \/ Restart \/ Remove

Spec == Init /\ [][Next]_vars
-----------------------------------------------------------------------------
(* Properties                                                                *)

(* A web that misses an event took its number from an earlier numbering, or   *)
(* lost its link between a live event and the answer to its initTab: nothing  *)
(* else, no eviction and no order of replay and live events, leaves a gap     *)
(* (replayTabEventsSince, decideRecoveryMode).                               *)
GapsAreTears == \A w \in synced : seen[w] # 1..total => w \in stale \cup torn

(* The comment of TabEventBuffer: everything the web has not seen yet has a  *)
(* larger seq than lastSeenSeq, unless the web still waits for an answer.    *)
UnseenIsLarger ==
    \A w \in opened : lastSeen[w] # None /\ asked[w] = NoAsk =>
        \A n \in 1..nextSeq - 1 : Event(n) \notin seen[w] => n > lastSeen[w]
=============================================================================
