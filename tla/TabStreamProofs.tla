-------------------------- MODULE TabStreamProofs --------------------------
(***************************************************************************)
(* For any number of webs, events, restarts and any buffer size: a web     *)
(* that misses an event counts in an earlier numbering, or lost its link   *)
(* between a live event and the answer to its initTab.                     *)
(***************************************************************************)
EXTENDS TabStream, TLAPS

(* A web's number belongs to the buffer, and a request carries no more than  *)
(* the web has counted.                                                      *)
Numbered(w) ==
    /\ lastSeen[w] # None => hasBuffer /\ lastSeen[w] < nextSeq
    /\ asked[w] \in Nat => lastSeen[w] # None /\ asked[w] <= lastSeen[w]

(* What a request stands for: everything up to its number is shown.  Without *)
(* a request on its way the same holds of the web's number.                  *)
Sound(w) ==
    /\ asked[w] \in Nat => 1..Event(asked[w]) \subseteq seen[w]
    /\ asked[w] = NoAsk /\ lastSeen[w] # None => 1..Event(lastSeen[w]) \subseteq seen[w]
    /\ w \in synced => seen[w] = 1..total

(* Who hears events of the tab was answered or waits for an answer.          *)
Awaits == \A w \in Hearing : w \in synced \/ asked[w] # NoAsk

StreamInv ==
    /\ TypeOK /\ Awaits
    /\ \A w \in Webs \ stale : Numbered(w) /\ (w \notin torn => Sound(w))
-----------------------------------------------------------------------------
LEMMA HighestType ==
    ASSUME NEW old \in Seqs, NEW n \in Nat
    PROVE  /\ Highest(old, n) \in Nat
           /\ n <= Highest(old, n)
           /\ old # None => old <= Highest(old, n)
           /\ (old = None \/ old < n) => Highest(old, n) = n
BY StreamConstants DEF Highest, Seqs

LEMMA Renumbered ==
    ASSUME NEW e \in Nat, NEW k \in Nat, NEW t \in Nat, k <= t + 1,
           NEW n \in e + 1..k - 1
    PROVE  t - (k - 1) + n \in 1..t
OBVIOUS

LEMMA FrontierBound ==
    ASSUME TypeOK, NEW n \in Nat \ {0}, evictedThroughSeq < n, NEW e \in Frontiers(n)
    PROVE  e \in Nat /\ evictedThroughSeq <= e /\ e < n
BY DEF Frontiers, Prefixes, TypeOK

LEMMA InitType == Init => TypeOK
<1> SUFFICES ASSUME Init PROVE TypeOK
  OBVIOUS
<1>1. asked \in [Webs -> Seqs \cup {NoAsk}] /\ \A w \in Webs : asked[w] = NoAsk
  BY DEF Init
<1>2. lastSeen \in [Webs -> Seqs] /\ seen \in [Webs -> SUBSET (1..total)]
  BY DEF Init, Seqs
<1>3. 0 \in Nat /\ 1 \in Nat \ {0} /\ 0 < 1 /\ 1 <= 0 + 1 /\ 0 \in 0..MaxLosses
  BY StreamConstants
<1> QED BY <1>1, <1>2, <1>3 DEF Init, TypeOK

\* What an answer to w leaves of the type invariant to show.
LEMMA AnswerType ==
    ASSUME TypeOK, NEW w \in Webs, Answer(w),
           lastSeen' \in [Webs -> Seqs], seen' \in [Webs -> SUBSET (1..total)],
           torn' \subseteq torn, evictedThroughSeq' \in Nat, evictedThroughSeq' < nextSeq
    PROVE  TypeOK'
<1>1. asked' \in [Webs -> Seqs \cup {NoAsk}]
  BY DEF Answer, TypeOK
<1>2. \A v \in Webs : asked'[v] # NoAsk => v \in hears' \cap opened'
  BY DEF Answer, TypeOK
<1>3. synced' \subseteq hears' /\ synced' \subseteq opened'
  BY DEF Answer, TypeOK
<1> QED BY <1>1, <1>2, <1>3 DEF Answer, TypeOK

\* What a removal or restart leaves of it.
LEMMA NumberingType ==
    ASSUME TypeOK, NewNumbering, opened' \subseteq opened,
           conns' \subseteq Webs, hears' \subseteq conns', stale' \subseteq Webs,
           torn' \subseteq torn, lastSeen' \in [Webs -> Seqs], seen' \in [Webs -> SUBSET (1..total)]
    PROVE  TypeOK'
<1>1. asked' \in [Webs -> Seqs \cup {NoAsk}] /\ \A w \in Webs : asked'[w] = NoAsk
  BY DEF NewNumbering
<1>2. losses' \in 0..MaxLosses
  BY StreamConstants DEF NewNumbering, TypeOK
<1>3. /\ hasBuffer' \in BOOLEAN /\ nextSeq' \in Nat \ {0}
      /\ evictedThroughSeq' \in Nat /\ total' \in Nat
      /\ evictedThroughSeq' < nextSeq' /\ nextSeq' <= total' + 1
  <2>1. total \in Nat /\ total' = total
    BY DEF NewNumbering, TypeOK
  <2>2. hasBuffer' = FALSE /\ nextSeq' = 1 /\ evictedThroughSeq' = 0
    BY DEF NewNumbering
  <2>3. total' \in Nat /\ nextSeq' <= total' + 1
    BY <2>1, <2>2
  <2>4. nextSeq' \in Nat \ {0} /\ evictedThroughSeq' \in Nat /\ evictedThroughSeq' < nextSeq'
    BY <2>2
  <2> QED BY <2>2, <2>3, <2>4
<1> QED BY <1>1, <1>2, <1>3 DEF NewNumbering, TypeOK

LEMMA NextType == TypeOK /\ [Next]_vars => TypeOK'
<1> SUFFICES ASSUME TypeOK, [Next]_vars PROVE TypeOK'
  OBVIOUS
<1> USE StreamConstants
<1>1. CASE Emit
  <2>1. total' = total + 1 /\ nextSeq' = nextSeq + 1 /\ hasBuffer' = TRUE
    BY <1>1 DEF Emit
  <2>2. evictedThroughSeq' \in Nat /\ evictedThroughSeq' < nextSeq'
    BY <1>1, FrontierBound DEF Emit, TypeOK
  <2>3. seen' \in [Webs -> SUBSET (1..total')]
    BY <1>1 DEF Emit, TypeOK
  <2>4. lastSeen' \in [Webs -> Seqs]
    BY <1>1, HighestType DEF Emit, TypeOK, Seqs
  <2> QED BY <1>1, <2>1, <2>2, <2>3, <2>4 DEF Emit, TypeOK, webVars
<1>2. ASSUME NEW w \in Webs, Connect(w) PROVE TypeOK'
  <2>1. lastSeen[w] \in Seqs
    BY DEF TypeOK
  <2>2. asked' \in [Webs -> Seqs \cup {NoAsk}]
    BY <1>2, <2>1 DEF Connect, TypeOK
  <2>3. \A v \in Webs : asked'[v] # NoAsk => v \in hears' \cap opened'
    BY <1>2 DEF Connect, TypeOK
  <2> QED BY <1>2, <2>2, <2>3 DEF Connect, TypeOK, viewVars, bufVars
<1>3. ASSUME NEW w \in Webs, Ask(w) PROVE TypeOK'
  <2>1. lastSeen[w] \in Seqs
    BY DEF TypeOK
  <2>2. asked' \in [Webs -> Seqs \cup {NoAsk}]
    BY <1>3, <2>1 DEF Ask, TypeOK
  <2>3. \A v \in Webs : asked'[v] # NoAsk => v \in hears' \cap opened'
    BY <1>3 DEF Ask, TypeOK
  <2> QED BY <1>3, <2>2, <2>3 DEF Ask, TypeOK, viewVars, bufVars
<1>4. ASSUME NEW w \in Webs, GoDark(w) PROVE TypeOK'
  <2>1. asked' \in [Webs -> Seqs \cup {NoAsk}]
    BY <1>4 DEF GoDark, TypeOK
  <2>2. \A v \in Webs : asked'[v] # NoAsk => v \in hears' \cap opened'
    BY <1>4 DEF GoDark, TypeOK
  <2> QED BY <1>4, <2>1, <2>2 DEF GoDark, TypeOK, viewVars, bufVars
<1>5. ASSUME NEW w \in Webs, Close(w) PROVE TypeOK'
  BY <1>5 DEF Close, TypeOK, webVars, viewVars, bufVars
<1>6. ASSUME NEW w \in Webs, Reload(w) PROVE TypeOK'
  <2>1. seen' \in [Webs -> SUBSET (1..total)] /\ lastSeen' \in [Webs -> Seqs]
    BY <1>6 DEF Reload, TypeOK, Seqs
  <2> QED BY <1>6, <2>1 DEF Reload, TypeOK, webVars, bufVars
<1>7. ASSUME NEW w \in Webs, InitCold(w) PROVE TypeOK'
  <2>1. seen' \in [Webs -> SUBSET (1..total)] /\ lastSeen' \in [Webs -> Seqs]
    BY <1>7 DEF InitCold, SnapshotOf, TypeOK
  <2> QED BY <1>7, <2>1, AnswerType DEF InitCold, SnapshotOf, TypeOK
<1>8. ASSUME NEW w \in Webs, InitWithoutBuffer(w) PROVE TypeOK'
  BY <1>8, AnswerType DEF InitWithoutBuffer, TypeOK
<1>9. ASSUME NEW w \in Webs, InitAfterGap(w) PROVE TypeOK'
  <2>1. evictedThroughSeq' \in Nat /\ evictedThroughSeq' < nextSeq
    BY <1>9, FrontierBound DEF InitAfterGap, TypeOK
  <2>2. seen' \in [Webs -> SUBSET (1..total)] /\ lastSeen' \in [Webs -> Seqs]
    BY <1>9 DEF InitAfterGap, SnapshotOf, TypeOK
  <2> QED BY <1>9, <2>1, <2>2, AnswerType DEF InitAfterGap, SnapshotOf
<1>10. ASSUME NEW w \in Webs, InitIncremental(w) PROVE TypeOK'
  <2> DEFINE R == Since(asked[w])
  <2>1. evictedThroughSeq' \in Nat /\ evictedThroughSeq' < nextSeq
    BY <1>10, FrontierBound DEF InitIncremental, TypeOK
  <2>2. \A n \in R : Event(n) \in 1..total
    <3> SUFFICES ASSUME NEW n \in evictedThroughSeq' + 1..nextSeq - 1
                 PROVE  Event(n) \in 1..total
      BY DEF Since
    <3>1. total - (nextSeq - 1) + n \in 1..total
      BY <2>1, Renumbered DEF TypeOK
    <3> QED BY <3>1 DEF Event
  <2>3. seen' \in [Webs -> SUBSET (1..total)]
    <3>1. seen[w] \cup {Event(n) : n \in R} \in SUBSET (1..total)
      BY <2>2 DEF TypeOK
    <3>2. seen' = [seen EXCEPT ![w] = seen[w] \cup {Event(n) : n \in R}]
      BY <1>10 DEF InitIncremental, TypeOK
    <3> HIDE DEF R
    <3> QED BY <3>1, <3>2 DEF TypeOK
  <2>4. lastSeen' \in [Webs -> Seqs]
    <3> DEFINE l == IF R = {} THEN lastSeen[w] ELSE Highest(lastSeen[w], nextSeq - 1)
    <3>1. lastSeen[w] \in Seqs /\ nextSeq - 1 \in Nat
      BY DEF TypeOK
    <3>2. l \in Seqs
      BY <3>1, HighestType DEF Seqs
    <3>3. lastSeen' = [lastSeen EXCEPT ![w] = l]
      BY <1>10 DEF InitIncremental, TypeOK
    <3> HIDE DEF l
    <3> QED BY <3>2, <3>3 DEF TypeOK
  <2> QED BY <1>10, <2>1, <2>3, <2>4, AnswerType DEF InitIncremental
<1>11. CASE Restart
  <2>1. /\ opened' \subseteq opened /\ conns' \subseteq Webs /\ hears' \subseteq conns'
        /\ stale' \subseteq Webs /\ torn' \subseteq torn /\ lastSeen' \in [Webs -> Seqs]
        /\ seen' \in [Webs -> SUBSET (1..total)] /\ NewNumbering
    BY <1>11 DEF Restart, TypeOK
  <2> QED BY <2>1, NumberingType
<1>12. CASE Remove
  <2>1. seen' \in [Webs -> SUBSET (1..total)] /\ lastSeen' \in [Webs -> Seqs]
    BY <1>12 DEF Remove, TypeOK, Seqs
  <2>2. /\ opened' \subseteq opened /\ conns' \subseteq Webs /\ hears' \subseteq conns'
        /\ stale' \subseteq Webs /\ torn' \subseteq torn /\ NewNumbering
    BY <1>12 DEF Remove, TypeOK
  <2> QED BY <2>1, <2>2, NumberingType
<1>13. CASE UNCHANGED vars
  BY <1>13 DEF vars, webVars, viewVars, bufVars, TypeOK
<1> QED
  BY <1>1, <1>2, <1>3, <1>4, <1>5, <1>6, <1>7, <1>8, <1>9, <1>10, <1>11, <1>12, <1>13
     DEF Next

(* The variables keep their types, the frontier of the buffer stays below    *)
(* its next number, and a web shows no event that was never emitted          *)
(* (TabEventBuffer.record, evict).                                           *)
THEOREM StreamTypeCorrect == Spec => []TypeOK
<1>1. Init => TypeOK BY InitType
<1>2. TypeOK /\ [Next]_vars => TypeOK' BY NextType
<1> QED BY <1>1, <1>2, PTL DEF Spec
-----------------------------------------------------------------------------
\* What is recorded keeps the events that the old numbers stand for.
LEMMA EventShift ==
    ASSUME NEW l \in Nat, NEW k \in Nat, NEW t \in Nat, k <= t + 1
    PROVE  (t + 1) - ((k + 1) - 1) + l = t - (k - 1) + l
OBVIOUS

\* The newest number stands for the newest event.
LEMMA NewestEvent ==
    ASSUME NEW k \in Nat, NEW t \in Nat
    PROVE  t - (k - 1) + (k - 1) = t
OBVIOUS

LEMMA InitSound == Init => StreamInv
<1> SUFFICES ASSUME Init PROVE StreamInv
  OBVIOUS
<1>1. \A w \in Webs : Numbered(w) /\ Sound(w)
  BY StreamConstants DEF Init, Numbered, Sound
<1>2. Awaits
  BY DEF Init, Awaits, Hearing
<1> QED BY <1>1, <1>2, InitType DEF StreamInv

\* A web that the step does not touch.
LEMMA UntouchedNumber ==
    ASSUME NEW v \in Webs, Numbered(v),
           lastSeen'[v] = lastSeen[v], asked'[v] = asked[v] \/ asked'[v] = NoAsk,
           UNCHANGED <<hasBuffer, nextSeq>>
    PROVE  Numbered(v)'
BY StreamConstants DEF Numbered

LEMMA UntouchedSound ==
    ASSUME NEW v \in Webs, Sound(v),
           lastSeen'[v] = lastSeen[v], seen'[v] = seen[v], asked'[v] = asked[v],
           v \in synced' => v \in synced,
           UNCHANGED <<hasBuffer, nextSeq, total>>
    PROVE  Sound(v)'
BY DEF Sound, Event

\* An event that a web hears is the newest number it knows.
LEMMA EmitCount ==
    ASSUME StreamInv, Emit, NEW v \in Webs \ stale, v \in Hearing
    PROVE  lastSeen'[v] = nextSeq
<1>1. Numbered(v) /\ lastSeen[v] \in Seqs /\ nextSeq \in Nat
  BY DEF StreamInv, TypeOK
<1>2. lastSeen'[v] = Highest(lastSeen[v], nextSeq)
  BY DEF Emit, StreamInv, TypeOK
<1> QED BY <1>1, <1>2, HighestType DEF Numbered, Seqs

LEMMA EmitNumbered ==
    ASSUME StreamInv, Emit, NEW v \in Webs \ stale
    PROVE  Numbered(v)'
<1>1. /\ Numbered(v) /\ nextSeq \in Nat \ {0}
      /\ lastSeen[v] \in Seqs /\ asked[v] \in Seqs \cup {NoAsk}
  BY DEF StreamInv, TypeOK
<1>2. nextSeq' = nextSeq + 1 /\ hasBuffer' = TRUE /\ asked' = asked
  BY DEF Emit, webVars
<1>3. CASE v \in Hearing
  BY <1>1, <1>2, <1>3, EmitCount, StreamConstants DEF Numbered, Seqs
<1>4. CASE v \notin Hearing
  <2>1. lastSeen'[v] = lastSeen[v]
    BY <1>4 DEF Emit, StreamInv, TypeOK
  <2> QED BY <1>1, <1>2, <2>1, StreamConstants DEF Numbered, Seqs
<1> QED BY <1>3, <1>4

LEMMA EmitSound ==
    ASSUME StreamInv, Emit, NEW v \in Webs \ stale, v \notin torn
    PROVE  Sound(v)'
<1>1. /\ Sound(v) /\ Numbered(v)
      /\ nextSeq \in Nat \ {0} /\ total \in Nat /\ nextSeq <= total + 1
  BY DEF StreamInv, TypeOK
<1>2. total' = total + 1 /\ nextSeq' = nextSeq + 1
  BY DEF Emit
<1>3. asked' = asked /\ synced' = synced
  BY DEF Emit, webVars
<1>4. lastSeen[v] \in Seqs /\ asked[v] \in Seqs \cup {NoAsk} /\ seen[v] \in SUBSET (1..total)
  BY DEF StreamInv, TypeOK
<1>5. seen[v] \subseteq seen'[v]
  BY DEF Emit, StreamInv, TypeOK
<1>6. ASSUME asked'[v] \in Nat PROVE 1..Event(asked[v])' \subseteq seen'[v]
  <2>1. Event(asked[v])' = Event(asked[v])
    BY <1>1, <1>2, <1>3, <1>6, EventShift DEF Event
  <2> QED BY <1>1, <1>3, <1>5, <1>6, <2>1 DEF Sound
<1>7. ASSUME v \in synced' PROVE seen'[v] = 1..total'
  <2>1. seen[v] = 1..total /\ v \in Hearing
    BY <1>1, <1>3, <1>7 DEF Sound, StreamInv, TypeOK, Hearing
  <2>2. seen'[v] = seen[v] \cup {total + 1}
    BY <2>1 DEF Emit, StreamInv, TypeOK
  <2> QED BY <1>1, <1>2, <2>1, <2>2
<1>8. ASSUME asked'[v] = NoAsk, lastSeen'[v] # None
      PROVE  1..Event(lastSeen[v])' \subseteq seen'[v]
  <2>1. CASE v \in Hearing
    <3>1. v \in synced
      BY <1>3, <1>8, <2>1 DEF StreamInv, Awaits
    <3>2. Event(lastSeen[v])' = total'
      BY <1>1, <1>2, <2>1, EmitCount, NewestEvent DEF Event
    <3> QED BY <1>3, <1>7, <3>1, <3>2
  <2>2. CASE v \notin Hearing
    <3>1. lastSeen'[v] = lastSeen[v] /\ lastSeen[v] \in Nat
      BY <1>4, <1>8, <2>2 DEF Emit, StreamInv, TypeOK, Seqs
    <3>2. Event(lastSeen[v])' = Event(lastSeen[v])
      BY <1>1, <1>2, <3>1, EventShift DEF Event
    <3> QED BY <1>1, <1>3, <1>5, <1>8, <3>1, <3>2 DEF Sound
  <2> QED BY <2>1, <2>2
<1> QED BY <1>6, <1>7, <1>8 DEF Sound

\* The events that a number stands for are events of the tab.
LEMMA NumberedEvents ==
    ASSUME NEW l \in Nat, NEW k \in Nat, NEW t \in Nat, l < k
    PROVE  1..(t - (k - 1) + l) \subseteq 1..t
OBVIOUS

\* A web that shows every event and waits for no answer.
LEMMA CompleteIsSound ==
    ASSUME TypeOK', NEW w \in Webs, seen'[w] = 1..total', asked'[w] = NoAsk, Numbered(w)'
    PROVE  Sound(w)'
<1>1. nextSeq' \in Nat /\ total' \in Nat /\ lastSeen'[w] \in Seqs
  BY DEF TypeOK
<1>2. lastSeen'[w] # None => lastSeen'[w] \in Nat /\ lastSeen'[w] < nextSeq'
  BY <1>1 DEF Numbered, Seqs
<1>3. lastSeen'[w] # None => 1..Event(lastSeen[w])' \subseteq seen'[w]
  BY <1>1, <1>2, NumberedEvents DEF Event
<1> QED BY <1>3, StreamConstants DEF Sound

\* What the replay of a gapless buffer leaves a web with.
LEMMA IncrementalNumbered ==
    ASSUME StreamInv, NEW w \in Webs \ stale, InitIncremental(w)
    PROVE  Numbered(w)'
<1>1. /\ Numbered(w) /\ lastSeen[w] \in Seqs /\ asked[w] \in Seqs \cup {NoAsk}
      /\ nextSeq \in Nat \ {0}
  BY DEF StreamInv, TypeOK
<1>2. asked[w] # None /\ asked[w] # NoAsk /\ hasBuffer
      /\ asked'[w] = NoAsk /\ UNCHANGED <<hasBuffer, nextSeq>>
  BY DEF InitIncremental, Answer, StreamInv, TypeOK
<1>3. lastSeen[w] \in Nat /\ lastSeen[w] < nextSeq
  BY <1>1, <1>2 DEF Numbered, Seqs
<1>4. lastSeen'[w] \in {lastSeen[w], Highest(lastSeen[w], nextSeq - 1)}
  BY DEF InitIncremental, StreamInv, TypeOK
<1>5. Highest(lastSeen[w], nextSeq - 1) = nextSeq - 1
  BY <1>1, <1>3, StreamConstants DEF Highest
<1>6. lastSeen'[w] < nextSeq
  BY <1>1, <1>3, <1>4, <1>5
<1> QED BY <1>2, <1>6, StreamConstants DEF Numbered

LEMMA IncrementalComplete ==
    ASSUME StreamInv, NEW w \in Webs \ stale, w \notin torn, InitIncremental(w)
    PROVE  seen'[w] = 1..total
<1> DEFINE a == asked[w]
           e == evictedThroughSeq'
           R == Since(a)
<1>1. TypeOK /\ Sound(w) /\ Numbered(w)
  BY DEF StreamInv
<1>2. nextSeq \in Nat \ {0} /\ total \in Nat /\ nextSeq <= total + 1
  BY <1>1 DEF TypeOK
<1>3. a \in Nat /\ a < nextSeq
  <2>1. a \in Seqs \cup {NoAsk} /\ lastSeen[w] \in Seqs
    BY <1>1 DEF TypeOK
  <2>2. a # None /\ a # NoAsk
    BY DEF InitIncremental, Answer
  <2>3. a \in Nat /\ lastSeen[w] # None /\ a <= lastSeen[w] /\ lastSeen[w] < nextSeq
    BY <1>1, <2>1, <2>2 DEF Numbered, Seqs
  <2>4. lastSeen[w] \in Nat
    BY <2>1, <2>3 DEF Seqs
  <2> QED BY <1>2, <2>3, <2>4
<1>4. e \in Nat /\ e < nextSeq /\ e <= a
  <2>1. e \in Nat /\ e < nextSeq
    BY <1>1, FrontierBound DEF InitIncremental, TypeOK
  <2>2. ~(a < e)
    BY DEF InitIncremental, HasGapSince
  <2> QED BY <1>3, <2>1, <2>2
<1>5. R = a + 1..nextSeq - 1
  BY <1>2, <1>3, <1>4 DEF Since
<1>6. seen'[w] = seen[w] \cup {Event(n) : n \in R}
  BY <1>1 DEF InitIncremental, TypeOK
<1>7. seen[w] \subseteq 1..total
  BY <1>1 DEF TypeOK
<1>8. \A n \in R : Event(n) \in 1..total
  <2> SUFFICES ASSUME NEW n \in a + 1..nextSeq - 1 PROVE Event(n) \in 1..total
    BY <1>5
  <2> HIDE DEF a
  <2>1. total - (nextSeq - 1) + n \in 1..total
    BY <1>2, <1>3, Renumbered
  <2> QED BY <2>1 DEF Event
<1>9. ASSUME NEW x \in 1..total PROVE x \in seen'[w]
  <2>1. CASE x <= Event(a)
    <3>1. 1..Event(a) \subseteq seen[w]
      BY <1>1, <1>3 DEF Sound
    <3>2. Event(a) \in Int
      BY <1>2, <1>3 DEF Event
    <3>3. x \in 1..Event(a)
      BY <2>1, <3>2
    <3> QED BY <1>6, <3>1, <3>3
  <2>2. CASE ~(x <= Event(a))
    <3> DEFINE n == x - total + (nextSeq - 1)
    <3>1. n \in a + 1..nextSeq - 1
      BY <1>2, <1>3, <2>2 DEF Event
    <3>2. Event(n) = x
      BY <1>2 DEF Event
    <3> HIDE DEF n
    <3> QED BY <1>5, <1>6, <3>1, <3>2
  <2> QED BY <2>1, <2>2
<1> HIDE DEF R
<1> QED BY <1>6, <1>7, <1>8, <1>9

LEMMA NumberingSound ==
    ASSUME StreamInv, NewNumbering, NEW v \in Webs, lastSeen'[v] = None
    PROVE  Numbered(v)' /\ Sound(v)'
<1>1. asked'[v] = NoAsk /\ v \notin synced'
  BY DEF NewNumbering
<1> QED BY <1>1, StreamConstants DEF Numbered, Sound

LEMMA NextAwaits == StreamInv /\ [Next]_vars => Awaits'
<1> SUFFICES ASSUME StreamInv, [Next]_vars PROVE Awaits'
  OBVIOUS
<1> USE DEF Awaits, Hearing
<1>1. TypeOK /\ Awaits
  BY DEF StreamInv
<1>2. \A w \in Webs : lastSeen[w] # NoAsk
  BY <1>1, StreamConstants DEF TypeOK, Seqs
<1>3. CASE Emit
  BY <1>1, <1>3 DEF Emit, webVars
<1>4. ASSUME NEW w \in Webs, Connect(w) PROVE Awaits'
  BY <1>1, <1>2, <1>4 DEF Connect, TypeOK
<1>5. ASSUME NEW w \in Webs, Ask(w) PROVE Awaits'
  BY <1>1, <1>2, <1>5 DEF Ask, TypeOK
<1>6. ASSUME NEW w \in Webs, GoDark(w) PROVE Awaits'
  BY <1>1, <1>6 DEF GoDark, TypeOK
<1>7. ASSUME NEW w \in Webs, Close(w) \/ Reload(w) PROVE Awaits'
  BY <1>1, <1>7 DEF Close, Reload, webVars
<1>8. ASSUME NEW w \in Webs, Answer(w) PROVE Awaits'
  BY <1>1, <1>8 DEF Answer, TypeOK
<1>9. CASE Restart
  BY <1>9 DEF Restart
<1>10. CASE Remove
  BY <1>10 DEF Remove
<1>11. CASE UNCHANGED vars
  BY <1>1, <1>11 DEF vars, webVars
<1> QED
  BY <1>3, <1>4, <1>5, <1>6, <1>7, <1>8, <1>9, <1>10, <1>11
     DEF Next, InitCold, InitWithoutBuffer, InitAfterGap, InitIncremental

LEMMA NextSound == StreamInv /\ [Next]_vars => StreamInv'
<1> SUFFICES ASSUME StreamInv, [Next]_vars PROVE StreamInv'
  OBVIOUS
<1>1. TypeOK /\ TypeOK'
  BY NextType DEF StreamInv
<1> DEFINE Good(v) == v \notin stale' => Numbered(v)' /\ (v \notin torn' => Sound(v)')
<1> SUFFICES ASSUME NEW v \in Webs PROVE Good(v)
  BY <1>1, NextAwaits DEF StreamInv
<1>2. v \notin stale => Numbered(v) /\ (v \notin torn => Sound(v))
  BY DEF StreamInv
<1>3. CASE Emit
  BY <1>3, EmitNumbered, EmitSound DEF Emit
<1>4. ASSUME NEW w \in Webs, Connect(w) \/ Ask(w) PROVE Good(v)
  <2>1. /\ stale' = stale /\ torn' = torn /\ lastSeen' = lastSeen /\ seen' = seen
        /\ synced' = synced /\ UNCHANGED <<hasBuffer, nextSeq, total>>
    BY <1>4 DEF Connect, Ask, viewVars, bufVars
  <2>2. CASE v # w
    <3>1. asked'[v] = asked[v]
      BY <1>1, <1>4, <2>2 DEF Connect, Ask, TypeOK
    <3> QED BY <1>2, <2>1, <3>1, UntouchedNumber, UntouchedSound
  <2>3. CASE v = w
    <3>1. asked[v] = NoAsk
      BY <1>1, <1>4, <2>3 DEF Connect, Ask, TypeOK
    <3>2. asked'[v] \in {lastSeen[v], NoAsk}
      BY <1>1, <1>4, <2>3 DEF Connect, Ask, TypeOK
    <3>3. lastSeen[v] \in Seqs
      BY <1>1 DEF TypeOK
    <3>4. v \notin stale => Numbered(v)'
      BY <1>2, <2>1, <3>2, <3>3, StreamConstants DEF Numbered, Seqs
    <3>5. v \notin stale /\ v \notin torn => Sound(v)'
      BY <1>2, <2>1, <3>1, <3>2, <3>3, StreamConstants DEF Sound, Event, Seqs
    <3> QED BY <2>1, <3>4, <3>5
  <2> QED BY <2>2, <2>3
<1>5. ASSUME NEW w \in Webs, GoDark(w) PROVE Good(v)
  <2>1. /\ stale' = stale /\ torn \subseteq torn' /\ lastSeen' = lastSeen /\ seen' = seen
        /\ synced' = synced \ {w} /\ UNCHANGED <<hasBuffer, nextSeq, total>>
    BY <1>5 DEF GoDark, bufVars
  <2>2. asked'[v] = asked[v] \/ asked'[v] = NoAsk
    BY <1>1, <1>5 DEF GoDark, TypeOK
  <2>3. CASE v # w
    <3>1. asked'[v] = asked[v]
      BY <1>1, <1>5, <2>3 DEF GoDark, TypeOK
    <3> QED BY <1>2, <2>1, <2>2, <3>1, UntouchedNumber, UntouchedSound
  <2>4. ASSUME v = w, v \notin stale, v \notin torn' PROVE Sound(v)'
    <3>1. ~Tears(v) /\ asked'[v] = NoAsk /\ v \notin synced'
      BY <1>1, <1>5, <2>4 DEF GoDark, TypeOK
    <3>2. Sound(v) /\ Numbered(v) /\ lastSeen[v] \in Seqs
          /\ nextSeq \in Nat /\ total \in Nat
      BY <1>1, <1>2, <2>1, <2>4 DEF TypeOK
    <3>3. ASSUME lastSeen[v] # None PROVE 1..Event(lastSeen[v]) \subseteq seen[v]
      <4>1. lastSeen[v] \in Nat /\ lastSeen[v] < nextSeq
        BY <3>2, <3>3 DEF Numbered, Seqs
      <4>2. CASE v \in synced
        BY <3>2, <4>1, <4>2, NumberedEvents DEF Sound, Event
      <4>3. CASE asked[v] \in {NoAsk, lastSeen[v]}
        BY <3>2, <3>3, <4>1, <4>3 DEF Sound
      <4> QED BY <3>1, <4>2, <4>3 DEF Tears
    <3> QED BY <2>1, <3>1, <3>3, StreamConstants DEF Sound, Event
  <2>5. v \notin stale => Numbered(v)'
    BY <1>2, <2>1, <2>2, UntouchedNumber
  <2> QED BY <2>1, <2>3, <2>4, <2>5
<1>6. ASSUME NEW w \in Webs, Close(w) PROVE Good(v)
  BY <1>2, <1>6, UntouchedNumber, UntouchedSound DEF Close, webVars, viewVars, bufVars
<1>7. ASSUME NEW w \in Webs, Reload(w) PROVE Good(v)
  <2>1. UNCHANGED <<asked, synced, hasBuffer, nextSeq, total>>
    BY <1>7 DEF Reload, webVars, bufVars
  <2>2. CASE v # w
    <3>1. /\ v \notin stale' => v \notin stale
          /\ v \notin torn' => v \notin torn
          /\ seen'[v] = seen[v] /\ lastSeen'[v] = lastSeen[v]
      BY <1>1, <1>7, <2>2 DEF Reload, TypeOK
    <3> QED BY <1>2, <2>1, <3>1, UntouchedNumber, UntouchedSound
  <2>3. CASE v = w
    <3>1. lastSeen'[v] = None /\ v \notin hears
      BY <1>1, <1>7, <2>3 DEF Reload, TypeOK
    <3>2. asked'[v] = NoAsk /\ v \notin synced'
      BY <1>1, <2>1, <3>1 DEF TypeOK
    <3> QED BY <3>1, <3>2, StreamConstants DEF Numbered, Sound
  <2> QED BY <2>2, <2>3
<1>8. ASSUME NEW w \in Webs,
             InitCold(w) \/ InitWithoutBuffer(w) \/ InitAfterGap(w) \/ InitIncremental(w)
      PROVE  Good(v)
  <2>1. Answer(w)
    BY <1>8 DEF InitCold, InitWithoutBuffer, InitAfterGap, InitIncremental
  <2>2. stale' = stale /\ UNCHANGED <<hasBuffer, nextSeq, total>>
    BY <2>1 DEF Answer
  <2>3. CASE v # w
    <3>1. asked'[v] = asked[v] /\ (v \in synced' => v \in synced)
      BY <1>1, <2>1, <2>3 DEF Answer, TypeOK
    <3>2. /\ seen'[v] = seen[v] /\ lastSeen'[v] = lastSeen[v]
          /\ v \notin torn' => v \notin torn
      BY <1>1, <1>8, <2>3 DEF InitCold, InitWithoutBuffer, InitAfterGap, InitIncremental,
                              SnapshotOf, TypeOK
    <3> QED BY <1>2, <2>2, <3>1, <3>2, UntouchedNumber, UntouchedSound
  <2>4. ASSUME v = w, v \notin stale PROVE Numbered(v)' /\ (v \notin torn' => Sound(v)')
    <3>1. asked'[v] = NoAsk
      BY <1>1, <2>1, <2>4 DEF Answer, TypeOK
    <3>2. CASE InitCold(w) \/ InitAfterGap(w)
      <4>1. seen'[v] = 1..total' /\ lastSeen' = lastSeen
        BY <1>1, <2>2, <2>4, <3>2 DEF InitCold, InitAfterGap, SnapshotOf, TypeOK
      <4>2. Numbered(v)'
        BY <1>2, <2>2, <2>4, <3>1, <4>1, UntouchedNumber
      <4>3. Sound(v)'
        BY <1>1, <3>1, <4>1, <4>2, CompleteIsSound
      <4> QED BY <4>2, <4>3
    <3>3. CASE InitWithoutBuffer(w)
      <4>1. asked[v] \in Seqs \cup {NoAsk} /\ asked[v] # None /\ asked[v] # NoAsk /\ ~hasBuffer
        BY <1>1, <2>4, <3>3 DEF InitWithoutBuffer, Answer, TypeOK
      <4> QED BY <1>2, <2>4, <4>1 DEF Numbered, Seqs
    <3>4. CASE InitIncremental(w)
      <4>1. Numbered(v)' /\ torn' = torn
        BY <2>4, <3>4, IncrementalNumbered DEF InitIncremental
      <4>2. ASSUME v \notin torn PROVE Sound(v)'
        <5>1. seen'[v] = 1..total'
          BY <2>2, <2>4, <3>4, <4>2, IncrementalComplete
        <5> QED BY <1>1, <3>1, <4>1, <5>1, CompleteIsSound
      <4> QED BY <4>1, <4>2
    <3> QED BY <1>8, <3>2, <3>3, <3>4
  <2> QED BY <2>2, <2>3, <2>4
<1>9. CASE Restart
  <2>1. NewNumbering /\ (v \notin stale' => lastSeen'[v] = None)
    BY <1>9 DEF Restart
  <2> QED BY <2>1, NumberingSound
<1>10. CASE Remove
  <2>1. NewNumbering /\ (v \notin stale' => lastSeen'[v] = None)
    BY <1>1, <1>10 DEF Remove, TypeOK
  <2> QED BY <2>1, NumberingSound
<1>11. CASE UNCHANGED vars
  BY <1>2, <1>11, UntouchedNumber, UntouchedSound DEF vars, webVars, viewVars, bufVars
<1> QED
  BY <1>3, <1>4, <1>5, <1>6, <1>7, <1>8, <1>9, <1>10, <1>11 DEF Next

(* A web that misses an event of the tab, once its initTab is answered, took *)
(* its number from an earlier numbering or lost its link between a live      *)
(* event and the answer: whatever is evicted, replayed or overtaken          *)
(* (replayTabEventsSince with its early return on a gap, broadcastTabEvent). *)
THEOREM GapsAreTearsHolds == Spec => []GapsAreTears
<1>1. Init => StreamInv BY InitSound
<1>2. StreamInv /\ [Next]_vars => StreamInv' BY NextSound
<1>3. StreamInv => GapsAreTears
  BY DEF StreamInv, TypeOK, Sound, GapsAreTears
<1> QED BY <1>1, <1>2, <1>3, PTL DEF Spec
=============================================================================
