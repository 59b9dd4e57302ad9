------------------------------- MODULE Bouncer -------------------------------
(* Reviews of tool calls: mcp/bouncer-integration.ts behind the approval_prompt*)
(* of mcp/server.ts, with its cache of decisions, its pattern layer           *)
(* (security-analysis.ts) and its classifiers (mcp/classifier/). Reviews run  *)
(* beside each other and share the cache. An operation is the set of the      *)
(* pattern tables it matches; the classifiers' models are external.           *)
EXTENDS Naturals, Sequences, SequencesExt, FiniteSets

CONSTANTS
  Reviews,      \* reviews in progress at one time
  Operations,   \* operations reviewed, each a set of features
  CacheMax      \* CACHE_MAX_SIZE

\* empty: no tool parameters. opaque: a Bash expansion that is not the argument
\* of a safe command. compound: chained, piped, expanded or redirected Bash.
Features == {"empty", "sensitive", "opaque", "deploy", "safe", "compound",
             "critical", "needs", "safeRm", "concerning"}

ASSUME BouncerAssumption ==
  CacheMax \in Nat \ {0} /\ Operations \subseteq SUBSET Features

VARIABLES
  decisionCache,   \* the Map, in its insertion order
  review           \* each reviewOperation call and its classification

bouncerVars == <<decisionCache, review>>

Answers == {"allow", "warn_allow", "deny"}

\* phase: "child" is the subprocess of the Claude classifier; "create",
\* "prompt" and "delete" are the requests of the OpenCode one, whose session is
\* open until "delete" ended. verdict: what a session handed over before it.
\* by: what decided: a pattern, a classifier, an earlier review or a fallback.
NoReview == [op |-> {}, ai |-> TRUE, phase |-> "idle", attempt |-> 0, timedOut |-> FALSE,
             verdict |-> "none", answer |-> "none", by |-> "none"]
BouncerTypeOK ==
  /\ Len(decisionCache) <= CacheMax
  /\ \A i \in 1..Len(decisionCache) :
       decisionCache[i] \in [op : SUBSET Features, answer : Answers, fresh : BOOLEAN,
                             by : {"pattern", "classifier", "skipped", "fallback"}]
  /\ review \in [Reviews ->
       [op : SUBSET Features, ai : BOOLEAN,
        phase : {"idle", "asked", "child", "create", "prompt", "delete", "over"},
        attempt : 0..2, timedOut : BOOLEAN, verdict : Answers \cup {"none", "failed"},
        answer : Answers \cup {"none"},
        by : {"none", "pattern", "classifier", "cache", "skipped", "fallback"}]]

BouncerInit == decisionCache = <<>> /\ review = [r \in Reviews |-> NoReview]

\* requiresAIReview: the first rule that matches decides.
RequiresAIReview(op) ==
  \/ op \cap {"sensitive", "opaque", "deploy"} # {}
  \/ {"safe", "compound"} \subseteq op
  \/ /\ op \cap {"safe", "critical"} = {}
     /\ IF "needs" \in op THEN "safeRm" \notin op ELSE "concerning" \in op

\* getCachedDecision and cacheDecision: an expired entry is dropped when it is
\* met; a Map keeps the place of a key that is set again, and the oldest entry
\* goes when it is full, even for such a key.
Cached(op) == {i \in 1..Len(decisionCache) : decisionCache[i].op = op}
Hit(op) == {i \in Cached(op) : decisionCache[i].fresh}
Dropped(op) == IF Cached(op) = {} THEN {decisionCache}
               ELSE {RemoveAt(decisionCache, i) : i \in Cached(op)}
Evicted(cache) == IF Len(cache) >= CacheMax THEN Tail(cache) ELSE cache
Stored(cache, e) ==
  LET kept == Evicted(cache) IN
  IF \E i \in 1..Len(kept) : kept[i].op = e.op
  THEN [i \in 1..Len(kept) |-> IF kept[i].op = e.op THEN e ELSE kept[i]]
  ELSE Append(kept, e)

\* finalizeDecision: the answer, cached unless told otherwise.
Answered(r, answer, by) ==
  review' = [review EXCEPT ![r].phase = "over", ![r].answer = answer, ![r].by = by,
                           ![r].verdict = "none"]
Entry(op, answer, by) == [op |-> op, answer |-> answer, fresh |-> TRUE, by |-> by]

\* Mutant: the warning of a review without AI is cached.
SkipOnlyFallbacks(by) == by = "fallback"

\* Fallbacks and reviews that were told to skip the classifier are not cached,
\* nor is a classifier's decision of low confidence.
SkipCache(by) == by \in {"fallback", "skipped"}
Finalized(cache, r, answer, by, sure) ==
  /\ Answered(r, answer, by)
  /\ decisionCache' = IF SkipCache(by) \/ ~ sure THEN cache
                      ELSE Stored(cache, Entry(review[r].op, answer, by))

\* A call of approval_prompt, or of launchBouncerAgent without AI (ai = FALSE).
Requested(r, op, ai) ==
  /\ review[r].phase = "idle"
  /\ review' = [review EXCEPT ![r] = [NoReview EXCEPT !.op = op, !.ai = ai,
                                                      !.phase = "asked"]]
  /\ UNCHANGED decisionCache

\* reviewOperation after its first await, up to the classifier.
ByPattern(op) == IF "empty" \in op THEN {"allow"}
                 ELSE IF "critical" \in op THEN {"deny"}
                 ELSE IF ~ RequiresAIReview(op) THEN {"allow"} ELSE {}
Examined(r) ==
  /\ review[r].phase = "asked"
  /\ LET op == review[r].op IN
     IF Hit(op) # {}
     THEN /\ \E i \in Hit(op) : Answered(r, decisionCache[i].answer, "cache")
          /\ UNCHANGED decisionCache
     ELSE \E dropped \in Dropped(op) :
          \/ \E a \in ByPattern(op) : Finalized(dropped, r, a, "pattern", TRUE)
          \/ /\ ByPattern(op) = {} /\ ~ review[r].ai
             /\ Finalized(dropped, r, "warn_allow", "skipped", TRUE)
          \/ /\ ByPattern(op) = {} /\ review[r].ai
             /\ decisionCache' = dropped
             /\ \E p \in {"child", "create"} :
                  review' = [review EXCEPT ![r].phase = p, ![r].attempt = 1]

\* The classifier's timer: the child is sent SIGTERM, a request is aborted; the
\* deletion of a session is not.
ClassifierTimeout(r) ==
  /\ review[r].phase \in {"child", "create", "prompt", "delete"}
  /\ ~ review[r].timedOut
  /\ review' = [review EXCEPT ![r].timedOut = TRUE]
  /\ UNCHANGED decisionCache

\* A classification ends: with a decision, or with an error that handleHaikuError
\* retries once if it is a timeout and denies otherwise.
Retried(r) ==
  review' = [review EXCEPT
    ![r].phase = IF @ = "child" THEN "child" ELSE "create",
    ![r].attempt = 2, ![r].timedOut = FALSE, ![r].verdict = "none"]
ClassificationFails(r) ==
  IF review[r].timedOut /\ review[r].attempt < 2
  THEN Retried(r) /\ UNCHANGED decisionCache
  ELSE Finalized(decisionCache, r, "deny", "fallback", FALSE)

\* The subprocess closes: an answer that parses counts only before the timeout.
ChildCloses(r) ==
  /\ review[r].phase = "child"
  /\ \/ /\ ~ review[r].timedOut
        /\ \E a \in Answers, sure \in BOOLEAN :
             Finalized(decisionCache, r, a, "classifier", sure)
     \/ ClassificationFails(r)

\* session.create and session.prompt end; after the first there is a session,
\* which is deleted whatever the second brings, and a failure to is ignored.
SessionCreated(r) ==
  /\ review[r].phase = "create"
  /\ \/ /\ review' = [review EXCEPT ![r].phase = "prompt"]
        /\ UNCHANGED decisionCache
     \/ ClassificationFails(r)
Prompted(r) ==
  /\ review[r].phase = "prompt"
  /\ \E v \in Answers \cup {"failed"} :
       /\ review[r].timedOut => v = "failed"
       /\ review' = [review EXCEPT ![r].phase = "delete", ![r].verdict = v]
  /\ UNCHANGED decisionCache
SessionDeleted(r) ==
  /\ review[r].phase = "delete"
  /\ IF review[r].verdict = "failed" THEN ClassificationFails(r)
     ELSE \E sure \in BOOLEAN :
            Finalized(decisionCache, r, review[r].verdict, "classifier", sure)

\* The caller takes the answer (an error thrown on the way is a deny).
Taken(r) ==
  /\ review[r].phase = "over"
  /\ review' = [review EXCEPT ![r] = NoReview]
  /\ UNCHANGED decisionCache

\* CACHE_TTL_MS has passed for a decision.
DecisionExpires ==
  /\ \E i \in 1..Len(decisionCache) :
       decisionCache' = [decisionCache EXCEPT ![i].fresh = FALSE]
  /\ UNCHANGED review

BouncerNext ==
  \/ DecisionExpires
  \/ \E r \in Reviews :
       \/ \E op \in Operations, ai \in BOOLEAN : Requested(r, op, ai)
       \/ Examined(r) \/ ClassifierTimeout(r) \/ ChildCloses(r)
       \/ SessionCreated(r) \/ Prompted(r) \/ SessionDeleted(r) \/ Taken(r)

\* A subprocess that was sent SIGTERM closes and requests settle.
BouncerFairness ==
  \A r \in Reviews :
    /\ WF_bouncerVars(Examined(r)) /\ WF_bouncerVars(ChildCloses(r))
    /\ WF_bouncerVars(SessionCreated(r)) /\ WF_bouncerVars(Prompted(r))
    /\ WF_bouncerVars(SessionDeleted(r))

BouncerSpec == BouncerInit /\ [][BouncerNext]_bouncerVars /\ BouncerFairness
-----------------------------------------------------------------------------
\* What a review could not find out is asked again: the cache holds at most one
\* decision of an operation, each made by a pattern or a classifier, so that a
\* timeout, a failure or a review without AI never answers a later one.
OnlyDecisionsCached ==
  \A i, j \in 1..Len(decisionCache) :
    /\ decisionCache[i].by \notin {"fallback", "skipped"}
    /\ decisionCache[i].op = decisionCache[j].op => i = j

\* Every review is answered: a timeout is retried once, not for ever.
ReviewsEnd ==
  \A r \in Reviews : review[r].phase = "asked" ~> review[r].phase = "over"
=============================================================================
