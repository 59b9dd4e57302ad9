------------------------------ MODULE Engines -------------------------------
(* The parts below the sessions: the owner of the opencode server, an         *)
(* OpenCode session, a Claude session over its runs, a retried run, the way of*)
(* its text, the bouncer and the questions to the user. They share no state,  *)
(* so each behaviour is one of `part`.                                        *)
EXTENDS OpenCodeServer, OpenCodeEngine, ClaudeEngine, ResilientRun, HeadlessStream,
        Bouncer, Questions

VARIABLE part

enginesVars == <<part, serverVars, openCodeVars, claudeVars, resilient, text,
                 bouncerVars, questionVars>>

EnginesInit ==
  /\ ServerInit /\ OpenCodeInit /\ ClaudeInit /\ ResilientInit /\ StreamInit
  /\ BouncerInit /\ QuestionsInit
  /\ part \in {"server", "openCode", "claude", "resilient", "stream", "bouncer", "question"}
  /\ part # "resilient" => resilient.policy = "FULL"
  /\ part # "stream" => ~ text.active

EnginesNext ==
  /\ \/ part = "server" /\ ServerNext
     \/ part # "server" /\ UNCHANGED serverVars
  /\ \/ part = "openCode" /\ OpenCodeNext
     \/ part # "openCode" /\ UNCHANGED openCodeVars
  /\ \/ part = "claude" /\ ClaudeNext
     \/ part # "claude" /\ UNCHANGED claudeVars
  /\ \/ part = "resilient" /\ ResilientNext
     \/ part # "resilient" /\ UNCHANGED resilient
  /\ \/ part = "stream" /\ StreamNext
     \/ part # "stream" /\ UNCHANGED text
  /\ \/ part = "bouncer" /\ BouncerNext
     \/ part # "bouncer" /\ UNCHANGED bouncerVars
  /\ \/ part = "question" /\ QuestionsNext
     \/ part # "question" /\ UNCHANGED questionVars
  /\ UNCHANGED part

EnginesSpec ==
  /\ EnginesInit /\ [][EnginesNext]_enginesVars
  /\ ServerFairness /\ OpenCodeFairness /\ ClaudeFairness /\ ResilientFairness
  /\ BouncerFairness /\ QuestionsFairness

\* Every part keeps its fields in their ranges, counters within their limits.
EnginesTypeOK ==
  /\ ServerTypeOK /\ OpenCodeTypeOK /\ ClaudeTypeOK /\ ResilientTypeOK
  /\ StreamTypeOK /\ BouncerTypeOK /\ QuestionsTypeOK

\* Whoever waits for an answer gets one: the opencode server for a permission,
\* an agent for a review of its tool call and for the user's answers; and the first
\* answer stands.
EveryWaitEnds == PermissionsSettle /\ ReviewsEnd /\ AskersGoOn /\ FirstAnswerHolds

\* What was started comes to an end: restarts of the server, runs of a CLI that
\* hangs, sessions that are disposed of, retries.
EveryRunEnds ==
  ServerRecovers /\ HungRunEnds /\ DisposeEnds /\ ClaudeDisposeEnds /\ ResilientReturns
=============================================================================
