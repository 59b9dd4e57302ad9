------------------------------ MODULE Questions ------------------------------
(* AskUserQuestion: mcp/server.ts posts the question of a waiting agent to the *)
(* CLI's /internal route, which shows it to the webs and registers it in      *)
(* ask-user-question-bridge.ts until one answers. The ids of questions are    *)
(* random, so that no two are equal.                                          *)
EXTENDS Naturals, FiniteSets

CONSTANTS
  Asked,        \* questions
  Viewers,      \* web clients
  MaxCrashes    \* bound: restarts of the CLI

ASSUME QuestionsAssumption == MaxCrashes \in Nat

VARIABLES
  question,     \* each question: its HTTP request, its registration, its cards
  cliCrashes    \* restarts so far

questionVars == <<question, cliCrashes>>

\* call: bridgeAskUserQuestion waits, or returned with the user's answers or
\* with none; "killed" if its process ended first. pending: registered. route:
\* the handler of the request has not run its rest yet. cards: webs that show it.
QuestionsTypeOK ==
  /\ question \in [Asked ->
       [call : {"none", "waiting", "answers", "noAnswers", "killed"}, pending : BOOLEAN,
        route : {"none", "waiting", "answered", "timeout"}, cards : SUBSET Viewers]]
  /\ cliCrashes \in 0..MaxCrashes

QuestionsInit ==
  /\ question = [q \in Asked |-> [call |-> "none", pending |-> FALSE,
                                  route |-> "none", cards |-> {}]]
  /\ cliCrashes = 0

\* bridgeAskUserQuestion: without a route to the CLI it returns at once; else
\* the route broadcasts the question and registers it.
AskUnrouted(q) ==
  /\ question[q].call = "none"
  /\ question' = [question EXCEPT ![q].call = "noAnswers"]
  /\ UNCHANGED cliCrashes
Ask(q) ==
  /\ question[q].call = "none"
  /\ question' = [question EXCEPT ![q] =
       [call |-> "waiting", pending |-> TRUE, route |-> "waiting", cards |-> Viewers]]
  /\ UNCHANGED cliCrashes

\* handleAskUserQuestionResponse and resolvePendingQuestion; the web that sends
\* the answer closes its own card, late or not.
Answer(q, w) ==
  /\ w \in question[q].cards
  /\ question' = [question EXCEPT
       ![q].cards = @ \ {w}, ![q].pending = FALSE,
       ![q].route = IF question[q].pending THEN "answered" ELSE @]
  /\ UNCHANGED cliCrashes

\* Mutant: the entry goes, its promise is not rejected.
QuestionTimeoutUntold(q) ==
  /\ question[q].pending
  /\ question' = [question EXCEPT ![q].pending = FALSE]
  /\ UNCHANGED cliCrashes

\* The timer of registerPendingQuestion.
QuestionTimeout(q) ==
  /\ question[q].pending
  /\ question' = [question EXCEPT ![q].pending = FALSE, ![q].route = "timeout"]
  /\ UNCHANGED cliCrashes

\* The rest of the route: the answers; or dismissed cards and a 504, which the
\* bouncer passes through with no answers.
Dismissed(cards, route) == IF route = "timeout" THEN {} ELSE cards
RouteEnds(q) ==
  /\ question[q].route \in {"answered", "timeout"}
  /\ question' = [question EXCEPT
       ![q].route = "none", ![q].cards = Dismissed(@, question[q].route),
       ![q].call = IF @ # "waiting" THEN @
                   ELSE IF question[q].route = "answered" THEN "answers" ELSE "noAnswers"]
  /\ UNCHANGED cliCrashes

\* The agent's run ends: the bouncer goes with it, its question stays.
AskerEnds(q) ==
  /\ question[q].call = "waiting"
  /\ question' = [question EXCEPT ![q].call = "killed"]
  /\ UNCHANGED cliCrashes

\* The CLI restarts: requests break off and the registry is empty.
CliRestarts ==
  /\ cliCrashes < MaxCrashes
  /\ cliCrashes' = cliCrashes + 1
  /\ question' = [q \in Asked |-> [question[q] EXCEPT
       !.pending = FALSE, !.route = "none",
       !.call = IF @ = "waiting" THEN "noAnswers" ELSE @]]

QuestionsNext ==
  \/ CliRestarts
  \/ \E q \in Asked :
       \/ AskUnrouted(q) \/ Ask(q) \/ QuestionTimeout(q) \/ RouteEnds(q) \/ AskerEnds(q)
       \/ \E w \in Viewers : Answer(q, w)

\* Timers fire and continuations run; the user may never answer.
QuestionsFairness ==
  \A q \in Asked : WF_questionVars(QuestionTimeout(q)) /\ WF_questionVars(RouteEnds(q))

QuestionsSpec == QuestionsInit /\ [][QuestionsNext]_questionVars /\ QuestionsFairness
-----------------------------------------------------------------------------
\* An agent that asks goes on: it gets the user's answers or none, over answers
\* of two webs, late answers, the timeout and a restart of the CLI.
AskersGoOn == \A q \in Asked : question[q].call = "waiting" ~> question[q].call # "waiting"

\* The first answer is the user's: an answer that was taken reaches the agent,
\* and neither a second web's nor the timeout that races it replaces it.
FirstAnswerHolds ==
  [][\A q \in Asked : question[q].route = "answered" /\ cliCrashes' = cliCrashes
       => question'[q].route = "answered"
          \/ question'[q].call \in {"answers", "killed"}]_questionVars
=============================================================================
