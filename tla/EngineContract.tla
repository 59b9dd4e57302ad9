--------------------------- MODULE EngineContract ---------------------------
(* What engines/types.ts and engines/EngineEvent.ts promise of the stream of  *)
(* events of any coding-agent engine: a tool call starts before it ends, the  *)
(* usage never falls, and nothing follows the end of the stream.              *)
EXTENDS Naturals

CONSTANTS Calls,     \* tool calls
          MaxTokens  \* bound: the largest usage reported

VARIABLE stream  \* what the consumer of one engine has been sent so far

ContractTypeOK ==
  stream \in [begun : SUBSET Calls, ended : SUBSET Calls,
              usage : 0..MaxTokens, done : BOOLEAN]

NoEvents == [begun |-> {}, ended |-> {}, usage |-> 0, done |-> FALSE]

ContractInit == stream = NoEvents

\* One or two events of one update: a call begins, a begun call ends (again).
ToolEvents ==
  \E begun, ended \in SUBSET Calls :
    /\ stream.begun \subseteq begun /\ stream.ended \subseteq ended
    /\ ended \subseteq begun
    /\ stream' = [stream EXCEPT !.begun = begun, !.ended = ended]
UsageEvent ==
  \E n \in stream.usage..MaxTokens : stream' = [stream EXCEPT !.usage = n]
EndOfStream == stream' = [stream EXCEPT !.done = TRUE]

ContractNext == ~ stream.done /\ (ToolEvents \/ UsageEvent \/ EndOfStream)

ContractSpec == ContractInit /\ [][ContractNext]_stream
=============================================================================
