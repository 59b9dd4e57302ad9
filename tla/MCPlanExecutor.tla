--------------------------- MODULE MCPlanExecutor ---------------------------
(* Small boards for PlanExecutor.                                            *)
EXTENDS PlanExecutor, TLC

CONSTANTS a, b, c, e, r1, r2

(* A board without epics.                                                    *)
FlatIssues == {a, b}
FlatChildren == [i \in {} |-> {}]
FlatPriority == (a :> 0) @@ (b :> 0)
FlatIndependent == [i \in FlatIssues |-> {}]
FlatChain == (a :> {}) @@ (b :> {a})

(* b waits for the epic of a, and c for itself.                              *)
BlockedIssues == {a, b, c, e}
MCEpics == {e}
BlockedChildren == (e :> {a})
Blocked == (a :> {}) @@ (b :> {e}) @@ (c :> {c}) @@ (e :> {})
BlockedPriority == [i \in BlockedIssues |-> 1]
=============================================================================
