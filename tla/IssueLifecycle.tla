--------------------------- MODULE IssueLifecycle ---------------------------
(***************************************************************************)
(* What a team that leaves its board to the executor is promised about each *)
(* issue: it is picked up only when everything it waits for is closed, it   *)
(* is closed as done only through a passed review (or with its gate off),   *)
(* a review that fails returns it, it is given up after MaxReviews reviews, *)
(* and work that is interrupted returns it too.  Nothing here knows of      *)
(* waves, files, retries or recovery.                                       *)
(***************************************************************************)
EXTENDS Naturals

CONSTANTS Issues, BlockedBy, Ungated, MaxReviews

VARIABLES phase, tries

lifeVars == <<phase, tries>>

Closed == {"done", "cancelled"}

Init == /\ phase \in [Issues -> {"open"} \cup Closed]
        /\ tries = [i \in Issues |-> 0]

Move(i, from, to) == phase[i] = from /\ phase' = [phase EXCEPT ![i] = to]

Pick(i) == /\ Move(i, "open", "working")
           /\ \A b \in BlockedBy[i] \cap Issues : phase[b] \in Closed
           /\ UNCHANGED tries

GiveBack(i) == Move(i, "working", "open") /\ UNCHANGED tries

Accept(i) == i \in Ungated /\ Move(i, "working", "done") /\ UNCHANGED tries

Review(i) == /\ i \notin Ungated /\ tries[i] < MaxReviews
             /\ Move(i, "working", "reviewing") /\ UNCHANGED tries

Conclude(i) == /\ Move(i, "reviewing", "done") \/ Move(i, "reviewing", "open")
               /\ tries' = [tries EXCEPT ![i] = @ + 1]

Abandon(i) == /\ i \notin Ungated /\ tries[i] >= MaxReviews
              /\ Move(i, "working", "cancelled") /\ UNCHANGED tries

(* The executor is lost: nothing is being worked on any more.               *)
Interrupt == /\ phase' = [i \in Issues |->
                  IF phase[i] \in Closed THEN phase[i] ELSE "open"]
             /\ UNCHANGED tries

Next == \/ \E i \in Issues : \/ Pick(i) \/ GiveBack(i) \/ Accept(i)
                            \/ Review(i) \/ Conclude(i) \/ Abandon(i)
        \/ Interrupt

Spec == Init /\ [][Next]_lifeVars
=============================================================================
