------------------------------- MODULE OneShot -------------------------------
(***************************************************************************)
(* What the correlation registry promises its callers, in the words of     *)
(* mcpgateway.Pending: an opened request is completed exactly once, with   *)
(* one outcome that never changes, and every opened request is completed.  *)
(***************************************************************************)
CONSTANTS Requests, Outcomes, NoOutcome

VARIABLES opened, outcome

oneShotVars == <<opened, outcome>>

Init ==
    /\ opened = {}
    /\ outcome = [r \in Requests |-> NoOutcome]

Open(r) ==
    /\ r \notin opened
    /\ opened' = opened \cup {r}
    /\ UNCHANGED outcome

Complete(r) ==
    /\ r \in opened
    /\ outcome[r] = NoOutcome
    /\ \E o \in Outcomes : outcome' = [outcome EXCEPT ![r] = o]
    /\ UNCHANGED opened

Next == \E r \in Requests : Open(r) \/ Complete(r)

Safety == Init /\ [][Next]_oneShotVars

Spec == Safety /\ \A r \in Requests : WF_oneShotVars(Complete(r))
=============================================================================
