------------------------------ MODULE Handoff ------------------------------
(***************************************************************************)
(* What a dependent may believe about a producer: it is still at work, or  *)
(* it has delivered, or it has failed, and the last two are final.  A      *)
(* delivery may be repeated (a worker re-writes its handoff key); a        *)
(* failure is reported once and only of a producer that did not deliver.   *)
(***************************************************************************)
CONSTANTS
    Agents      \* the producers

VARIABLES
    outcome     \* [Agents -> {"pending", "delivered", "failed"}]

vars == outcome

Init == outcome = [a \in Agents |-> "pending"]

\* The producer's first write of its handoff_signal
Deliver(a) ==
    /\ outcome[a] = "pending"
    /\ outcome' = [outcome EXCEPT ![a] = "delivered"]

\* The coordinator's write of <handoff_signal>.error
Fail(a) ==
    /\ outcome[a] = "pending"
    /\ outcome' = [outcome EXCEPT ![a] = "failed"]

Next == \E a \in Agents : Deliver(a) \/ Fail(a)

Spec == Init /\ [][Next]_vars
=============================================================================
