---------------------------- MODULE WakeMailbox ----------------------------
(***************************************************************************)
(* What the wake mailbox promises, whatever engine or hook reads it: a     *)
(* kind="wake" row is inserted once, and every row is claimed by exactly   *)
(* one consumer, who takes the whole backlog of its agent in one step.     *)
(*                                                                         *)
(* The rows are those of the `messages` table; the claim is the single     *)
(* UPDATE ... RETURNING of Store::consume_wakes.                           *)
(***************************************************************************)
CONSTANTS
    Agents,      \* the agents rows are addressed to
    Wakes,       \* identities of wake rows
    Target,      \* to_agent of each row
    Consumers    \* whoever may claim rows: kick tasks and turn-end hooks

VARIABLES
    mail,        \* [Wakes -> {"none", "unread", "read"}]
    by           \* [Wakes -> SUBSET Consumers]: who claimed the row

vars == <<mail, by>>

Unread(a) == {w \in Wakes : Target[w] = a /\ mail[w] = "unread"}

Init ==
    /\ mail = [w \in Wakes |-> "none"]
    /\ by = [w \in Wakes |-> {}]

\* Swarm::send_message with kind = "wake"
Post(w) ==
    /\ mail[w] = "none"
    /\ mail' = [mail EXCEPT ![w] = "unread"]
    /\ UNCHANGED by

\* Store::consume_wakes: every unread row of the agent, and nothing else
Consume(a, c) ==
    /\ mail' = [w \in Wakes |-> IF w \in Unread(a) THEN "read" ELSE mail[w]]
    /\ by' = [w \in Wakes |-> IF w \in Unread(a) THEN by[w] \cup {c} ELSE by[w]]

Next ==
    \/ \E w \in Wakes : Post(w)
    \/ \E a \in Agents, c \in Consumers : Consume(a, c)

Spec == Init /\ [][Next]_vars

-----------------------------------------------------------------------------
(* A row is read exactly when one consumer has claimed it: no two kicks,   *)
(* hooks or plugins ever hold the same wake.                               *)
ClaimedByOne ==
    \A w \in Wakes :
        /\ mail[w] # "read" => by[w] = {}
        /\ mail[w] = "read" => \E c \in Consumers : by[w] = {c}
=============================================================================
