--------------------------- MODULE MCWakeEngines ---------------------------
(* The liveness of WakeDelivery on both kinds of engine: a keystroke agent and *)
(* an opencode agent share nothing but the permits, so one of the two has been *)
(* torn down before a behaviour begins.                                        *)
EXTENDS MCWakeDelivery

CONSTANTS o1, v1, v2

MCAgents2 == {a1, o1}
MCWakes4  == {w1, w2, v1, v2}
MCTarget2 == [w \in Wakes |-> IF w \in {w1, w2} THEN a1 ELSE o1]
MCEngines == [a \in Agents |-> IF a = a1 THEN "keystroke" ELSE "opencode"]

\* Init, after RemoveSlot and KillAndUnsubscribe of the agent gone
InitWithout(gone) ==
    /\ mail = [w \in Wakes |-> "none"]
    /\ by = [w \in Wakes |-> {}]
    /\ carriers = [w \in Wakes |-> {}]
    /\ pc = [w \in Wakes |-> "idle"]
    /\ text = [w \in Wakes |-> {}]
    /\ lock = [a \in Agents |-> NoTask]
    /\ slot = [a \in Agents |-> a # gone]
    /\ subs = [a \in Agents |-> a # gone]
    /\ paused = [a \in Agents |-> FALSE]
    /\ ctrlC = [a \in Agents |-> FALSE]
    /\ cli \in [Agents -> {"idle", "turn", "dead"}]
    /\ \A a \in Agents : cli[a] = "dead" <=> a = gone
    /\ composer = [a \in Agents |-> NoTask]
    /\ queued = [a \in Agents |-> FALSE]
    /\ continued = [a \in Agents |-> FALSE]
    /\ window = [a \in Agents |-> FALSE]
    /\ count = [a \in Agents |-> 0]
    /\ hookGot = [a \in Agents |-> {}]

EnginesSpec ==
    /\ \E gone \in Agents : InitWithout(gone)
    /\ [][Next]_vars
    /\ \A w \in Wakes : WF_vars(Started(w))
    /\ \A a \in Agents : WF_vars(CliMoves(a))
=============================================================================
