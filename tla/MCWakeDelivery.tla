-------------------------- MODULE MCWakeDelivery --------------------------
(* Instances of WakeDelivery for TLC.  a* are agents, w* auto wakes, m* manual. *)
EXTENDS WakeDelivery

CONSTANTS a1, w1, w2, m1

MCAgents1  == {a1}
MCNone     == {}
MCWakes2   == {w1, w2}
MCPair     == {w1, m1}
MCManual   == {m1}
MCTarget1  == [w \in Wakes |-> a1]
MCKeys     == [a \in Agents |-> "keystroke"]
MCFaults   == {"store", "send", "hook"}
=============================================================================
