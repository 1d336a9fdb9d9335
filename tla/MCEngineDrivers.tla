-------------------------- MODULE MCEngineDrivers --------------------------
(* Instances of EngineDrivers for TLC: a wake w1 of the coordinator, a manual one m1. *)
EXTENDS EngineDrivers

CONSTANTS w1, m1

MCPair   == {w1, m1}
MCManual == {m1}
MCNone   == {}
MCBoth   == {"zulu", "reasonix"}
=============================================================================
