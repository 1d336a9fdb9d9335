------------------------- MODULE MCWakeCoordinator -------------------------
(* Instances of WakeCoordinator for TLC: a lead L, a worker p, one key kp. *)
EXTENDS WakeCoordinator

CONSTANTS L, p, kp

MCTeam    == {L, p}
MCKey     == {kp}
MCNone    == {}
MCSignal  == [a \in Agents |-> IF a = L THEN NoKey ELSE kp]
MCGated   == {p}

\* p is a worker spawned by L, or L a spell agent that depends on p's key
MCLead    == [a \in Agents |-> IF a = p THEN L ELSE NoAgent]
MCNoLead  == [a \in Agents |-> NoAgent]
MCDeps    == [a \in Agents |-> IF a = L THEN {kp} ELSE {}]
MCNoDeps  == [a \in Agents |-> {}]

MCSoft    == {"oplog", "soft"}
MCOplog   == {"oplog"}
MCAll     == {"noise", "oplog", "cancel", "early", "delete", "edit", "disk"}
=============================================================================
