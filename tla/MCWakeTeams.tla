---------------------------- MODULE MCWakeTeams ----------------------------
(* The liveness of WakeCoordinator for two teams: a spell agent L that depends *)
(* on the key of p, on a bus that drops nothing, and a lead L whose worker is  *)
(* p, on a bus of one event that drops some.  Op log writes fail in both; a    *)
(* worker also reports errors it survives.                                     *)
EXTENDS MCWakeCoordinator

VARIABLE team

Spell == INSTANCE WakeCoordinator
           WITH Lead <- MCNoLead, DependsOn <- MCDeps, BusCap <- 12, Faults <- MCOplog

\* Next without what the faults of the spell leave out.
SpellNext ==
    \/ \E a \in Agents :
        \/ Spell!Spawn(a) \/ Spell!Register(a) \/ Spell!WriteSignal(a) \/ Spell!Broadcast(a)
        \/ Spell!WriteOwnError(a) \/ Spell!Exit(a) \/ Spell!AnnounceExit(a) \/ Spell!Evict(a)
        \/ Spell!Retirement(a)
    \/ \E a \in Agents, n \in 1 .. MaxWrites : Spell!AutoKill(a, n)
    \/ Spell!Loop

TeamInit == team \in {"spell", "led"} /\ Init
TeamNext ==
    /\ UNCHANGED team
    /\ \/ team = "led" /\ Next
       \/ team = "spell" /\ SpellNext

\* The fairness of WakeCoordinator, for each team.
TeamsSpec ==
    /\ TeamInit /\ [][TeamNext]_<<vars, team>>
    /\ WF_vars(team = "spell" /\ Spell!Loop) /\ WF_vars(team = "led" /\ Loop)
    /\ \A a \in Agents :
        /\ WF_vars(team = "spell" /\ Spell!Register(a)) /\ WF_vars(team = "led" /\ Register(a))
        /\ WF_vars(team = "spell" /\ Spell!Answers(a))  /\ WF_vars(team = "led" /\ Answers(a))
        /\ WF_vars(team = "spell" /\ Spell!Notices(a))  /\ WF_vars(team = "led" /\ Notices(a))
        /\ WF_vars(team = "spell" /\ Spell!Retires(a))  /\ WF_vars(team = "led" /\ Retires(a))
        /\ \A n \in 1 .. MaxWrites :
            /\ WF_vars(team = "spell" /\ Spell!AutoKill(a, n))
            /\ WF_vars(team = "led" /\ AutoKill(a, n))

\* Whoever waits is woken: by a delivery also when the bus drops its event, by a
\* death when it drops none (wake.rs).
WaitersAreWoken ==
    /\ team = "led" => DeliveryIsHeard
    /\ team = "spell" => Spell!DeathIsHeard

\* The dead are accounted for and those that delivered are retired (wake.rs).
EndsAreHandled == team = "spell" => Spell!DeadIsAccounted /\ Spell!DeliveredIsReaped
=============================================================================
