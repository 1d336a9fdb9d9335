--------------------------- MODULE MCSupervision ---------------------------
(***************************************************************************)
(* What the server does about its agents: their life, first turn and       *)
(* silence, the budget that stops them, the directions they work in and    *)
(* the blackboard they hand over on.  The components share none of the     *)
(* state they model, so a behaviour runs one of them, its part, and the    *)
(* others rest in one initial state of theirs.                             *)
(***************************************************************************)
EXTENDS BudgetBrake, AgentLife, Directions, StuckWatchdog, Blackboard, FirstTurn, TLC

CONSTANTS Parts, k1, k2, v1, v2, c1, t1, b1, b2, d1, g1, h1, h2, dep1, dep2

ASSUME PartsAssumption == Parts \subseteq {"budget", "life", "direction", "watchdog", "board", "turn"}

VARIABLE part

\* Two keys, one of them under a direction that may be deleted, two texts.
MCKeys == {k1, k2}
MCDirection == {k2}
MCContents == {v1, v2}
MCCalls == {c1}
MCTasks == {t1}

\* An agent at the start and one that is spawned later.
MCCrew == {b1, b2}
MCNewcomers == {b2}
MCCaps == {0, 1, 2}

\* Spawn requests for the captain of one direction.
MCTriple == 1 .. 3
MCPair == 1 .. 2

\* One direction and two handlers at a time.
MCDirIds == {d1}
MCSlugs == {g1}
MCRequests == {h1, h2}

\* A worker with two dependencies.
MCDeps == {dep1, dep2}

Swaps == Permutations(MCContents) \cup Permutations(MCRequests)

supervisionVars == <<part, budgetVars, lifeVars, dirVars, watchVars, boardVars, turnVars>>

SupervisionInit ==
  /\ part \in Parts
  /\ BudgetInit /\ cap = 1
  /\ LifeInit
  /\ DirInit /\ (part # "direction" => \A s \in Slugs : commits[s] = Nil)
  /\ WatchInit /\ (part # "watchdog" => debt = [owes |-> FALSE, waits |-> FALSE])
  /\ BoardInit
  /\ TurnInit /\ (part # "turn" => \A d \in Deps : dep[d] = "none")

Only(p) == part = p /\ UNCHANGED part

BudgetMoves == Only("budget") /\ BudgetNext
               /\ UNCHANGED <<lifeVars, dirVars, watchVars, boardVars, turnVars>>
LifeMoves   == Only("life") /\ LifeNext
               /\ UNCHANGED <<budgetVars, dirVars, watchVars, boardVars, turnVars>>
DirMoves    == Only("direction") /\ DirNext
               /\ UNCHANGED <<budgetVars, lifeVars, watchVars, boardVars, turnVars>>
WatchMoves  == Only("watchdog") /\ WatchNext
               /\ UNCHANGED <<budgetVars, lifeVars, dirVars, boardVars, turnVars>>
BoardMoves  == Only("board") /\ BoardNext
               /\ UNCHANGED <<budgetVars, lifeVars, dirVars, watchVars, turnVars>>
TurnMoves   == Only("turn") /\ TurnNext
               /\ UNCHANGED <<budgetVars, lifeVars, dirVars, watchVars, boardVars>>

SupervisionNext ==
  BudgetMoves \/ LifeMoves \/ DirMoves \/ WatchMoves \/ BoardMoves \/ TurnMoves

SupervisionSpec == SupervisionInit /\ [][SupervisionNext]_supervisionVars

\* The fairness of each component, for its part alone.
SupervisionLiveSpec ==
  /\ SupervisionSpec
  /\ WF_lifeVars(part = "life" /\ ReaperSteps)
  /\ \A a \in Captains :
       /\ WF_lifeVars(part = "life" /\ SpawnSteps(a))
       /\ WF_lifeVars(part = "life" /\ TeardownSteps(a))
       /\ WF_lifeVars(part = "life" /\ RecordExit(a))
       /\ SF_lifeVars(part = "life" /\ DetectExit(a))
       /\ SF_lifeVars(part = "life" /\ Evict(a))
  /\ \A t \in IsolationTasks : WF_dirVars(part = "direction" /\ TaskStep(t))
  /\ \A h \in Requests : WF_dirVars(part = "direction" /\ HandlerStep(h))
  /\ WF_watchVars(part = "watchdog" /\ MinutePasses)
  /\ WF_watchVars(part = "watchdog" /\ SweepStep)
  /\ WF_watchVars(part = "watchdog" /\ ExitIsRecorded)
  /\ WF_turnVars(part = "turn" /\ Tick) /\ WF_turnVars(part = "turn" /\ BootSteps)
  /\ WF_turnVars(part = "turn" /\ WatchdogFires)
  /\ WF_turnVars(part = "turn" /\ Tails) /\ WF_turnVars(part = "turn" /\ Works)

------------------------------------------------------------------------------

SupervisionTypesOK ==
  CASE part = "budget"    -> BudgetTypeOK
    [] part = "life"      -> LifeTypeOK
    [] part = "direction" -> DirTypeOK
    [] part = "watchdog"  -> WatchTypeOK
    [] part = "board"     -> BoardTypeOK
    [] part = "turn"      -> TurnTypeOK

\* The blackboard, its op-log and its events tell the same story, through
\* torn writes, crashes and edits by hand, and no key is forgotten (swarm.rs).
BoardHonest == part = "board" => NeverTorn /\ OkIsAnnounced /\ BootFindsAll /\ TextIsRecorded
BoardIsHonest == []BoardHonest /\ NoKeyIsForgotten

\* The brake takes no pause of the operator away, leaves no pause of its own
\* behind and does not outlive its cap (budget.rs).
BrakeIsWhole == part = "budget" => OperatorPauseSurvives /\ NoHalfTrip /\ NoBrakeWithoutCap

\* A direction is prepared by somebody, its worktree is there, and a clean
\* merge brings all of its work (routes/workspaces.rs, worktree.rs).
DirectionsReal == part = "direction" => PreparingIsAttended /\ WorktreeIsReal
DirectionsAreReal == []DirectionsReal /\ MergedIsWhole

\* A silent worker is poked a bounded number of times, a window of silence
\* apart, before it is marked (stuck_watchdog.rs).
SilenceIsTested == []PokesAreBounded /\ MarkNeedsSilence

\* The captains of a direction come down to one that lives and is listed, and
\* the dead and the orphans are accounted for (reaper.rs).
CaptainsAreReaped == TwinsEnd /\ DeathIsRecorded /\ OrphansEnd

\* A worker's first turn comes, a waiting one is not flagged, a wedged one is,
\* and one that is seen to recover is cleared (agent_lifecycle.rs, rest.rs).
FirstTurnIsTold == []WaiterIsNotFlagged /\ FirstTurnComes /\ WedgeIsFlagged /\ RecoveryClears

\* A silent debtor is marked in the end and a mark does not outlive activity
\* (stuck_watchdog.rs).
SilenceIsTold == MarkIsOutlived /\ SilentDebtorIsMarked
=============================================================================
