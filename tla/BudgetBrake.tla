---------------------------- MODULE BudgetBrake ----------------------------
(***************************************************************************)
(* The budget brake of one workspace.                                      *)
(*                                                                         *)
(* A tailer persists the usage of its agent and then compares the sum of   *)
(* the workspace's usage rows with the cap.  When the cap is reached it    *)
(* trips the brake: it pauses the live agents that are not paused yet, one *)
(* after the other, and then writes the marker together with the ledger of *)
(* the agents it paused.  PUT /budget sets the cap and trips or lifts; a   *)
(* lift clears marker and ledger and resumes the agents of the ledger.     *)
(* Meanwhile the operator pauses and resumes agents, agents are spawned    *)
(* and exit, and database calls fail.                                      *)
(*                                                                         *)
(* Amounts are whole units.  What a resume wake does is WakeDelivery's.    *)
(***************************************************************************)
EXTENDS Naturals, FiniteSets

CONSTANTS
  Crew,         \* agents of the workspace, alive at the start or spawned later
  Newcomers,    \* those that are spawned later
  Caps,         \* caps the operator sets: 0 clears it
  MaxSpend,     \* usage events
  MaxPuts,      \* calls of PUT /budget and usage rows the retention prune deletes
  MaxStops,     \* calls of interrupt and of resume
  MaxDbFaults   \* failing database calls

ASSUME BudgetAssumption ==
  /\ Newcomers \subseteq Crew /\ 0 \in Caps /\ Caps \subseteq Nat /\ "put" \notin Crew
  /\ {MaxSpend, MaxPuts, MaxStops, MaxDbFaults} \subseteq Nat

VARIABLES
  cap,         \* budget_usd, 0 when there is none
  marker,      \* budget_exceeded_at is set
  pauses,      \* workspace_budget_pauses
  cost,        \* the estimate: the sum over the workspace's usage rows
  spent,       \* usage events so far: what an all-time sum would be
  registered,  \* agents in the registry
  paused,      \* agents whose pause flag is set
  byOperator,  \* agents the operator asked to pause and has not resumed since
  untouched,   \* those of them that no trip or lift had a hand on then
  resuming,    \* agents whose resume call is past the gate
  booting,     \* agents whose spawn is past the gate
  checker,     \* where each tailer and the PUT handler are
  budgetLeft         \* what is left of the bounds: puts, stops, faults

budgetVars == <<cap, marker, pauses, cost, spent, registered, paused, byOperator, untouched,
                resuming, booting, checker, budgetLeft>>

Put == "put"
Checkers == Crew \cup {Put}
Resting == [pc |-> "idle", cap |-> 0, seen |-> 0, todo |-> {}, mine |-> {}, tripped |-> FALSE]

BudgetInit ==
  /\ cap \in Caps /\ marker = FALSE /\ pauses = {} /\ cost = 0 /\ spent = 0
  /\ registered = Crew \ Newcomers /\ paused = {} /\ byOperator = {} /\ untouched = {}
  /\ resuming = {} /\ booting = {}
  /\ checker = [c \in Checkers |-> Resting]
  /\ budgetLeft = [puts |-> MaxPuts, stops |-> MaxStops, faults |-> MaxDbFaults]

CheckerAt(c, pc) == checker[c].pc = pc
CheckerTo(c, pc) == checker' = [checker EXCEPT ![c].pc = pc]
CheckerRests(c) == checker' = [checker EXCEPT ![c] = Resting]
Use(what) == budgetLeft[what] > 0 /\ budgetLeft' = [budgetLeft EXCEPT ![what] = @ - 1]

-----------------------------------------------------------------------------
(* Tailers: maybe_trip_after_usage.                                         *)

\* A poll finds usage: it is persisted, and the check is called.
Spends(a) ==
  /\ a \in registered /\ CheckerAt(a, "idle") /\ spent < MaxSpend
  /\ cost' = cost + 1 /\ spent' = spent + 1 /\ CheckerTo(a, "gate")
  /\ UNCHANGED <<cap, marker, pauses, registered, paused, byOperator, untouched, resuming, booting, budgetLeft>>

\* No cap, or tripped already: nothing to do.
Gate(a) ==
  /\ CheckerAt(a, "gate")
  /\ IF cap = 0 \/ marker THEN CheckerRests(a)
     ELSE checker' = [checker EXCEPT ![a].pc = "estimate", ![a].cap = cap]
  /\ UNCHANGED <<cap, marker, pauses, cost, spent, registered, paused, byOperator, untouched, resuming, booting, budgetLeft>>

Estimate(a) ==
  /\ a # Put /\ CheckerAt(a, "estimate")
  /\ IF cost >= checker[a].cap
     THEN checker' = [checker EXCEPT ![a].pc = "roster", ![a].seen = cost]
     ELSE CheckerRests(a)
  /\ UNCHANGED <<cap, marker, pauses, cost, spent, registered, paused, byOperator, untouched, resuming, booting, budgetLeft>>

\* A lookup fails: the check is skipped, the PUT answers 500, a lift gives up
\* before it changed anything.
LookupFails(c) ==
  /\ \E pc \in {"gate", "estimate", "roster", "lift"} : CheckerAt(c, pc)
  /\ Use("faults") /\ CheckerRests(c)
  /\ UNCHANGED <<cap, marker, pauses, cost, spent, registered, paused, byOperator, untouched, resuming, booting>>

-----------------------------------------------------------------------------
(* trip_workspace.                                                          *)

\* The roster is read once; who is not registered has nothing to pause.
Roster(c) ==
  /\ CheckerAt(c, "roster")
  /\ checker' = [checker EXCEPT ![c].pc = "look", ![c].todo = registered]
  /\ UNCHANGED <<cap, marker, pauses, cost, spent, registered, paused, byOperator, untouched, resuming, booting, budgetLeft>>

\* Look that does not ask whether the agent is still there.
LookAtGone(c, a) ==
  /\ CheckerAt(c, "look") /\ a \in checker[c].todo \ paused
  /\ checker' = [checker EXCEPT ![c].todo = @ \ {a}, ![c].mine = @ \cup {a}]
  /\ paused' = paused \cup {a}
  /\ UNCHANGED <<cap, marker, pauses, cost, spent, registered, byOperator, untouched, resuming, booting, budgetLeft>>

\* The next agent: skipped if it left or is paused already, else paused (the
\* flag is read and set one instruction apart) and sent Ctrl-C.
Look(c, a) ==
  /\ CheckerAt(c, "look") /\ a \in checker[c].todo
  /\ LET fresh == a \in registered \ paused IN
     /\ checker' = [checker EXCEPT ![c].todo = @ \ {a},
                                   ![c].mine = IF fresh THEN @ \cup {a} ELSE @]
     /\ paused' = IF fresh THEN paused \cup {a} ELSE paused
  /\ UNCHANGED <<cap, marker, pauses, cost, spent, registered, byOperator, untouched, resuming, booting, budgetLeft>>

\* The marker is only written while the cap in the table is set and reached by
\* the estimate the trip was made with; the ledger grows while the brake is on.
StillDue(c) == cap > 0 /\ cap <= checker[c].seen
Persist(c) ==
  /\ CheckerAt(c, "look") /\ checker[c].todo = {}
  /\ IF marker \/ StillDue(c)
     THEN /\ marker' = TRUE /\ pauses' = pauses \cup checker[c].mine /\ UNCHANGED paused
     ELSE /\ paused' = paused \ checker[c].mine /\ UNCHANGED <<marker, pauses>>
  /\ CheckerRests(c)
  /\ UNCHANGED <<cap, cost, spent, registered, byOperator, untouched, resuming, booting, budgetLeft>>

\* PersistFails that leaves the agents as they are.
PersistFailsQuietly(c) ==
  /\ CheckerAt(c, "look") /\ checker[c].todo = {}
  /\ Use("faults") /\ CheckerRests(c)
  /\ UNCHANGED <<cap, marker, pauses, cost, spent, registered, paused, byOperator, untouched, resuming, booting>>

\* The trip must not stand: the pauses of this attempt are undone.
PersistFails(c) ==
  /\ CheckerAt(c, "look") /\ checker[c].todo = {}
  /\ Use("faults") /\ CheckerRests(c)
  /\ paused' = paused \ checker[c].mine
  /\ UNCHANGED <<cap, marker, pauses, cost, spent, registered, byOperator, untouched, resuming, booting>>

-----------------------------------------------------------------------------
(* PUT /api/workspaces/:id/budget and lift_workspace.                       *)

SetCap(b) ==
  /\ CheckerAt(Put, "idle") /\ Use("puts")
  /\ cap' = b
  /\ checker' = [checker EXCEPT ![Put] = [Resting EXCEPT !.pc = "estimate", !.cap = b, !.tripped = marker]]
  /\ UNCHANGED <<marker, pauses, cost, spent, registered, paused, byOperator, untouched, resuming, booting>>

Reconcile ==
  /\ CheckerAt(Put, "estimate")
  /\ LET b == checker[Put].cap IN
       IF b > 0 /\ cost >= b THEN checker' = [checker EXCEPT ![Put].pc = "roster", ![Put].seen = cost]
       ELSE IF checker[Put].tripped THEN CheckerTo(Put, "lift") ELSE CheckerRests(Put)
  /\ UNCHANGED <<cap, marker, pauses, cost, spent, registered, paused, byOperator, untouched, resuming, booting, budgetLeft>>

\* Marker and ledger go in one transaction.
Lift ==
  /\ CheckerAt(Put, "lift")
  /\ marker' = FALSE /\ pauses' = {}
  /\ checker' = [checker EXCEPT ![Put].pc = "resume", ![Put].todo = pauses]
  /\ UNCHANGED <<cap, cost, spent, registered, paused, byOperator, untouched, resuming, booting, budgetLeft>>

\* Each agent of the ledger is resumed and woken, one after the other.
ResumeNext(a) ==
  /\ CheckerAt(Put, "resume") /\ a \in checker[Put].todo
  /\ checker' = [checker EXCEPT ![Put].todo = @ \ {a}]
  /\ paused' = paused \ {a}
  /\ UNCHANGED <<cap, marker, pauses, cost, spent, registered, byOperator, untouched, resuming, booting, budgetLeft>>

Lifted ==
  /\ CheckerAt(Put, "resume") /\ checker[Put].todo = {}
  /\ CheckerRests(Put)
  /\ UNCHANGED <<cap, marker, pauses, cost, spent, registered, paused, byOperator, untouched, resuming, booting, budgetLeft>>

-----------------------------------------------------------------------------
(* The operator, spawns, exits, retention.                                  *)

\* A trip has paused the agent, or a lift is about to resume it.
Handled(a) == a \in pauses \/ \E c \in Checkers : a \in checker[c].mine \cup (IF CheckerAt(c, "resume") THEN checker[c].todo ELSE {})

\* POST interrupt.
Interrupt(a) ==
  /\ a \in registered \ byOperator /\ Use("stops")
  /\ paused' = paused \cup {a} /\ byOperator' = byOperator \cup {a}
  /\ untouched' = IF Handled(a) THEN untouched ELSE untouched \cup {a}
  /\ UNCHANGED <<cap, marker, pauses, cost, spent, registered, resuming, booting, checker>>

\* POST resume: refused while the brake is on; the flag is cleared afterwards.
ResumeGate(a) ==
  /\ a \in registered \cap paused /\ a \notin resuming /\ ~marker /\ Use("stops")
  /\ resuming' = resuming \cup {a}
  /\ UNCHANGED <<cap, marker, pauses, cost, spent, registered, paused, byOperator, untouched, booting, checker>>

ResumeClear(a) ==
  /\ a \in resuming
  /\ resuming' = resuming \ {a} /\ paused' = paused \ {a} 
  /\ byOperator' = byOperator \ {a} /\ untouched' = untouched \ {a}
  /\ UNCHANGED <<cap, marker, pauses, cost, spent, registered, booting, checker, budgetLeft>>

\* A spawn is refused while the brake is on; the agent is registered later.
SpawnGate(a) ==
  /\ a \in Newcomers \ booting /\ ~marker
  /\ booting' = booting \cup {a}
  /\ UNCHANGED <<cap, marker, pauses, cost, spent, registered, paused, byOperator, untouched, resuming, checker, budgetLeft>>

Register(a) ==
  /\ a \in booting \ registered
  /\ registered' = registered \cup {a}
  /\ UNCHANGED <<cap, marker, pauses, cost, spent, paused, byOperator, untouched, resuming, booting, checker, budgetLeft>>

\* The slot goes, and its flag with it; the tailer's last flush is its last.
Exit(a) ==
  /\ a \in registered \ Newcomers
  /\ registered' = registered \ {a} /\ paused' = paused \ {a}
  /\ byOperator' = byOperator \ {a} /\ untouched' = untouched \ {a} /\ resuming' = resuming \ {a}
  /\ UNCHANGED <<cap, marker, pauses, cost, spent, booting, checker, budgetLeft>>

\* Usage rows older than the retention window go.
PruneUsage ==
  /\ cost > 0 /\ Use("puts") /\ cost' = cost - 1
  /\ UNCHANGED <<cap, marker, pauses, spent, registered, paused, byOperator, untouched, resuming, booting, checker>>

Tailer(a) == Gate(a) \/ Estimate(a)
Trip(c) == Roster(c) \/ (\E a \in Crew : Look(c, a)) \/ Persist(c)

BudgetNext ==
  \/ \E a \in Crew : Spends(a) \/ Tailer(a) \/ Interrupt(a) \/ ResumeGate(a) \/ ResumeClear(a)
                       \/ SpawnGate(a) \/ Register(a) \/ Exit(a) \/ ResumeNext(a)
  \/ \E c \in Checkers : Trip(c) \/ LookupFails(c) \/ PersistFails(c)
  \/ \E b \in Caps : SetCap(b)
  \/ Reconcile \/ Lift \/ Lifted \/ PruneUsage

BudgetSpec == BudgetInit /\ [][BudgetNext]_budgetVars

-----------------------------------------------------------------------------
\* No check, trip or lift is under way.
Settled == \A c \in Checkers : CheckerAt(c, "idle")

\* Every variable has the shape the code gives it.
BudgetTypeOK ==
  /\ cap \in Caps /\ marker \in BOOLEAN /\ {cost, spent} \subseteq Nat
  /\ \A s \in {pauses, registered, paused, byOperator, untouched, resuming, booting} : s \subseteq Crew
  /\ paused \subseteq registered
  /\ \A c \in Checkers : checker[c] \in
       [pc : {"idle", "gate", "estimate", "roster", "look", "lift", "resume"}, cap : Caps, seen : Nat,
        todo : SUBSET Crew, mine : SUBSET Crew, tripped : BOOLEAN]

\* An agent the operator paused before any brake did stays paused until the
\* operator resumes it or it exits: no trip, whether it stands or is undone, and
\* no lift takes that pause away (trip_workspace, revert_pauses, lift_workspace).
OperatorPauseSurvives == untouched \subseteq paused

\* Once trips and lifts are over, a paused agent was paused by the operator, or the
\* brake is on and its ledger will resume the agent: never a half-trip that
\* leaves agents paused with nothing to lift (handle_trip_persist).
NoHalfTrip == Settled => paused \ byOperator \subseteq (IF marker THEN pauses ELSE {})

\* The brake is not on once the cap is gone, whoever raced whom: PUT lifts what
\* it finds, and a trip that comes later finds the cap moved (BudgetMoved).
NoBrakeWithoutCap == Settled /\ budgetLeft.faults = MaxDbFaults /\ cap = 0 => ~marker

\* What budget.rs says of a trip: every live agent of the workspace is paused,
\* and while the marker is set new spawns fail closed.
BrakeStopsAll == Settled /\ marker => registered \subseteq paused

\* What routes/budget.rs says of the cap: it is an all-time cap.
CapIsAllTime == Settled /\ cap > 0 /\ spent >= cap => marker
=============================================================================
