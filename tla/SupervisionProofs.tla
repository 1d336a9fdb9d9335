------------------------- MODULE SupervisionProofs -------------------------
(***************************************************************************)
(* Proofs about what the server does about its agents: the budget brake,   *)
(* the detector of silence, the captains of a direction, the first turn,   *)
(* and the composition with the directions and the blackboard.             *)
(***************************************************************************)
EXTENDS MCSupervision, WorkspaceProofs

(* The budget brake.                                                       *)

CheckerStages == {"idle", "gate", "estimate", "roster", "look", "lift", "resume"}

CheckerStates == [pc : CheckerStages, cap : Nat, seen : Nat, todo : SUBSET Crew,
                  mine : SUBSET Crew, tripped : BOOLEAN]

\* Every variable has its shape, and what a checker holds fits where it is.
BudgetShapes ==
  /\ cap \in Nat /\ marker \in BOOLEAN /\ cost \in Nat
  /\ pauses \subseteq Crew /\ registered \subseteq Crew /\ paused \subseteq Crew
  /\ byOperator \subseteq Crew /\ untouched \subseteq Crew
  /\ checker \in [Checkers -> CheckerStates]
  /\ budgetLeft \in [puts : Nat, stops : Nat, faults : Nat]
  /\ budgetLeft.faults <= MaxDbFaults

CheckersAreTidy ==
  /\ \A c \in Checkers : checker[c].pc # "look" => checker[c].mine = {}
  /\ \A a \in Crew : checker[a].pc \notin {"lift", "resume"}
  /\ checker[Put].pc # "gate"

\* No trip and no lift has a hand on an agent the operator paused first.
OperatorWasFirst == \A a \in untouched : a \in paused /\ ~Handled(a)

\* A pause that is not the operator's is in the ledger, in the hands of the trip
\* that made it or of the lift that will undo it; a ledger is under a brake.
PausesAreHandled ==
  /\ \A a \in paused \ byOperator : Handled(a)
  /\ pauses # {} => marker

\* A brake whose cap is gone is about to be lifted by the PUT that took the cap.
LiftIsDue ==
  marker /\ cap = 0 /\ budgetLeft.faults = MaxDbFaults =>
    \/ CheckerAt(Put, "lift")
    \/ CheckerAt(Put, "estimate") /\ checker[Put].cap = 0 /\ checker[Put].tripped

\* The inductive invariant.
BudgetInv ==
  BudgetShapes /\ CheckersAreTidy /\ OperatorWasFirst /\ PausesAreHandled /\ LiftIsDue

-----------------------------------------------------------------------------
(* The steps.                                                              *)

\* A checker that moves on is a checker.
LEMMA CheckerMoves ==
  ASSUME NEW s \in CheckerStates, NEW p \in CheckerStages, NEW n \in Nat, NEW S \in SUBSET Crew
  PROVE  /\ [s EXCEPT !.pc = p, !.seen = n] \in CheckerStates
         /\ [s EXCEPT !.pc = p, !.cap = n] \in CheckerStates
         /\ [s EXCEPT !.pc = p, !.todo = S] \in CheckerStates
         /\ [s EXCEPT !.pc = p] \in CheckerStates
  BY DEF CheckerStates

\* A checker that rests is a checker.
LEMMA RestingIsAState == Resting \in CheckerStates
  BY DEF Resting, CheckerStates, CheckerStages

\* A step keeps every variable in its shape.
LEMMA BudgetShapeStep == ASSUME BudgetShapes, [BudgetNext]_budgetVars PROVE BudgetShapes'
<1>1. ASSUME NEW a \in Crew, Spends(a) PROVE BudgetShapes'
  BY <1>1, BudgetAssumption DEF Spends, CheckerAt, CheckerTo, BudgetShapes, Checkers,
     Put, Resting, CheckerStates, CheckerStages
<1>2. ASSUME NEW a \in Crew, Gate(a) PROVE BudgetShapes'
  <2>1. [checker[a] EXCEPT !.pc = "estimate", !.cap = cap] \in CheckerStates
    BY CheckerMoves DEF BudgetShapes, Checkers, Put, CheckerStages
  <2>2. \/ checker' = [checker EXCEPT ![a] = Resting]
        \/ checker' = [checker EXCEPT ![a] = [checker[a] EXCEPT !.pc = "estimate", !.cap = cap]]
    BY <1>2 DEF Gate, CheckerRests, BudgetShapes, Checkers
  <2>3. checker' \in [Checkers -> CheckerStates]
    BY <2>1, <2>2, RestingIsAState DEF BudgetShapes
  <2>4. QED
    BY <1>2, <2>3 DEF Gate, BudgetShapes
<1>3. ASSUME NEW a \in Crew, Estimate(a) PROVE BudgetShapes'
  <2>1. [checker[a] EXCEPT !.pc = "roster", !.seen = cost] \in CheckerStates
    BY CheckerMoves DEF BudgetShapes, Checkers, Put, CheckerStages
  <2>2. \/ checker' = [checker EXCEPT ![a] = Resting]
        \/ checker' = [checker EXCEPT ![a] = [checker[a] EXCEPT !.pc = "roster", !.seen = cost]]
    BY <1>3 DEF Estimate, CheckerRests, BudgetShapes, Checkers
  <2>3. checker' \in [Checkers -> CheckerStates]
    BY <2>1, <2>2, RestingIsAState DEF BudgetShapes
  <2>4. QED
    BY <1>3, <2>3 DEF Estimate, BudgetShapes
<1>4. ASSUME NEW a \in Crew, Interrupt(a) PROVE BudgetShapes'
  BY <1>4, BudgetAssumption DEF Interrupt, Use, BudgetShapes, Checkers, Put, Resting,
     CheckerStates, CheckerStages
<1>5. ASSUME NEW a \in Crew, ResumeGate(a) PROVE BudgetShapes'
  BY <1>5, BudgetAssumption DEF ResumeGate, Use, BudgetShapes, Checkers, Put, Resting,
     CheckerStates, CheckerStages
<1>6. ASSUME NEW a \in Crew, ResumeClear(a) PROVE BudgetShapes'
  BY <1>6, BudgetAssumption DEF ResumeClear, BudgetShapes, Checkers, Put, Resting,
     CheckerStates, CheckerStages
<1>7. ASSUME NEW a \in Crew, SpawnGate(a) PROVE BudgetShapes'
  BY <1>7, BudgetAssumption DEF SpawnGate, BudgetShapes, Checkers, Put, Resting,
     CheckerStates, CheckerStages
<1>8. ASSUME NEW a \in Crew, Register(a) PROVE BudgetShapes'
  BY <1>8, BudgetAssumption DEF Register, BudgetShapes, Checkers, Put, Resting,
     CheckerStates, CheckerStages
<1>9. ASSUME NEW a \in Crew, Exit(a) PROVE BudgetShapes'
  BY <1>9, BudgetAssumption DEF Exit, BudgetShapes, Checkers, Put, Resting,
     CheckerStates, CheckerStages
<1>10. ASSUME NEW a \in Crew, ResumeNext(a) PROVE BudgetShapes'
  BY <1>10, BudgetAssumption DEF ResumeNext, CheckerAt, BudgetShapes, Checkers, Put,
     Resting, CheckerStates, CheckerStages
<1>11. ASSUME NEW c \in Checkers, Roster(c) PROVE BudgetShapes'
  BY <1>11, BudgetAssumption DEF Roster, CheckerAt, BudgetShapes, Checkers, Put,
     Resting, CheckerStates, CheckerStages
<1>12. ASSUME NEW c \in Checkers, NEW a \in Crew, Look(c, a) PROVE BudgetShapes'
  BY <1>12, BudgetAssumption DEF Look, CheckerAt, BudgetShapes, Checkers, Put,
     Resting, CheckerStates, CheckerStages
<1>13. ASSUME NEW c \in Checkers, Persist(c) PROVE BudgetShapes'
  BY <1>13, BudgetAssumption DEF Persist, CheckerAt, CheckerRests, StillDue,
     BudgetShapes, Checkers, Put, Resting, CheckerStates, CheckerStages
<1>14. ASSUME NEW c \in Checkers, LookupFails(c) PROVE BudgetShapes'
  BY <1>14, BudgetAssumption DEF LookupFails, CheckerAt, CheckerRests, Use,
     BudgetShapes, Checkers, Put, Resting, CheckerStates, CheckerStages
<1>15. ASSUME NEW c \in Checkers, PersistFails(c) PROVE BudgetShapes'
  BY <1>15, BudgetAssumption DEF PersistFails, CheckerAt, CheckerRests, Use,
     BudgetShapes, Checkers, Put, Resting, CheckerStates, CheckerStages
<1>16. ASSUME NEW b \in Caps, SetCap(b) PROVE BudgetShapes'
  <2>1. [Resting EXCEPT !.pc = "estimate", !.cap = b, !.tripped = marker] \in CheckerStates
    BY BudgetAssumption DEF BudgetShapes, Resting, CheckerStates, CheckerStages
  <2>2. checker' \in [Checkers -> CheckerStates]
    BY <1>16, <2>1 DEF SetCap, BudgetShapes
  <2>3. QED
    BY <1>16, <2>2, BudgetAssumption DEF SetCap, Use, BudgetShapes
<1>17. ASSUME Reconcile PROVE BudgetShapes'
  <2>1. /\ [checker[Put] EXCEPT !.pc = "roster", !.seen = cost] \in CheckerStates
        /\ [checker[Put] EXCEPT !.pc = "lift"] \in CheckerStates
    BY CheckerMoves DEF BudgetShapes, Checkers, Put, CheckerStages
  <2>2. \/ checker' = [checker EXCEPT ![Put] = Resting]
        \/ checker' = [checker EXCEPT ![Put] = [checker[Put] EXCEPT !.pc = "lift"]]
        \/ checker' = [checker EXCEPT ![Put] = [checker[Put] EXCEPT !.pc = "roster", !.seen = cost]]
    BY <1>17 DEF Reconcile, CheckerRests, CheckerTo, BudgetShapes, Checkers
  <2>3. checker' \in [Checkers -> CheckerStates]
    BY <2>1, <2>2, RestingIsAState DEF BudgetShapes
  <2>4. QED
    BY <1>17, <2>3 DEF Reconcile, BudgetShapes
<1>18. ASSUME Lift PROVE BudgetShapes'
  <2>1. [checker[Put] EXCEPT !.pc = "resume", !.todo = pauses] \in CheckerStates
    BY CheckerMoves DEF BudgetShapes, Checkers, Put, CheckerStages
  <2>2. checker' = [checker EXCEPT ![Put] = [checker[Put] EXCEPT !.pc = "resume", !.todo = pauses]]
    BY <1>18 DEF Lift, BudgetShapes, Checkers
  <2>3. checker' \in [Checkers -> CheckerStates]
    BY <2>1, <2>2 DEF BudgetShapes
  <2>4. QED
    BY <1>18, <2>3 DEF Lift, BudgetShapes
<1>19. ASSUME Lifted PROVE BudgetShapes'
  BY <1>19, BudgetAssumption DEF Lifted, CheckerAt, CheckerRests, BudgetShapes,
     Checkers, Put, Resting, CheckerStates, CheckerStages
<1>20. ASSUME PruneUsage PROVE BudgetShapes'
  BY <1>20, BudgetAssumption DEF PruneUsage, Use, BudgetShapes, Checkers, Put,
     Resting, CheckerStates, CheckerStages
<1>21. CASE UNCHANGED budgetVars
  BY <1>21 DEF budgetVars, BudgetShapes, Checkers, Put, Resting, CheckerStates,
     CheckerStages
<1>22. QED
  BY <1>1, <1>2, <1>3, <1>4, <1>5, <1>6, <1>7, <1>8, <1>9, <1>10, <1>11, <1>12, <1>13,
     <1>14, <1>15, <1>16, <1>17, <1>18, <1>19, <1>20, <1>21 DEF BudgetNext, Tailer,
     Trip

\* A checker leaves its work where it ends.
LEMMA TidyStep == ASSUME BudgetShapes, CheckersAreTidy, [BudgetNext]_budgetVars PROVE CheckersAreTidy'
<1>1. ASSUME NEW a \in Crew, Spends(a) PROVE CheckersAreTidy'
  BY <1>1, BudgetAssumption DEF Spends, CheckerAt, CheckerTo, BudgetShapes, Checkers,
     Put, Resting, CheckerStates, CheckersAreTidy
<1>2. ASSUME NEW a \in Crew, Gate(a) PROVE CheckersAreTidy'
  BY <1>2, BudgetAssumption DEF Gate, CheckerAt, CheckerRests, BudgetShapes, Checkers,
     Put, Resting, CheckerStates, CheckersAreTidy
<1>3. ASSUME NEW a \in Crew, Estimate(a) PROVE CheckersAreTidy'
  BY <1>3, BudgetAssumption DEF Estimate, CheckerAt, CheckerRests, BudgetShapes,
     Checkers, Put, Resting, CheckerStates, CheckersAreTidy
<1>4. ASSUME NEW a \in Crew, Interrupt(a) PROVE CheckersAreTidy'
  BY <1>4, BudgetAssumption DEF Interrupt, Use, BudgetShapes, Checkers, Put, Resting,
     CheckerStates, CheckersAreTidy
<1>5. ASSUME NEW a \in Crew, ResumeGate(a) PROVE CheckersAreTidy'
  BY <1>5, BudgetAssumption DEF ResumeGate, Use, BudgetShapes, Checkers, Put, Resting,
     CheckerStates, CheckersAreTidy
<1>6. ASSUME NEW a \in Crew, ResumeClear(a) PROVE CheckersAreTidy'
  BY <1>6, BudgetAssumption DEF ResumeClear, BudgetShapes, Checkers, Put, Resting,
     CheckerStates, CheckersAreTidy
<1>7. ASSUME NEW a \in Crew, SpawnGate(a) PROVE CheckersAreTidy'
  BY <1>7, BudgetAssumption DEF SpawnGate, BudgetShapes, Checkers, Put, Resting,
     CheckerStates, CheckersAreTidy
<1>8. ASSUME NEW a \in Crew, Register(a) PROVE CheckersAreTidy'
  BY <1>8, BudgetAssumption DEF Register, BudgetShapes, Checkers, Put, Resting,
     CheckerStates, CheckersAreTidy
<1>9. ASSUME NEW a \in Crew, Exit(a) PROVE CheckersAreTidy'
  BY <1>9, BudgetAssumption DEF Exit, BudgetShapes, Checkers, Put, Resting,
     CheckerStates, CheckersAreTidy
<1>10. ASSUME NEW a \in Crew, ResumeNext(a) PROVE CheckersAreTidy'
  BY <1>10, BudgetAssumption DEF ResumeNext, CheckerAt, BudgetShapes, Checkers, Put,
     Resting, CheckerStates, CheckersAreTidy
<1>11. ASSUME NEW c \in Checkers, Roster(c) PROVE CheckersAreTidy'
  BY <1>11, BudgetAssumption DEF Roster, CheckerAt, BudgetShapes, Checkers, Put,
     Resting, CheckerStates, CheckersAreTidy
<1>12. ASSUME NEW c \in Checkers, NEW a \in Crew, Look(c, a) PROVE CheckersAreTidy'
  BY <1>12, BudgetAssumption DEF Look, CheckerAt, BudgetShapes, Checkers, Put,
     Resting, CheckerStates, CheckersAreTidy
<1>13. ASSUME NEW c \in Checkers, Persist(c) PROVE CheckersAreTidy'
  BY <1>13, BudgetAssumption DEF Persist, CheckerAt, CheckerRests, StillDue,
     BudgetShapes, Checkers, Put, Resting, CheckerStates, CheckersAreTidy
<1>14. ASSUME NEW c \in Checkers, LookupFails(c) PROVE CheckersAreTidy'
  BY <1>14, BudgetAssumption DEF LookupFails, CheckerAt, CheckerRests, Use,
     BudgetShapes, Checkers, Put, Resting, CheckerStates, CheckersAreTidy
<1>15. ASSUME NEW c \in Checkers, PersistFails(c) PROVE CheckersAreTidy'
  BY <1>15, BudgetAssumption DEF PersistFails, CheckerAt, CheckerRests, Use,
     BudgetShapes, Checkers, Put, Resting, CheckerStates, CheckersAreTidy
<1>16. ASSUME NEW b \in Caps, SetCap(b) PROVE CheckersAreTidy'
  BY <1>16, BudgetAssumption DEF SetCap, CheckerAt, Use, BudgetShapes, Checkers, Put,
     Resting, CheckerStates, CheckersAreTidy
<1>17. ASSUME Reconcile PROVE CheckersAreTidy'
  BY <1>17, BudgetAssumption DEF Reconcile, CheckerAt, CheckerRests, CheckerTo,
     BudgetShapes, Checkers, Put, Resting, CheckerStates, CheckersAreTidy
<1>18. ASSUME Lift PROVE CheckersAreTidy'
  BY <1>18, BudgetAssumption DEF Lift, CheckerAt, BudgetShapes, Checkers, Put,
     Resting, CheckerStates, CheckersAreTidy
<1>19. ASSUME Lifted PROVE CheckersAreTidy'
  BY <1>19, BudgetAssumption DEF Lifted, CheckerAt, CheckerRests, BudgetShapes,
     Checkers, Put, Resting, CheckerStates, CheckersAreTidy
<1>20. ASSUME PruneUsage PROVE CheckersAreTidy'
  BY <1>20, BudgetAssumption DEF PruneUsage, Use, BudgetShapes, Checkers, Put,
     Resting, CheckerStates, CheckersAreTidy
<1>21. CASE UNCHANGED budgetVars
  BY <1>21 DEF budgetVars, BudgetShapes, Checkers, Put, Resting, CheckerStates,
     CheckersAreTidy
<1>22. QED
  BY <1>1, <1>2, <1>3, <1>4, <1>5, <1>6, <1>7, <1>8, <1>9, <1>10, <1>11, <1>12, <1>13,
     <1>14, <1>15, <1>16, <1>17, <1>18, <1>19, <1>20, <1>21 DEF BudgetNext, Tailer,
     Trip

\* A trip takes only agents nobody has paused, an undone trip gives back only those,
\* and a lift resumes only the ledger.
LEMMA OperatorStep == ASSUME BudgetShapes, CheckersAreTidy, OperatorWasFirst, [BudgetNext]_budgetVars PROVE OperatorWasFirst'
<1>1. ASSUME NEW a \in Crew, Spends(a) PROVE OperatorWasFirst'
  BY <1>1, BudgetAssumption DEF Spends, CheckerAt, CheckerTo, BudgetShapes, Checkers,
     Put, Resting, CheckerStates, CheckersAreTidy, OperatorWasFirst, Handled
<1>2. ASSUME NEW a \in Crew, Gate(a) PROVE OperatorWasFirst'
  BY <1>2, BudgetAssumption DEF Gate, CheckerAt, CheckerRests, BudgetShapes, Checkers,
     Put, Resting, CheckerStates, CheckersAreTidy, OperatorWasFirst, Handled
<1>3. ASSUME NEW a \in Crew, Estimate(a) PROVE OperatorWasFirst'
  BY <1>3, BudgetAssumption DEF Estimate, CheckerAt, CheckerRests, BudgetShapes,
     Checkers, Put, Resting, CheckerStates, CheckersAreTidy, OperatorWasFirst, Handled
<1>4. ASSUME NEW a \in Crew, Interrupt(a) PROVE OperatorWasFirst'
  BY <1>4, BudgetAssumption DEF Interrupt, Use, BudgetShapes, Checkers, Put, Resting,
     CheckerStates, CheckersAreTidy, OperatorWasFirst, Handled, CheckerAt
<1>5. ASSUME NEW a \in Crew, ResumeGate(a) PROVE OperatorWasFirst'
  BY <1>5, BudgetAssumption DEF ResumeGate, Use, BudgetShapes, Checkers, Put, Resting,
     CheckerStates, CheckersAreTidy, OperatorWasFirst, Handled, CheckerAt
<1>6. ASSUME NEW a \in Crew, ResumeClear(a) PROVE OperatorWasFirst'
  BY <1>6, BudgetAssumption DEF ResumeClear, BudgetShapes, Checkers, Put, Resting,
     CheckerStates, CheckersAreTidy, OperatorWasFirst, Handled, CheckerAt
<1>7. ASSUME NEW a \in Crew, SpawnGate(a) PROVE OperatorWasFirst'
  BY <1>7, BudgetAssumption DEF SpawnGate, BudgetShapes, Checkers, Put, Resting,
     CheckerStates, CheckersAreTidy, OperatorWasFirst, Handled, CheckerAt
<1>8. ASSUME NEW a \in Crew, Register(a) PROVE OperatorWasFirst'
  BY <1>8, BudgetAssumption DEF Register, BudgetShapes, Checkers, Put, Resting,
     CheckerStates, CheckersAreTidy, OperatorWasFirst, Handled, CheckerAt
<1>9. ASSUME NEW a \in Crew, Exit(a) PROVE OperatorWasFirst'
  BY <1>9, BudgetAssumption DEF Exit, BudgetShapes, Checkers, Put, Resting,
     CheckerStates, CheckersAreTidy, OperatorWasFirst, Handled, CheckerAt
<1>10. ASSUME NEW a \in Crew, ResumeNext(a) PROVE OperatorWasFirst'
  BY <1>10, BudgetAssumption DEF ResumeNext, CheckerAt, BudgetShapes, Checkers, Put,
     Resting, CheckerStates, CheckersAreTidy, OperatorWasFirst, Handled
<1>11. ASSUME NEW c \in Checkers, Roster(c) PROVE OperatorWasFirst'
  BY <1>11, BudgetAssumption DEF Roster, CheckerAt, BudgetShapes, Checkers, Put,
     Resting, CheckerStates, CheckersAreTidy, OperatorWasFirst, Handled
<1>12. ASSUME NEW c \in Checkers, NEW a \in Crew, Look(c, a) PROVE OperatorWasFirst'
  BY <1>12, BudgetAssumption DEF Look, CheckerAt, BudgetShapes, Checkers, Put,
     Resting, CheckerStates, CheckersAreTidy, OperatorWasFirst, Handled
<1>13. ASSUME NEW c \in Checkers, Persist(c) PROVE OperatorWasFirst'
  BY <1>13, BudgetAssumption DEF Persist, CheckerAt, CheckerRests, StillDue,
     BudgetShapes, Checkers, Put, Resting, CheckerStates, CheckersAreTidy,
     OperatorWasFirst, Handled
<1>14. ASSUME NEW c \in Checkers, LookupFails(c) PROVE OperatorWasFirst'
  BY <1>14, BudgetAssumption DEF LookupFails, CheckerAt, CheckerRests, Use,
     BudgetShapes, Checkers, Put, Resting, CheckerStates, CheckersAreTidy,
     OperatorWasFirst, Handled
<1>15. ASSUME NEW c \in Checkers, PersistFails(c) PROVE OperatorWasFirst'
  BY <1>15, BudgetAssumption DEF PersistFails, CheckerAt, CheckerRests, Use,
     BudgetShapes, Checkers, Put, Resting, CheckerStates, CheckersAreTidy,
     OperatorWasFirst, Handled
<1>16. ASSUME NEW b \in Caps, SetCap(b) PROVE OperatorWasFirst'
  BY <1>16, BudgetAssumption DEF SetCap, CheckerAt, Use, BudgetShapes, Checkers, Put,
     Resting, CheckerStates, CheckersAreTidy, OperatorWasFirst, Handled
<1>17. ASSUME Reconcile PROVE OperatorWasFirst'
  BY <1>17, BudgetAssumption DEF Reconcile, CheckerAt, CheckerRests, CheckerTo,
     BudgetShapes, Checkers, Put, Resting, CheckerStates, CheckersAreTidy,
     OperatorWasFirst, Handled
<1>18. ASSUME Lift PROVE OperatorWasFirst'
  BY <1>18, BudgetAssumption DEF Lift, CheckerAt, BudgetShapes, Checkers, Put,
     Resting, CheckerStates, CheckersAreTidy, OperatorWasFirst, Handled
<1>19. ASSUME Lifted PROVE OperatorWasFirst'
  BY <1>19, BudgetAssumption DEF Lifted, CheckerAt, CheckerRests, BudgetShapes,
     Checkers, Put, Resting, CheckerStates, CheckersAreTidy, OperatorWasFirst, Handled
<1>20. ASSUME PruneUsage PROVE OperatorWasFirst'
  BY <1>20, BudgetAssumption DEF PruneUsage, Use, BudgetShapes, Checkers, Put,
     Resting, CheckerStates, CheckersAreTidy, OperatorWasFirst, Handled, CheckerAt
<1>21. CASE UNCHANGED budgetVars
  BY <1>21 DEF budgetVars, BudgetShapes, Checkers, Put, Resting, CheckerStates,
     CheckersAreTidy, OperatorWasFirst, Handled, CheckerAt
<1>22. QED
  BY <1>1, <1>2, <1>3, <1>4, <1>5, <1>6, <1>7, <1>8, <1>9, <1>10, <1>11, <1>12, <1>13,
     <1>14, <1>15, <1>16, <1>17, <1>18, <1>19, <1>20, <1>21 DEF BudgetNext, Tailer,
     Trip

\* A pause passes from the trip to the ledger and from the ledger to the lift.
LEMMA PauseStep == ASSUME BudgetShapes, CheckersAreTidy, PausesAreHandled, [BudgetNext]_budgetVars PROVE PausesAreHandled'
<1>1. ASSUME NEW a \in Crew, Spends(a) PROVE PausesAreHandled'
  BY <1>1, BudgetAssumption DEF Spends, CheckerAt, CheckerTo, BudgetShapes, Checkers,
     Put, Resting, CheckerStates, CheckersAreTidy, PausesAreHandled, Handled
<1>2. ASSUME NEW a \in Crew, Gate(a) PROVE PausesAreHandled'
  BY <1>2, BudgetAssumption DEF Gate, CheckerAt, CheckerRests, BudgetShapes, Checkers,
     Put, Resting, CheckerStates, CheckersAreTidy, PausesAreHandled, Handled
<1>3. ASSUME NEW a \in Crew, Estimate(a) PROVE PausesAreHandled'
  BY <1>3, BudgetAssumption DEF Estimate, CheckerAt, CheckerRests, BudgetShapes,
     Checkers, Put, Resting, CheckerStates, CheckersAreTidy, PausesAreHandled, Handled
<1>4. ASSUME NEW a \in Crew, Interrupt(a) PROVE PausesAreHandled'
  BY <1>4, BudgetAssumption DEF Interrupt, Use, BudgetShapes, Checkers, Put, Resting,
     CheckerStates, CheckersAreTidy, PausesAreHandled, Handled, CheckerAt
<1>5. ASSUME NEW a \in Crew, ResumeGate(a) PROVE PausesAreHandled'
  BY <1>5, BudgetAssumption DEF ResumeGate, Use, BudgetShapes, Checkers, Put, Resting,
     CheckerStates, CheckersAreTidy, PausesAreHandled, Handled, CheckerAt
<1>6. ASSUME NEW a \in Crew, ResumeClear(a) PROVE PausesAreHandled'
  BY <1>6, BudgetAssumption DEF ResumeClear, BudgetShapes, Checkers, Put, Resting,
     CheckerStates, CheckersAreTidy, PausesAreHandled, Handled, CheckerAt
<1>7. ASSUME NEW a \in Crew, SpawnGate(a) PROVE PausesAreHandled'
  BY <1>7, BudgetAssumption DEF SpawnGate, BudgetShapes, Checkers, Put, Resting,
     CheckerStates, CheckersAreTidy, PausesAreHandled, Handled, CheckerAt
<1>8. ASSUME NEW a \in Crew, Register(a) PROVE PausesAreHandled'
  BY <1>8, BudgetAssumption DEF Register, BudgetShapes, Checkers, Put, Resting,
     CheckerStates, CheckersAreTidy, PausesAreHandled, Handled, CheckerAt
<1>9. ASSUME NEW a \in Crew, Exit(a) PROVE PausesAreHandled'
  BY <1>9, BudgetAssumption DEF Exit, BudgetShapes, Checkers, Put, Resting,
     CheckerStates, CheckersAreTidy, PausesAreHandled, Handled, CheckerAt
<1>10. ASSUME NEW a \in Crew, ResumeNext(a) PROVE PausesAreHandled'
  BY <1>10, BudgetAssumption DEF ResumeNext, CheckerAt, BudgetShapes, Checkers, Put,
     Resting, CheckerStates, CheckersAreTidy, PausesAreHandled, Handled
<1>11. ASSUME NEW c \in Checkers, Roster(c) PROVE PausesAreHandled'
  BY <1>11, BudgetAssumption DEF Roster, CheckerAt, BudgetShapes, Checkers, Put,
     Resting, CheckerStates, CheckersAreTidy, PausesAreHandled, Handled
<1>12. ASSUME NEW c \in Checkers, NEW a \in Crew, Look(c, a) PROVE PausesAreHandled'
  BY <1>12, BudgetAssumption DEF Look, CheckerAt, BudgetShapes, Checkers, Put,
     Resting, CheckerStates, CheckersAreTidy, PausesAreHandled, Handled
<1>13. ASSUME NEW c \in Checkers, Persist(c) PROVE PausesAreHandled'
  BY <1>13, BudgetAssumption DEF Persist, CheckerAt, CheckerRests, StillDue,
     BudgetShapes, Checkers, Put, Resting, CheckerStates, CheckersAreTidy,
     PausesAreHandled, Handled
<1>14. ASSUME NEW c \in Checkers, LookupFails(c) PROVE PausesAreHandled'
  BY <1>14, BudgetAssumption DEF LookupFails, CheckerAt, CheckerRests, Use,
     BudgetShapes, Checkers, Put, Resting, CheckerStates, CheckersAreTidy,
     PausesAreHandled, Handled
<1>15. ASSUME NEW c \in Checkers, PersistFails(c) PROVE PausesAreHandled'
  BY <1>15, BudgetAssumption DEF PersistFails, CheckerAt, CheckerRests, Use,
     BudgetShapes, Checkers, Put, Resting, CheckerStates, CheckersAreTidy,
     PausesAreHandled, Handled
<1>16. ASSUME NEW b \in Caps, SetCap(b) PROVE PausesAreHandled'
  BY <1>16, BudgetAssumption DEF SetCap, CheckerAt, Use, BudgetShapes, Checkers, Put,
     Resting, CheckerStates, CheckersAreTidy, PausesAreHandled, Handled
<1>17. ASSUME Reconcile PROVE PausesAreHandled'
  BY <1>17, BudgetAssumption DEF Reconcile, CheckerAt, CheckerRests, CheckerTo,
     BudgetShapes, Checkers, Put, Resting, CheckerStates, CheckersAreTidy,
     PausesAreHandled, Handled
<1>18. ASSUME Lift PROVE PausesAreHandled'
  BY <1>18, BudgetAssumption DEF Lift, CheckerAt, BudgetShapes, Checkers, Put,
     Resting, CheckerStates, CheckersAreTidy, PausesAreHandled, Handled
<1>19. ASSUME Lifted PROVE PausesAreHandled'
  BY <1>19, BudgetAssumption DEF Lifted, CheckerAt, CheckerRests, BudgetShapes,
     Checkers, Put, Resting, CheckerStates, CheckersAreTidy, PausesAreHandled, Handled
<1>20. ASSUME PruneUsage PROVE PausesAreHandled'
  BY <1>20, BudgetAssumption DEF PruneUsage, Use, BudgetShapes, Checkers, Put,
     Resting, CheckerStates, CheckersAreTidy, PausesAreHandled, Handled, CheckerAt
<1>21. CASE UNCHANGED budgetVars
  BY <1>21 DEF budgetVars, BudgetShapes, Checkers, Put, Resting, CheckerStates,
     CheckersAreTidy, PausesAreHandled, Handled, CheckerAt
<1>22. QED
  BY <1>1, <1>2, <1>3, <1>4, <1>5, <1>6, <1>7, <1>8, <1>9, <1>10, <1>11, <1>12, <1>13,
     <1>14, <1>15, <1>16, <1>17, <1>18, <1>19, <1>20, <1>21 DEF BudgetNext, Tailer,
     Trip

\* PUT lifts the brake it finds when it clears the cap.
LEMMA LiftStep == ASSUME BudgetShapes, CheckersAreTidy, LiftIsDue, [BudgetNext]_budgetVars PROVE LiftIsDue'
<1>1. ASSUME NEW a \in Crew, Spends(a) PROVE LiftIsDue'
  BY <1>1, BudgetAssumption DEF Spends, CheckerAt, CheckerTo, BudgetShapes, Checkers,
     Put, Resting, CheckerStates, CheckersAreTidy, LiftIsDue
<1>2. ASSUME NEW a \in Crew, Gate(a) PROVE LiftIsDue'
  BY <1>2, BudgetAssumption DEF Gate, CheckerAt, CheckerRests, BudgetShapes, Checkers,
     Put, Resting, CheckerStates, CheckersAreTidy, LiftIsDue
<1>3. ASSUME NEW a \in Crew, Estimate(a) PROVE LiftIsDue'
  BY <1>3, BudgetAssumption DEF Estimate, CheckerAt, CheckerRests, BudgetShapes,
     Checkers, Put, Resting, CheckerStates, CheckersAreTidy, LiftIsDue
<1>4. ASSUME NEW a \in Crew, Interrupt(a) PROVE LiftIsDue'
  BY <1>4, BudgetAssumption DEF Interrupt, Use, BudgetShapes, Checkers, Put, Resting,
     CheckerStates, CheckersAreTidy, LiftIsDue, CheckerAt
<1>5. ASSUME NEW a \in Crew, ResumeGate(a) PROVE LiftIsDue'
  BY <1>5, BudgetAssumption DEF ResumeGate, Use, BudgetShapes, Checkers, Put, Resting,
     CheckerStates, CheckersAreTidy, LiftIsDue, CheckerAt
<1>6. ASSUME NEW a \in Crew, ResumeClear(a) PROVE LiftIsDue'
  BY <1>6, BudgetAssumption DEF ResumeClear, BudgetShapes, Checkers, Put, Resting,
     CheckerStates, CheckersAreTidy, LiftIsDue, CheckerAt
<1>7. ASSUME NEW a \in Crew, SpawnGate(a) PROVE LiftIsDue'
  BY <1>7, BudgetAssumption DEF SpawnGate, BudgetShapes, Checkers, Put, Resting,
     CheckerStates, CheckersAreTidy, LiftIsDue, CheckerAt
<1>8. ASSUME NEW a \in Crew, Register(a) PROVE LiftIsDue'
  BY <1>8, BudgetAssumption DEF Register, BudgetShapes, Checkers, Put, Resting,
     CheckerStates, CheckersAreTidy, LiftIsDue, CheckerAt
<1>9. ASSUME NEW a \in Crew, Exit(a) PROVE LiftIsDue'
  BY <1>9, BudgetAssumption DEF Exit, BudgetShapes, Checkers, Put, Resting,
     CheckerStates, CheckersAreTidy, LiftIsDue, CheckerAt
<1>10. ASSUME NEW a \in Crew, ResumeNext(a) PROVE LiftIsDue'
  BY <1>10, BudgetAssumption DEF ResumeNext, CheckerAt, BudgetShapes, Checkers, Put,
     Resting, CheckerStates, CheckersAreTidy, LiftIsDue
<1>11. ASSUME NEW c \in Checkers, Roster(c) PROVE LiftIsDue'
  BY <1>11, BudgetAssumption DEF Roster, CheckerAt, BudgetShapes, Checkers, Put,
     Resting, CheckerStates, CheckersAreTidy, LiftIsDue
<1>12. ASSUME NEW c \in Checkers, NEW a \in Crew, Look(c, a) PROVE LiftIsDue'
  BY <1>12, BudgetAssumption DEF Look, CheckerAt, BudgetShapes, Checkers, Put,
     Resting, CheckerStates, CheckersAreTidy, LiftIsDue
<1>13. ASSUME NEW c \in Checkers, Persist(c) PROVE LiftIsDue'
  <2>  SUFFICES ASSUME marker', cap' = 0, budgetLeft'.faults = MaxDbFaults PROVE LiftIsDue'
    BY DEF LiftIsDue
  <2>1. cap = 0 /\ budgetLeft.faults = MaxDbFaults
    BY <1>13 DEF Persist
  <2>2. ~StillDue(c)
    BY <2>1 DEF StillDue
  <2>3. marker
    BY <1>13, <2>2 DEF Persist
  <2>4. c # Put
    BY <1>13, <2>1, <2>3 DEF Persist, CheckerAt, LiftIsDue
  <2>5. checker'[Put] = checker[Put]
    BY <1>13, <2>4 DEF Persist, CheckerRests, BudgetShapes, Checkers
  <2>6. QED
    BY <2>1, <2>3, <2>5 DEF LiftIsDue, CheckerAt
<1>14. ASSUME NEW c \in Checkers, LookupFails(c) PROVE LiftIsDue'
  BY <1>14, BudgetAssumption DEF LookupFails, CheckerAt, CheckerRests, Use,
     BudgetShapes, Checkers, Put, Resting, CheckerStates, CheckersAreTidy, LiftIsDue
<1>15. ASSUME NEW c \in Checkers, PersistFails(c) PROVE LiftIsDue'
  BY <1>15, BudgetAssumption DEF PersistFails, CheckerAt, CheckerRests, Use,
     BudgetShapes, Checkers, Put, Resting, CheckerStates, CheckersAreTidy, LiftIsDue
<1>16. ASSUME NEW b \in Caps, SetCap(b) PROVE LiftIsDue'
  BY <1>16, BudgetAssumption DEF SetCap, CheckerAt, Use, BudgetShapes, Checkers, Put,
     Resting, CheckerStates, CheckersAreTidy, LiftIsDue
<1>17. ASSUME Reconcile PROVE LiftIsDue'
  BY <1>17, BudgetAssumption DEF Reconcile, CheckerAt, CheckerRests, CheckerTo,
     BudgetShapes, Checkers, Put, Resting, CheckerStates, CheckersAreTidy, LiftIsDue
<1>18. ASSUME Lift PROVE LiftIsDue'
  BY <1>18, BudgetAssumption DEF Lift, CheckerAt, BudgetShapes, Checkers, Put,
     Resting, CheckerStates, CheckersAreTidy, LiftIsDue
<1>19. ASSUME Lifted PROVE LiftIsDue'
  BY <1>19, BudgetAssumption DEF Lifted, CheckerAt, CheckerRests, BudgetShapes,
     Checkers, Put, Resting, CheckerStates, CheckersAreTidy, LiftIsDue
<1>20. ASSUME PruneUsage PROVE LiftIsDue'
  BY <1>20, BudgetAssumption DEF PruneUsage, Use, BudgetShapes, Checkers, Put,
     Resting, CheckerStates, CheckersAreTidy, LiftIsDue, CheckerAt
<1>21. CASE UNCHANGED budgetVars
  BY <1>21 DEF budgetVars, BudgetShapes, Checkers, Put, Resting, CheckerStates,
     CheckersAreTidy, LiftIsDue, CheckerAt
<1>22. QED
  BY <1>1, <1>2, <1>3, <1>4, <1>5, <1>6, <1>7, <1>8, <1>9, <1>10, <1>11, <1>12, <1>13,
     <1>14, <1>15, <1>16, <1>17, <1>18, <1>19, <1>20, <1>21 DEF BudgetNext, Tailer,
     Trip

-----------------------------------------------------------------------------
(* The invariant and what follows from it.                                 *)

\* The invariant holds at the start.
LEMMA BudgetStart == BudgetInit => BudgetInv
<1>  SUFFICES ASSUME BudgetInit PROVE BudgetInv
  OBVIOUS
<1>1. BudgetShapes
  <2>1. cap \in Nat /\ cost \in Nat
    BY BudgetAssumption DEF BudgetInit
  <2>2. marker \in BOOLEAN
    BY DEF BudgetInit
  <2>3. /\ pauses \subseteq Crew /\ registered \subseteq Crew /\ paused \subseteq Crew
        /\ byOperator \subseteq Crew /\ untouched \subseteq Crew
    BY DEF BudgetInit
  <2>4. checker \in [Checkers -> CheckerStates]
    BY RestingIsAState DEF BudgetInit
  <2>5. budgetLeft \in [puts : Nat, stops : Nat, faults : Nat] /\ budgetLeft.faults <= MaxDbFaults
    BY BudgetAssumption DEF BudgetInit
  <2>6. QED
    BY <2>1, <2>2, <2>3, <2>4, <2>5 DEF BudgetShapes
<1>2. CheckersAreTidy
  BY DEF BudgetInit, CheckersAreTidy, Resting, Checkers, Put
<1>3. OperatorWasFirst /\ PausesAreHandled /\ LiftIsDue
  BY DEF BudgetInit, OperatorWasFirst, PausesAreHandled, LiftIsDue
<1>4. QED
  BY <1>1, <1>2, <1>3 DEF BudgetInv

\* Every step keeps it.
LEMMA BudgetSteps == BudgetInv /\ [BudgetNext]_budgetVars => BudgetInv'
  BY BudgetShapeStep, TidyStep, OperatorStep, PauseStep, LiftStep DEF BudgetInv

\* A pause is the operator's, in the ledger, or in somebody's hands, in every run.
THEOREM BrakeIsSound == BudgetSpec => []BudgetInv
  BY BudgetStart, BudgetSteps, PTL DEF BudgetSpec

\* What the operator paused before any brake did stays paused until the operator
\* resumes it (trip_workspace, revert_pauses, lift_workspace).
THEOREM OperatorPausesSurvive == BudgetSpec => []OperatorPauseSurvives
<1>1. BudgetInv => OperatorPauseSurvives
  BY DEF BudgetInv, OperatorWasFirst, OperatorPauseSurvives
<1>2. QED
  BY <1>1, BrakeIsSound, PTL

\* No trip is left half done: who is still paused once trips and lifts are over was
\* paused by the operator or is in the ledger of the brake (handle_trip_persist).
THEOREM TripsAreWhole == BudgetSpec => []NoHalfTrip
<1>1. BudgetInv => NoHalfTrip
  <2>  SUFFICES ASSUME BudgetInv, Settled, NEW a \in paused \ byOperator
                PROVE  marker /\ a \in pauses
    BY DEF NoHalfTrip
  <2>1. \A c \in Checkers : checker[c].mine = {} /\ ~CheckerAt(c, "resume")
    BY DEF BudgetInv, CheckersAreTidy, Settled, CheckerAt
  <2>2. Handled(a)
    BY DEF BudgetInv, PausesAreHandled
  <2>3. QED
    BY <2>1, <2>2 DEF Handled, BudgetInv, PausesAreHandled
<1>2. QED
  BY <1>1, BrakeIsSound, PTL

\* While no statement fails, the brake is not on once the cap is gone, whichever of
\* PUT and trip comes first (BudgetMoved).
THEOREM BrakeNeedsCap == BudgetSpec => []NoBrakeWithoutCap
<1>1. BudgetInv => NoBrakeWithoutCap
  BY DEF BudgetInv, LiftIsDue, NoBrakeWithoutCap, Settled, CheckerAt, Checkers
<1>2. QED
  BY <1>1, BrakeIsSound, PTL

-----------------------------------------------------------------------------
(* The detector of silence.                                                *)

SweepStages == {"rest", "recover", "probe", "weigh", "wake", "mark"}

Rows == [live : BOOLEAN, ready : BOOLEAN, error : {NoError, Stuck, Other}]

MindStates == [tracked : BOOLEAN, wakes : Nat, at : Ages, stirred : BOOLEAN]

SweepStates == [pc : SweepStages, row : Rows, sign : Ages, stirred : BOOLEAN, news : BOOLEAN]

\* Ages and the watchdog's own records have their shape.
WatchShapes ==
  /\ watched \in Rows /\ sign \in Ages /\ pokes \in Nat
  /\ mind \in MindStates /\ sweep \in SweepStates

\* The watchdog's count is the count of pokes, and it pokes only below its bound.
PokesAreCounted ==
  /\ pokes = mind.wakes /\ mind.wakes <= MaxWakes
  /\ ~mind.tracked => mind.wakes = 0
  /\ sweep.pc = "wake" => mind.wakes < MaxWakes

\* The agent has been silent for n windows and another t minutes.
SilentFor(age, n, t) == age = MaxAge \/ age >= n * Silence + t + 1

\* Each of the wakes was made after one more window of silence.
WindowsPass ==
  /\ mind.tracked /\ ~mind.stirred => SilentFor(sign, mind.wakes, mind.at)
  /\ sweep.pc = "weigh" /\ mind.tracked /\ ~sweep.stirred =>
       SilentFor(sweep.sign, mind.wakes, mind.at)
  /\ sweep.pc = "wake" => SilentFor(sweep.sign, mind.wakes + 1, 0)
  /\ sweep.pc = "mark" => SilentFor(sweep.sign, MaxWakes + 1, 0)
  /\ sweep.pc \in {"weigh", "wake"} /\ ~sweep.news => sign = sweep.sign

\* The inductive invariant.
WatchInv == WatchShapes /\ PokesAreCounted /\ WindowsPass

(* The captains of a direction.                                            *)

SpawnStages == {"none", "looked", "reused", "refused", "admitted", "forked", "recorded",
                "listening", "enrolled"}

RowStates == [there : BOOLEAN, sign : {"quiet", "error", "active"}, ended : BOOLEAN,
              boot : BOOLEAN, pid : BOOLEAN]

ReaperStates == [pc : {"sweep", "extra", "boot"}, victims : SUBSET Captains,
                 at : Captains \cup {None}]

\* What the reaper and the teardowns work with has its shape.
LifeShapes ==
  /\ spawn \in [Captains -> SpawnStages]
  /\ captainProcess \in [Captains -> {"none", "up", "dead"}]
  /\ registry \subseteq Captains
  /\ row \in [Captains -> RowStates]
  /\ teardown \in [Captains -> {"no", "out", "killed"}]
  /\ reaper \in ReaperStates
  /\ mishap \in BOOLEAN

\* The reaper tears down one captain at a time, and none between two sweeps.
OneTeardown ==
  /\ reaper.pc # "boot"
  /\ reaper.pc = "sweep" => reaper.at = None
  /\ \A a \in Captains : teardown[a] # "no" => reaper.at = a

\* A captain on its way in is up; one that is down was killed or is recorded.
UpOrRecorded ==
  /\ \A a \in Captains : spawn[a] \in {"forked", "recorded", "listening"} =>
       captainProcess[a] = "up"
  /\ \A a \in Captains : teardown[a] # "no" => spawn[a] = "enrolled"
  /\ \A a \in Captains : spawn[a] = "enrolled" =>
       captainProcess[a] = "up" \/ teardown[a] = "killed" \/ row[a].ended
  /\ \A a \in registry : spawn[a] = "enrolled"
  /\ \A a \in Captains : row[a].there => spawn[a] \in {"recorded", "listening", "enrolled"}

\* While the reaper has victims, a captain that lives is none of them.
KeeperLives ==
  /\ reaper.pc = "extra" => \E k \in Captains \ reaper.victims : Alive(k)
  /\ (\E a \in Captains : spawn[a] = "enrolled") => \E k \in Captains : Alive(k)

\* The inductive invariant.
LifeInv == LifeShapes /\ (~mishap => OneTeardown /\ UpOrRecorded /\ KeeperLives)

-----------------------------------------------------------------------------
\* The oldest age the watchdog tells apart.
LEMMA AgesAreCapped ==
  MaxAge \in Nat /\ MaxAge = (MaxWakes + 1) * Silence + 1 /\ Silence <= MaxAge /\ Silence \in Nat /\ MaxWakes \in Nat
<1>1. Silence \in Nat /\ MaxWakes \in Nat
  BY WatchAssumption
<1>2. MaxWakes * Silence \in Nat /\ (MaxWakes + 1) * Silence = MaxWakes * Silence + Silence
  BY <1>1
<1>3. QED
  BY <1>1, <1>2 DEF MaxAge

\* Ages run from nothing to the oldest.
LEMMA AgesHaveEnds ==
  /\ 0 \in Ages /\ MaxAge \in Ages
  /\ \A n \in Ages : n \in Nat /\ n <= MaxAge /\ Older(n) \in Ages /\ (Older(n) = MaxAge \/ Older(n) = n + 1)
  BY AgesAreCapped DEF Ages, Older

\* An age is a number of minutes.
LEMMA AgesAreNat == \A n \in Ages : n \in Nat /\ n <= MaxAge
  BY AgesAreCapped DEF Ages

\* n windows are some minutes, and n + 1 windows one window more.
LEMMA WindowsAreNat ==
  /\ \A n \in Nat : n * Silence \in Nat /\ (n + 1) * Silence = n * Silence + Silence
  /\ 0 * Silence = 0
  BY WatchAssumption

\* What is in the watchdog's record and in a sweep.
LEMMA FieldTypes ==
  /\ \A m \in MindStates : m.wakes \in Nat /\ m.at \in Ages /\ m.stirred \in BOOLEAN
                           /\ m.tracked \in BOOLEAN
  /\ \A s \in SweepStates : s.pc \in SweepStages /\ s.sign \in Ages /\ s.stirred \in BOOLEAN
                            /\ s.news \in BOOLEAN /\ s.row \in Rows
  BY DEF SweepStates, MindStates

\* A sweep moves on.
LEMMA SweepMoves ==
  ASSUME NEW s \in SweepStates, NEW p \in SweepStages
  PROVE  /\ [s EXCEPT !.pc = p] \in SweepStates
         /\ [s EXCEPT !.pc = p].pc = p /\ [s EXCEPT !.pc = p].sign = s.sign
         /\ [s EXCEPT !.pc = p].stirred = s.stirred /\ [s EXCEPT !.pc = p].news = s.news
  BY DEF SweepStates

\* A sign of life comes during a sweep.
LEMMA SweepHears ==
  ASSUME NEW s \in SweepStates
  PROVE  /\ [s EXCEPT !.news = TRUE] \in SweepStates
         /\ [s EXCEPT !.news = TRUE].pc = s.pc /\ [s EXCEPT !.news = TRUE].sign = s.sign
         /\ [s EXCEPT !.news = TRUE].stirred = s.stirred /\ [s EXCEPT !.news = TRUE].news
  BY DEF SweepStates

\* A sweep begins, and is over.
LEMMA SweepBegins ==
  ASSUME NEW r \in Rows
  PROVE  LET t == [AtRest EXCEPT !.pc = "recover", !.row = r] IN
           t \in SweepStates /\ t.pc = "recover"
  BY AgesHaveEnds DEF SweepStates, SweepStages, AtRest, Rows

LEMMA SweepEnds == AtRest \in SweepStates /\ AtRest.pc = "rest"
  BY AgesHaveEnds DEF SweepStates, SweepStages, AtRest, Rows

\* The watchdog's record is reset, grows older, hears a sign, counts a wake.
LEMMA MindForgets == Forgotten \in MindStates /\ Forgotten.tracked = FALSE /\ Forgotten.wakes = 0
  BY AgesHaveEnds DEF MindStates, Forgotten

LEMMA MindAges ==
  ASSUME NEW m \in MindStates, NEW n \in Ages
  PROVE  LET t == [m EXCEPT !.at = n] IN
           /\ t \in MindStates /\ t.tracked = m.tracked /\ t.at = n
           /\ t.stirred = m.stirred /\ t.wakes = m.wakes
  BY DEF MindStates

LEMMA MindHears ==
  ASSUME NEW m \in MindStates
  PROVE  LET t == [m EXCEPT !.stirred = TRUE] IN
           /\ t \in MindStates /\ t.tracked = m.tracked /\ t.at = m.at
           /\ t.stirred = TRUE /\ t.wakes = m.wakes
  BY DEF MindStates

LEMMA MindCounts ==
  ASSUME NEW k \in Nat, NEW b \in BOOLEAN
  PROVE  LET t == [tracked |-> TRUE, wakes |-> k, at |-> 0, stirred |-> b] IN
           /\ t \in MindStates /\ t.tracked = TRUE /\ t.at = 0 /\ t.stirred = b /\ t.wakes = k
  BY AgesHaveEnds DEF MindStates

\* A row that a detector, a person or the reaper writes is a row.
LEMMA RowsAreWritten ==
  ASSUME NEW r \in Rows
  PROVE  /\ [r EXCEPT !.error = NoError] \in Rows /\ [r EXCEPT !.error = Stuck] \in Rows
         /\ [r EXCEPT !.error = Other] \in Rows /\ [r EXCEPT !.ready = TRUE] \in Rows
         /\ [r EXCEPT !.live = FALSE] \in Rows
  BY DEF Rows

\* A step of others that the watchdog has no part in.
LEMMA OthersMove ==
  ASSUME WatchInv, watched' \in Rows, UNCHANGED <<sign, mind, sweep, pokes>>
  PROVE  WatchInv'
  BY DEF WatchInv, WatchShapes, PokesAreCounted, WindowsPass

\* A step that leaves the sweep before its verdict, or ends it without one.
LEMMA SweepIsCalm ==
  ASSUME WatchInv, watched' \in Rows, sweep' \in SweepStates, UNCHANGED sign,
         sweep'.pc \in {"rest", "recover", "probe"}, UNCHANGED <<mind, pokes>> \/ Forgets
  PROVE  WatchInv'
<1>1. CASE UNCHANGED <<mind, pokes>>
  BY <1>1 DEF WatchInv, WatchShapes, PokesAreCounted, WindowsPass
<1>2. CASE Forgets
  <2>1. mind' \in MindStates /\ mind'.tracked = FALSE /\ mind'.wakes = 0 /\ pokes' = 0
    BY <1>2, MindForgets DEF Forgets
  <2>2. WatchShapes'
    BY <2>1 DEF WatchInv, WatchShapes
  <2>3. PokesAreCounted'
    BY <2>1, AgesAreCapped DEF PokesAreCounted
  <2>4. QED
    BY <2>1, <2>2, <2>3 DEF WatchInv, WindowsPass
<1>3. QED
  BY <1>1, <1>2

\* A sign of life.
LEMMA StirIsHeard ==
  ASSUME WatchInv, Stir, UNCHANGED <<watched, pokes>>
  PROVE  WatchInv'
<1>1. mind \in MindStates /\ sweep \in SweepStates /\ watched \in Rows /\ pokes \in Nat
  BY DEF WatchInv, WatchShapes
<1>2. /\ mind' \in MindStates /\ mind'.tracked = mind.tracked /\ mind'.at = mind.at
      /\ mind'.stirred = TRUE /\ mind'.wakes = mind.wakes
  BY <1>1, MindHears DEF Stir
<1>3. /\ sweep' \in SweepStates /\ sweep'.pc = sweep.pc /\ sweep'.sign = sweep.sign
      /\ sweep'.stirred = sweep.stirred /\ sweep'.news
  BY <1>1, SweepHears DEF Stir
<1>4. WatchShapes'
  BY <1>1, <1>2, <1>3, AgesHaveEnds DEF Stir, WatchShapes
<1>5. PokesAreCounted'
  BY <1>2, <1>3 DEF WatchInv, PokesAreCounted
<1>6. WindowsPass'
  BY <1>2, <1>3 DEF WatchInv, WindowsPass, SilentFor
<1>7. QED
  BY <1>4, <1>5, <1>6 DEF WatchInv

\* A minute passes between two sweeps: everything is a minute older.
LEMMA MinutesPass == ASSUME WatchInv, MinutePasses PROVE WatchInv'
<1>1. mind \in MindStates /\ sign \in Ages /\ mind.at \in Ages /\ mind.wakes \in Nat
  BY FieldTypes DEF WatchInv, WatchShapes
<1>2. /\ mind' \in MindStates /\ mind'.tracked = mind.tracked /\ mind'.at = Older(mind.at)
      /\ mind'.stirred = mind.stirred /\ mind'.wakes = mind.wakes
  BY <1>1, MindAges, AgesHaveEnds DEF MinutePasses
<1>3. sweep.pc = "rest" /\ sweep' = sweep /\ sign' = Older(sign) /\ pokes' = pokes /\ watched' = watched
  BY DEF MinutePasses
<1>4. ASSUME NEW t \in Ages, NEW n \in Nat, SilentFor(sign, n, t)
      PROVE  SilentFor(Older(sign), n, Older(t))
  <2>1. n * Silence \in Nat
    BY WindowsAreNat
  <2>2. CASE Older(sign) = MaxAge
    BY <2>2 DEF SilentFor
  <2>3. CASE Older(sign) # MaxAge
    <3>1. Older(sign) = sign + 1 /\ sign # MaxAge
      BY <1>1, <2>3, AgesHaveEnds DEF Older
    <3>2. Older(t) \in Nat /\ Older(t) <= t + 1
      BY AgesHaveEnds DEF Older
    <3>3. QED
      BY <1>1, <1>4, <2>1, <3>1, <3>2, AgesHaveEnds DEF SilentFor
  <2>4. QED
    BY <2>2, <2>3
<1>5. WatchShapes'
  BY <1>1, <1>2, <1>3, AgesHaveEnds DEF WatchInv, WatchShapes
<1>6. PokesAreCounted'
  BY <1>2, <1>3 DEF WatchInv, PokesAreCounted
<1>7. WindowsPass'
  BY <1>1, <1>2, <1>3, <1>4 DEF WatchInv, WindowsPass
<1>8. QED
  BY <1>5, <1>6, <1>7 DEF WatchInv

\* The probe: the sweep ends, or takes down the sign it found.
LEMMA ProbesLook == ASSUME WatchInv, SweepProbes PROVE WatchInv'
<1>1. /\ mind \in MindStates /\ sign \in Ages /\ mind.stirred \in BOOLEAN /\ sweep \in SweepStates
      /\ watched \in Rows /\ pokes \in Nat
  BY FieldTypes DEF WatchInv, WatchShapes
<1>2. CASE Candidate /\ workerProcess.alive /\ ~workerProcess.paused
  <2>1. /\ sweep' = [sweep EXCEPT !.pc = "weigh", !.sign = sign, !.stirred = mind.stirred]
        /\ UNCHANGED <<mind, pokes>>
    BY <1>2 DEF SweepProbes, Candidate
  <2>2. /\ sweep' \in SweepStates /\ sweep'.pc = "weigh" /\ sweep'.sign = sign
        /\ sweep'.stirred = mind.stirred
    BY <1>1, <2>1 DEF SweepStates, SweepStages, MindStates
  <2>3. sign' = sign /\ watched' = watched
    BY DEF SweepProbes, agentPart
  <2>4. WatchShapes'
    BY <1>1, <2>1, <2>2, <2>3 DEF WatchShapes
  <2>5. PokesAreCounted'
    BY <2>1, <2>2 DEF WatchInv, PokesAreCounted
  <2>6. WindowsPass'
    BY <2>1, <2>2, <2>3 DEF WatchInv, WindowsPass
  <2>7. QED
    BY <2>4, <2>5, <2>6 DEF WatchInv
<1>3. CASE ~(Candidate /\ workerProcess.alive /\ ~workerProcess.paused)
  <2>1. sweep' = AtRest /\ UNCHANGED <<sign, watched>>
    BY <1>3 DEF SweepProbes, agentPart, Rests
  <2>2. UNCHANGED <<mind, pokes>> \/ Forgets
    BY DEF SweepProbes
  <2>3. QED
    BY <1>1, <2>1, <2>2, SweepEnds, SweepIsCalm
<1>4. QED
  BY <1>2, <1>3

\* The verdict: a wake or the mark only after one more window of silence.
LEMMA VerdictsWait == ASSUME WatchInv, SweepWeighs PROVE WatchInv'
<1>1. /\ mind \in MindStates /\ sweep \in SweepStates /\ watched \in Rows /\ pokes \in Nat
      /\ mind.at \in Ages /\ mind.wakes \in Nat /\ sweep.sign \in Ages /\ sweep.pc = "weigh"
      /\ sign \in Ages
  BY FieldTypes DEF WatchInv, WatchShapes, SweepWeighs
<1>2. sign' = sign /\ watched' = watched
  BY DEF SweepWeighs, agentPart
<1>3. CASE Recovered \/ ~Suspect
  <2>1. sweep' = AtRest /\ (UNCHANGED <<mind, pokes>> \/ Forgets)
    BY <1>3 DEF SweepWeighs, Rests
  <2>2. QED
    BY <1>1, <1>2, <2>1, SweepEnds, SweepIsCalm
<1>4. CASE ~Recovered /\ Suspect
  <2>1. /\ UNCHANGED <<mind, pokes>>
        /\ sweep' = [sweep EXCEPT !.pc = IF Exhausted THEN "mark" ELSE "wake"]
    BY <1>4 DEF SweepWeighs
  <2>2. /\ sweep' \in SweepStates /\ sweep'.sign = sweep.sign /\ sweep'.news = sweep.news
        /\ sweep'.pc = IF Exhausted THEN "mark" ELSE "wake"
    <3>1. CASE Exhausted
      <4>1. sweep' = [sweep EXCEPT !.pc = "mark"]
        BY <2>1, <3>1
      <4>2. /\ sweep' \in SweepStates /\ sweep'.sign = sweep.sign /\ sweep'.news = sweep.news
            /\ sweep'.pc = "mark"
        BY <1>1, <4>1, SweepMoves DEF SweepStages
      <4>3. QED
        BY <3>1, <4>2
    <3>2. CASE ~Exhausted
      <4>1. sweep' = [sweep EXCEPT !.pc = "wake"]
        BY <2>1, <3>2
      <4>2. /\ sweep' \in SweepStates /\ sweep'.sign = sweep.sign /\ sweep'.news = sweep.news
            /\ sweep'.pc = "wake"
        BY <1>1, <4>1, SweepMoves DEF SweepStages
      <4>3. QED
        BY <3>2, <4>2
    <3>3. QED
      BY <3>1, <3>2
  <2>3. SilentFor(sweep.sign, mind.wakes + 1, 0)
    <3>1. sweep.sign > Silence /\ (mind.tracked => mind.at > Silence)
      <4>1. ~(sweep.sign <= Silence) /\ (mind.tracked => ~(mind.at <= Silence))
        BY <1>4 DEF Suspect, Anchored
      <4>2. sweep.sign \in Nat /\ mind.at \in Nat /\ Silence \in Nat
        BY <1>1, AgesAreNat, AgesAreCapped
      <4>3. sweep.sign > Silence
        BY <4>1, <4>2
      <4>4. ASSUME mind.tracked PROVE mind.at > Silence
        <5>1. ~(mind.at <= Silence)
          BY <4>1, <4>4
        <5>2. QED
          BY <4>2, <5>1
      <4>5. QED
        BY <4>3, <4>4
    <3>2. CASE mind.tracked
      <4>1. SilentFor(sweep.sign, mind.wakes, mind.at)
        BY <1>1, <1>4, <3>2 DEF Recovered, WatchInv, WindowsPass
      <4>2. mind.wakes * Silence \in Nat /\ (mind.wakes + 1) * Silence = mind.wakes * Silence + Silence
        BY <1>1, WindowsAreNat
      <4>3. QED
        <5>1. mind.at \in Nat /\ mind.at > Silence /\ sweep.sign \in Nat /\ Silence \in Nat
          BY <1>1, <3>1, <3>2, AgesAreNat, AgesAreCapped
        <5>2. QED
          BY <5>1, <4>1, <4>2 DEF SilentFor
    <3>3. CASE ~mind.tracked
      <4>1. mind.wakes = 0
        BY <3>3 DEF WatchInv, PokesAreCounted
      <4>2. (mind.wakes + 1) * Silence = Silence
        BY <4>1, AgesAreCapped
      <4>3. QED
        <5>1. sweep.sign \in Nat /\ Silence \in Nat /\ sweep.sign > Silence
          BY <1>1, <3>1, AgesAreNat, AgesAreCapped
        <5>2. QED
          BY <5>1, <4>2 DEF SilentFor
    <3>4. QED
      BY <3>2, <3>3
  <2>4. /\ Exhausted => mind.wakes = MaxWakes
        /\ ~Exhausted => mind.wakes < MaxWakes
    BY <1>1, AgesAreCapped DEF Exhausted, WatchInv, PokesAreCounted
  <2>5. WatchShapes'
    BY <1>1, <1>2, <2>1, <2>2 DEF WatchShapes
  <2>6. PokesAreCounted'
    BY <2>1, <2>2, <2>4 DEF WatchInv, PokesAreCounted
  <2>7. WindowsPass'
    BY <1>1, <1>2, <2>1, <2>2, <2>3, <2>4 DEF WatchInv, WindowsPass
  <2>8. QED
    BY <2>5, <2>6, <2>7 DEF WatchInv
<1>5. QED
  BY <1>3, <1>4

\* A wake is counted, and the window starts anew.
LEMMA WakesCount == ASSUME WatchInv, SweepWakes PROVE WatchInv'
<1>1. /\ watched \in Rows /\ pokes \in Nat /\ mind.wakes \in Nat /\ sign \in Ages /\ sweep.pc = "wake"
      /\ sweep.news \in BOOLEAN
  BY FieldTypes DEF WatchInv, WatchShapes, SweepWakes
<1>2. sign' = sign /\ watched' = watched /\ sweep' = AtRest /\ pokes' = pokes + 1
  BY DEF SweepWakes, agentPart, Rests
<1>3. /\ mind' \in MindStates /\ mind'.tracked = TRUE /\ mind'.at = 0
      /\ mind'.stirred = sweep.news /\ mind'.wakes = mind.wakes + 1
  BY <1>1, MindCounts DEF SweepWakes
<1>4. ~sweep.news => SilentFor(sign, mind.wakes + 1, 0)
  BY <1>1 DEF WatchInv, WindowsPass
<1>5. WatchShapes'
  BY <1>1, <1>2, <1>3, SweepEnds DEF WatchShapes
<1>6. pokes = mind.wakes /\ mind.wakes < MaxWakes
  BY <1>1 DEF WatchInv, PokesAreCounted
<1>7. pokes' = mind'.wakes /\ mind'.wakes <= MaxWakes
  BY <1>1, <1>2, <1>3, <1>6, AgesAreCapped
<1>8. PokesAreCounted'
  BY <1>2, <1>3, <1>7, SweepEnds DEF PokesAreCounted
<1>9. WindowsPass'
  BY <1>2, <1>3, <1>4, SweepEnds DEF WindowsPass
<1>10. QED
  BY <1>5, <1>8, <1>9 DEF WatchInv

\* The invariant holds at the start.
LEMMA WatchStart == WatchInit => WatchInv
<1>  SUFFICES ASSUME WatchInit PROVE WatchInv
  OBVIOUS
<1>1. WatchShapes
  BY AgesHaveEnds, MindForgets, SweepEnds DEF WatchInit, WatchShapes, Rows
<1>2. mind.tracked = FALSE /\ mind.wakes = 0 /\ pokes = 0 /\ sweep.pc = "rest"
  BY MindForgets, SweepEnds DEF WatchInit
<1>3. QED
  BY <1>1, <1>2, AgesAreCapped DEF WatchInv, PokesAreCounted, WindowsPass

\* Every step keeps it.
LEMMA WatchSteps == ASSUME WatchInv, [WatchNext]_watchVars PROVE WatchInv'
<1>1. sweep \in SweepStates /\ watched \in Rows
  BY DEF WatchInv, WatchShapes
<1>2. CASE MinutePasses
  BY <1>2, MinutesPass
<1>3. CASE SweepReads
  <2>1. sweep' \in SweepStates /\ sweep'.pc = "recover"
    BY <1>1, <1>3, SweepBegins DEF SweepReads
  <2>2. QED
    BY <1>1, <1>3, <2>1, SweepIsCalm DEF SweepReads, agentPart
<1>4. CASE SweepRecovers
  <2>1. sweep' \in SweepStates /\ sweep'.pc = "probe"
    BY <1>1, <1>4, SweepMoves DEF SweepRecovers, SweepStages
  <2>2. watched' \in Rows
    BY <1>1, <1>4, RowsAreWritten DEF SweepRecovers
  <2>3. UNCHANGED sign /\ (UNCHANGED <<mind, pokes>> \/ Forgets)
    BY <1>4 DEF SweepRecovers
  <2>4. QED
    BY <2>1, <2>2, <2>3, SweepIsCalm
<1>5. CASE SweepProbes
  BY <1>5, ProbesLook
<1>6. CASE SweepWeighs
  BY <1>6, VerdictsWait
<1>7. CASE SweepWakes
  BY <1>7, WakesCount
<1>8. CASE SweepMarks
  <2>1. watched' \in Rows /\ sweep' = AtRest /\ UNCHANGED <<sign, mind, pokes>>
    BY <1>1, <1>8, RowsAreWritten DEF SweepMarks, Rests
  <2>2. QED
    BY <2>1, SweepEnds, SweepIsCalm
<1>9. CASE SweepTrips
  <2>1. sweep' \in SweepStates /\ sweep'.pc \in {"probe", "rest"}
    <3>1. CASE sweep' = [sweep EXCEPT !.pc = "probe"]
      BY <1>1, <3>1, SweepMoves DEF SweepStages
    <3>2. CASE sweep' = AtRest
      BY <3>2, SweepEnds
    <3>3. QED
      BY <1>9, <3>1, <3>2 DEF SweepTrips, Rests
  <2>2. QED
    BY <1>1, <1>9, <2>1, SweepIsCalm DEF SweepTrips, agentPart
<1>10. CASE Stirs \/ Delivers
  BY <1>10, StirIsHeard DEF Stirs, Delivers
<1>11. CASE Depends \/ Pauses \/ WorkerDies
  BY <1>1, <1>11, OthersMove DEF Depends, Pauses, WorkerDies
<1>12. CASE WorkerReady \/ OtherErrs \/ ExitIsRecorded
  BY <1>1, <1>12, OthersMove, RowsAreWritten DEF WorkerReady, OtherErrs, ExitIsRecorded
<1>13. CASE UNCHANGED watchVars
  BY <1>1, <1>13, OthersMove DEF watchVars
<1>14. QED
  BY <1>2, <1>3, <1>4, <1>5, <1>6, <1>7, <1>8, <1>9, <1>10, <1>11, <1>12, <1>13
     DEF WatchNext, SweepStep

\* The invariant of the detector, for any silence and any number of wakes.
LEMMA WatchIsSound == WatchSpec => []WatchInv
  BY WatchStart, WatchSteps, PTL DEF WatchSpec

\* A mark is made after one window of silence per wake and one more.
LEMMA MarksAreLate == WatchInv => (SweepMarks => sweep.sign > (MaxWakes + 1) * Silence)
<1>  SUFFICES ASSUME WatchInv, SweepMarks PROVE sweep.sign > (MaxWakes + 1) * Silence
  OBVIOUS
<1>1. SilentFor(sweep.sign, MaxWakes + 1, 0) /\ sweep.sign \in Ages
  BY FieldTypes DEF SweepMarks, WatchInv, WindowsPass, WatchShapes
<1>2. (MaxWakes + 1) * Silence \in Nat
  BY AgesAreCapped
<1>3. sweep.sign \in Nat /\ MaxAge = (MaxWakes + 1) * Silence + 1
  BY <1>1, AgesAreNat, AgesAreCapped
<1>4. QED
  BY <1>1, <1>2, <1>3 DEF SilentFor

\* The pokes are bounded and the marks are late, whatever stirs, pauses, fails or is
\* recorded by others meanwhile (decide, stuck_watchdog.rs).
LEMMA WatchIsPatient == WatchSpec => []PokesAreBounded /\ MarkNeedsSilence
<1>1. WatchInv => PokesAreBounded
  BY DEF WatchInv, PokesAreCounted, PokesAreBounded
<1>2. WatchInv => [SweepMarks => sweep.sign > (MaxWakes + 1) * Silence]_watchVars
  BY MarksAreLate
<1>3. QED
  BY <1>1, <1>2, WatchIsSound, PTL DEF MarkNeedsSilence

-----------------------------------------------------------------------------
\* A captain is a number, and not that of nobody.
LEMMA NoneIsNobody == None \notin Captains /\ Captains \subseteq Nat
  BY LifeAssumption DEF None

\* What writes a row, and what becomes of its fields.
LEMMA RowMoves ==
  ASSUME NEW r \in RowStates
  PROVE  /\ NoRow \in RowStates /\ NoRow.there = FALSE /\ NoRow.ended = FALSE
         /\ [NoRow EXCEPT !.there = TRUE] \in RowStates
         /\ [r EXCEPT !.pid = TRUE] \in RowStates
         /\ [r EXCEPT !.ended = TRUE] \in RowStates
         /\ [r EXCEPT !.ended = TRUE].ended = TRUE
         /\ [r EXCEPT !.ended = TRUE].there = r.there
         /\ [r EXCEPT !.ended = TRUE, !.boot = TRUE] \in RowStates
  BY DEF RowStates, NoRow

\* How the reaper goes on.
LEMMA ReaperResumes ==
  ASSUME NEW s \in ReaperStates, NEW p \in {"sweep", "extra", "boot"}
  PROVE  LET t == [s EXCEPT !.at = None, !.pc = p] IN
           t \in ReaperStates /\ t.pc = p /\ t.at = None /\ t.victims = s.victims
  BY DEF ReaperStates

\* The reaper takes its next victim out, or passes over it.
LEMMA ReapsNext ==
  ASSUME LifeShapes, NEW a \in Captains, ReapNext(a)
  PROVE  /\ reaper' \in ReaperStates /\ reaper'.pc \in {"sweep", "extra"}
         /\ reaper'.victims \subseteq reaper.victims
         /\ \/ /\ a \in registry /\ reaper'.at = a /\ reaper'.pc = "extra"
               /\ TakeOut(a)
            \/ reaper'.at = None /\ UNCHANGED <<registry, teardown>>
<1>1. reaper \in ReaperStates /\ reaper.pc = "extra" /\ reaper.at = None
  BY DEF LifeShapes, ReapNext
<1>2. CASE a \in registry
  <2>1. reaper' = [reaper EXCEPT !.victims = @ \ {a}, !.at = a] /\ TakeOut(a)
    BY <1>2 DEF ReapNext
  <2>2. QED
    BY <1>1, <1>2, <2>1 DEF ReaperStates
<1>3. CASE a \notin registry
  <2>1. PICK p \in {"sweep", "extra"} : reaper' = [reaper EXCEPT !.victims = @ \ {a}, !.pc = p]
    <3>1. CASE reaper.victims = {a}
      BY <1>3, <3>1 DEF ReapNext
    <3>2. CASE reaper.victims # {a}
      BY <1>1, <1>3, <3>2 DEF ReapNext
    <3>3. QED
      BY <3>1, <3>2
  <2>2. UNCHANGED <<registry, teardown>>
    BY <1>3 DEF ReapNext
  <2>3. QED
    BY <1>1, <2>1, <2>2 DEF ReaperStates
<1>4. QED
  BY <1>2, <1>3

\* The reaper goes on once the teardown it made is recorded.
LEMMA KillIsRecorded ==
  ASSUME LifeShapes, NEW a \in Captains, RecordKill(a)
  PROVE  /\ reaper' \in ReaperStates
         /\ row' \in [Captains -> RowStates]
         /\ \A c \in Captains : row'[c].there = row[c].there /\ (c # a => row'[c] = row[c])
         /\ row'[a].ended \/ mishap'
<1>1. reaper \in ReaperStates /\ row \in [Captains -> RowStates]
  BY DEF LifeShapes
<1>2. reaper' \in ReaperStates
  <2>1. PICK p \in {"sweep", "extra"} : Resume = [reaper EXCEPT !.at = None, !.pc = p]
    <3>1. CASE reaper.victims = {}
      BY <3>1 DEF Resume
    <3>2. CASE reaper.victims # {}
      BY <3>2 DEF Resume
    <3>3. QED
      BY <3>1, <3>2
  <2>2. Resume \in ReaperStates
    BY <1>1, <2>1, ReaperResumes
  <2>3. QED
    BY <1>1, <2>2 DEF RecordKill
<1>3. CASE row' = [row EXCEPT ![a].ended = TRUE]
  <2>1. [row[a] EXCEPT !.ended = TRUE] \in RowStates
    BY <1>1, RowMoves
  <2>2. row' = [row EXCEPT ![a] = [row[a] EXCEPT !.ended = TRUE]]
    BY <1>3
  <2>3. QED
    BY <1>1, <1>2, <2>1, <2>2, RowMoves
<1>4. CASE row' = row /\ mishap'
  BY <1>1, <1>2, <1>4
<1>5. QED
  BY <1>3, <1>4 DEF RecordKill

\* Among captains there is one that no other beats (duplicate_orchestrators_to_reap
\* always keeps one).
LEMMA KeeperExists ==
  ASSUME NEW S \in SUBSET Captains, S # {}
  PROVE  \E k \in S : \A c \in S : ~Beats(c, k)
<1>1. \A a \in S : Life(a) \in 0 .. 2
  BY DEF Life
<1>2. PICK n \in 0 .. 2 : (\E a \in S : Life(a) = n) /\ \A a \in S : Life(a) <= n
  <2>1. CASE \E a \in S : Life(a) = 2
    BY <1>1, <2>1
  <2>2. CASE ~(\E a \in S : Life(a) = 2) /\ \E a \in S : Life(a) = 1
    BY <1>1, <2>2
  <2>3. CASE \A a \in S : Life(a) = 0
    BY <2>3
  <2>4. QED
    BY <1>1, <2>1, <2>2, <2>3
<1>  DEFINE T == {a \in S : Life(a) = n}
<1>3. PICK k \in T : \A c \in T : ~(c < k)
  BY <1>2, NoneIsNobody, LeastNumber
<1>4. ASSUME NEW c \in S PROVE ~Beats(c, k)
  BY <1>1, <1>2, <1>3, <1>4 DEF Beats
<1>5. QED
  BY <1>3, <1>4

\* A step keeps every variable in its shape.
LEMMA LifeShapeStep == ASSUME LifeShapes, [LifeNext]_lifeVars PROVE LifeShapes'
<1>1. ASSUME NEW a \in Captains, LookForCaptain(a) PROVE LifeShapes'
  BY <1>1, NoneIsNobody DEF LookForCaptain, Stage, Pay, LifeShapes, SpawnStages,
     RowStates, ReaperStates
<1>2. ASSUME NEW a \in Captains, CheckLiveCap(a) PROVE LifeShapes'
  BY <1>2, NoneIsNobody DEF CheckLiveCap, Stage, LifeShapes, SpawnStages, RowStates,
     ReaperStates
<1>3. ASSUME NEW a \in Captains, Fork(a) PROVE LifeShapes'
  BY <1>3, NoneIsNobody DEF Fork, Stage, LifeShapes, SpawnStages, RowStates,
     ReaperStates
<1>4. ASSUME NEW a \in Captains, RecordSpawn(a) PROVE LifeShapes'
  <2>1. row' \in [Captains -> RowStates]
    BY <1>4, RowMoves DEF RecordSpawn, LifeShapes
  <2>2. QED
    BY <1>4, <2>1 DEF RecordSpawn, Stage, LifeShapes, SpawnStages
<1>5. ASSUME NEW a \in Captains, Subscribe(a) PROVE LifeShapes'
  BY <1>5, NoneIsNobody DEF Subscribe, Stage, LifeShapes, SpawnStages, RowStates,
     ReaperStates
<1>6. ASSUME NEW a \in Captains, Enroll(a) PROVE LifeShapes'
  BY <1>6, NoneIsNobody DEF Enroll, Stage, LifeShapes, SpawnStages, RowStates,
     ReaperStates
<1>7. ASSUME NEW a \in Captains, DropSpawn(a) PROVE LifeShapes'
  BY <1>7, NoneIsNobody DEF DropSpawn, Stage, Pay, NoRow, LifeShapes, SpawnStages,
     RowStates, ReaperStates
<1>8. ASSUME NEW a \in Captains, NEW s \in {"active", "error"}, Shows(a, s) PROVE LifeShapes'
  BY <1>8, NoneIsNobody DEF Shows, LifeShapes, SpawnStages, RowStates, ReaperStates
<1>9. ASSUME NEW a \in Captains, EndsMarked(a) PROVE LifeShapes'
  BY <1>9, NoneIsNobody DEF EndsMarked, Pay, LifeShapes, SpawnStages, RowStates,
     ReaperStates
<1>10. ASSUME NEW a \in Captains, EndsUnmarked(a) PROVE LifeShapes'
  BY <1>10, NoneIsNobody DEF EndsUnmarked, Pay, LifeShapes, SpawnStages, RowStates,
     ReaperStates
<1>11. ASSUME NEW a \in Captains, RecordExit(a) PROVE LifeShapes'
  BY <1>11, NoneIsNobody DEF RecordExit, LifeShapes, SpawnStages, RowStates,
     ReaperStates
<1>12. ASSUME NEW a \in Captains, Kill(a) PROVE LifeShapes'
  BY <1>12, NoneIsNobody DEF Kill, TakeOut, Pay, LifeShapes, SpawnStages, RowStates,
     ReaperStates
<1>13. ASSUME NEW a \in Captains, KillProcess(a) PROVE LifeShapes'
  BY <1>13, NoneIsNobody DEF KillProcess, LifeShapes, SpawnStages, RowStates,
     ReaperStates
<1>14. ASSUME NEW a \in Captains, RecordKill(a) PROVE LifeShapes'
  <2>1. reaper' \in ReaperStates /\ row' \in [Captains -> RowStates]
    BY <1>14, KillIsRecorded
  <2>2. QED
    BY <1>14, <2>1 DEF RecordKill, LifeShapes
<1>15. ASSUME NEW a \in Captains, WriteLedger(a) PROVE LifeShapes'
  <2>1. row' = [row EXCEPT ![a] = [row[a] EXCEPT !.pid = TRUE]]
    BY <1>15 DEF WriteLedger
  <2>2. [row[a] EXCEPT !.pid = TRUE] \in RowStates
    BY RowMoves DEF LifeShapes
  <2>3. QED
    BY <1>15, <2>1, <2>2 DEF WriteLedger, LifeShapes
<1>16. ASSUME NEW a \in Captains, DetectExit(a) PROVE LifeShapes'
  BY <1>16, NoneIsNobody DEF DetectExit, Sweeping, LifeShapes, SpawnStages, RowStates,
     ReaperStates
<1>17. ASSUME NEW a \in Captains, Evict(a) PROVE LifeShapes'
  BY <1>17, NoneIsNobody DEF Evict, Sweeping, LifeShapes, SpawnStages, RowStates,
     ReaperStates
<1>18. ASSUME NEW a \in Captains, ReapNext(a) PROVE LifeShapes'
  <2>1. /\ reaper' \in ReaperStates
        /\ TakeOut(a) \/ UNCHANGED <<registry, teardown>>
    BY <1>18, ReapsNext
  <2>2. QED
    BY <1>18, <2>1 DEF ReapNext, TakeOut, LifeShapes
<1>19. ASSUME FindExtra PROVE LifeShapes'
  BY <1>19, NoneIsNobody DEF FindExtra, Candidates, ListedLive, Duplicates,
     LifeShapes, SpawnStages, RowStates, ReaperStates
<1>20. ASSUME BootReap PROVE LifeShapes'
  BY <1>20, NoneIsNobody DEF BootReap, LifeShapes, SpawnStages, RowStates,
     ReaperStates
<1>21. ASSUME ServerCrashes PROVE LifeShapes'
  <2>1. \A c \in Captains : [row[c] EXCEPT !.ended = TRUE, !.boot = TRUE] \in RowStates
    BY RowMoves DEF LifeShapes
  <2>2. row' \in [Captains -> RowStates]
    BY <1>21, <2>1 DEF ServerCrashes, LifeShapes
  <2>3. reaper' \in ReaperStates
    BY <1>21 DEF ServerCrashes, ReaperStates
  <2>4. captainProcess' \in [Captains -> {"none", "up", "dead"}]
    BY <1>21 DEF ServerCrashes, LifeShapes
  <2>5. QED
    BY <1>21, <2>2, <2>3, <2>4 DEF ServerCrashes, LifeShapes, SpawnStages
<1>22. CASE UNCHANGED lifeVars
  BY <1>22 DEF lifeVars, LifeShapes, SpawnStages, RowStates, ReaperStates
<1>23. QED
  BY <1>1, <1>2, <1>3, <1>4, <1>5, <1>6, <1>7, <1>8, <1>9, <1>10, <1>11, <1>12, <1>13,
     <1>14, <1>15, <1>16, <1>17, <1>18, <1>19, <1>20, <1>21, <1>22 DEF LifeNext,
     SpawnSteps, TeardownSteps, ReaperSteps

\* The reaper takes the next victim when the one before is done with.
LEMMA TeardownStep == ASSUME LifeShapes, OneTeardown, UpOrRecorded, KeeperLives, ~mishap, ~mishap', [LifeNext]_lifeVars PROVE OneTeardown'
<1>1. ASSUME NEW a \in Captains, LookForCaptain(a) PROVE OneTeardown'
  BY <1>1, NoneIsNobody DEF LookForCaptain, Stage, Pay, LifeShapes, SpawnStages,
     RowStates, ReaperStates, OneTeardown, UpOrRecorded, KeeperLives, Alive
<1>2. ASSUME NEW a \in Captains, CheckLiveCap(a) PROVE OneTeardown'
  BY <1>2, NoneIsNobody DEF CheckLiveCap, Stage, LifeShapes, SpawnStages, RowStates,
     ReaperStates, OneTeardown, UpOrRecorded, KeeperLives, Alive
<1>3. ASSUME NEW a \in Captains, Fork(a) PROVE OneTeardown'
  BY <1>3, NoneIsNobody DEF Fork, Stage, LifeShapes, SpawnStages, RowStates,
     ReaperStates, OneTeardown, UpOrRecorded, KeeperLives, Alive
<1>4. ASSUME NEW a \in Captains, RecordSpawn(a) PROVE OneTeardown'
  BY <1>4, NoneIsNobody DEF RecordSpawn, Stage, Pay, NoRow, LifeShapes, SpawnStages,
     RowStates, ReaperStates, OneTeardown, UpOrRecorded, KeeperLives, Alive
<1>5. ASSUME NEW a \in Captains, Subscribe(a) PROVE OneTeardown'
  BY <1>5, NoneIsNobody DEF Subscribe, Stage, LifeShapes, SpawnStages, RowStates,
     ReaperStates, OneTeardown, UpOrRecorded, KeeperLives, Alive
<1>6. ASSUME NEW a \in Captains, Enroll(a) PROVE OneTeardown'
  BY <1>6, NoneIsNobody DEF Enroll, Stage, LifeShapes, SpawnStages, RowStates,
     ReaperStates, OneTeardown, UpOrRecorded, KeeperLives, Alive
<1>7. ASSUME NEW a \in Captains, DropSpawn(a) PROVE OneTeardown'
  BY <1>7, NoneIsNobody DEF DropSpawn, Stage, Pay, NoRow, LifeShapes, SpawnStages,
     RowStates, ReaperStates, OneTeardown, UpOrRecorded, KeeperLives, Alive
<1>8. ASSUME NEW a \in Captains, NEW s \in {"active", "error"}, Shows(a, s) PROVE OneTeardown'
  BY <1>8, NoneIsNobody DEF Shows, LifeShapes, SpawnStages, RowStates, ReaperStates,
     OneTeardown, UpOrRecorded, KeeperLives, Alive
<1>9. ASSUME NEW a \in Captains, EndsMarked(a) PROVE OneTeardown'
  BY <1>9, NoneIsNobody DEF EndsMarked, Pay, LifeShapes, SpawnStages, RowStates,
     ReaperStates, OneTeardown, UpOrRecorded, KeeperLives, Alive
<1>10. ASSUME NEW a \in Captains, EndsUnmarked(a) PROVE OneTeardown'
  BY <1>10, NoneIsNobody DEF EndsUnmarked, Pay, LifeShapes, SpawnStages, RowStates,
     ReaperStates, OneTeardown, UpOrRecorded, KeeperLives, Alive
<1>11. ASSUME NEW a \in Captains, RecordExit(a) PROVE OneTeardown'
  BY <1>11, NoneIsNobody DEF RecordExit, LifeShapes, SpawnStages, RowStates,
     ReaperStates, OneTeardown, UpOrRecorded, KeeperLives, Alive
<1>12. ASSUME NEW a \in Captains, Kill(a) PROVE OneTeardown'
  BY <1>12, NoneIsNobody DEF Kill, TakeOut, Pay, LifeShapes, SpawnStages, RowStates,
     ReaperStates, OneTeardown, UpOrRecorded, KeeperLives, Alive
<1>13. ASSUME NEW a \in Captains, KillProcess(a) PROVE OneTeardown'
  BY <1>13, NoneIsNobody DEF KillProcess, LifeShapes, SpawnStages, RowStates,
     ReaperStates, OneTeardown, UpOrRecorded, KeeperLives, Alive
<1>14. ASSUME NEW a \in Captains, RecordKill(a) PROVE OneTeardown'
  BY <1>14, NoneIsNobody DEF RecordKill, Resume, Pay, LifeShapes, SpawnStages,
     RowStates, ReaperStates, OneTeardown, UpOrRecorded, KeeperLives, Alive
<1>15. ASSUME NEW a \in Captains, WriteLedger(a) PROVE OneTeardown'
  BY <1>15, NoneIsNobody DEF WriteLedger, Sweeping, LifeShapes, SpawnStages,
     RowStates, ReaperStates, OneTeardown, UpOrRecorded, KeeperLives, Alive
<1>16. ASSUME NEW a \in Captains, DetectExit(a) PROVE OneTeardown'
  BY <1>16, NoneIsNobody DEF DetectExit, Sweeping, LifeShapes, SpawnStages, RowStates,
     ReaperStates, OneTeardown, UpOrRecorded, KeeperLives, Alive
<1>17. ASSUME NEW a \in Captains, Evict(a) PROVE OneTeardown'
  BY <1>17, NoneIsNobody DEF Evict, Sweeping, LifeShapes, SpawnStages, RowStates,
     ReaperStates, OneTeardown, UpOrRecorded, KeeperLives, Alive
<1>18. ASSUME NEW a \in Captains, ReapNext(a) PROVE OneTeardown'
  <2>1. reaper.pc = "extra" /\ reaper.at = None
    BY <1>18 DEF ReapNext
  <2>2. \A c \in Captains : teardown[c] = "no"
    BY <2>1, NoneIsNobody DEF OneTeardown
  <2>3. QED
    BY <1>18, <2>1, <2>2, ReapsNext DEF OneTeardown, TakeOut, LifeShapes
<1>19. ASSUME FindExtra PROVE OneTeardown'
  BY <1>19, NoneIsNobody DEF FindExtra, Candidates, ListedLive, Duplicates,
     LifeShapes, SpawnStages, RowStates, ReaperStates, OneTeardown, UpOrRecorded,
     KeeperLives, Alive
<1>20. ASSUME BootReap PROVE OneTeardown'
  BY <1>20, NoneIsNobody DEF BootReap, LifeShapes, SpawnStages, RowStates,
     ReaperStates, OneTeardown, UpOrRecorded, KeeperLives, Alive
<1>21. ASSUME ServerCrashes PROVE OneTeardown'
  BY <1>21, NoneIsNobody DEF ServerCrashes, ListedLive, Pay, LifeShapes, SpawnStages,
     RowStates, ReaperStates, OneTeardown, UpOrRecorded, KeeperLives, Alive
<1>22. CASE UNCHANGED lifeVars
  BY <1>22 DEF lifeVars, LifeShapes, SpawnStages, RowStates, ReaperStates,
     OneTeardown, UpOrRecorded, KeeperLives, Alive
<1>23. QED
  BY <1>1, <1>2, <1>3, <1>4, <1>5, <1>6, <1>7, <1>8, <1>9, <1>10, <1>11, <1>12, <1>13,
     <1>14, <1>15, <1>16, <1>17, <1>18, <1>19, <1>20, <1>21, <1>22 DEF LifeNext,
     SpawnSteps, TeardownSteps, ReaperSteps

\* A captain goes down in a teardown, and the teardown records it.
LEMMA RecordStep == ASSUME LifeShapes, OneTeardown, UpOrRecorded, KeeperLives, ~mishap, ~mishap', [LifeNext]_lifeVars PROVE UpOrRecorded'
<1>1. ASSUME NEW a \in Captains, LookForCaptain(a) PROVE UpOrRecorded'
  BY <1>1, NoneIsNobody DEF LookForCaptain, Stage, Pay, LifeShapes, SpawnStages,
     RowStates, ReaperStates, OneTeardown, UpOrRecorded, KeeperLives, Alive
<1>2. ASSUME NEW a \in Captains, CheckLiveCap(a) PROVE UpOrRecorded'
  BY <1>2, NoneIsNobody DEF CheckLiveCap, Stage, LifeShapes, SpawnStages, RowStates,
     ReaperStates, OneTeardown, UpOrRecorded, KeeperLives, Alive
<1>3. ASSUME NEW a \in Captains, Fork(a) PROVE UpOrRecorded'
  BY <1>3, NoneIsNobody DEF Fork, Stage, LifeShapes, SpawnStages, RowStates,
     ReaperStates, OneTeardown, UpOrRecorded, KeeperLives, Alive
<1>4. ASSUME NEW a \in Captains, RecordSpawn(a) PROVE UpOrRecorded'
  BY <1>4, NoneIsNobody DEF RecordSpawn, Stage, Pay, NoRow, LifeShapes, SpawnStages,
     RowStates, ReaperStates, OneTeardown, UpOrRecorded, KeeperLives, Alive
<1>5. ASSUME NEW a \in Captains, Subscribe(a) PROVE UpOrRecorded'
  BY <1>5, NoneIsNobody DEF Subscribe, Stage, LifeShapes, SpawnStages, RowStates,
     ReaperStates, OneTeardown, UpOrRecorded, KeeperLives, Alive
<1>6. ASSUME NEW a \in Captains, Enroll(a) PROVE UpOrRecorded'
  BY <1>6, NoneIsNobody DEF Enroll, Stage, LifeShapes, SpawnStages, RowStates,
     ReaperStates, OneTeardown, UpOrRecorded, KeeperLives, Alive
<1>7. ASSUME NEW a \in Captains, DropSpawn(a) PROVE UpOrRecorded'
  BY <1>7, NoneIsNobody DEF DropSpawn, Stage, Pay, NoRow, LifeShapes, SpawnStages,
     RowStates, ReaperStates, OneTeardown, UpOrRecorded, KeeperLives, Alive
<1>8. ASSUME NEW a \in Captains, NEW s \in {"active", "error"}, Shows(a, s) PROVE UpOrRecorded'
  BY <1>8, NoneIsNobody DEF Shows, LifeShapes, SpawnStages, RowStates, ReaperStates,
     OneTeardown, UpOrRecorded, KeeperLives, Alive
<1>9. ASSUME NEW a \in Captains, EndsMarked(a) PROVE UpOrRecorded'
  BY <1>9, NoneIsNobody DEF EndsMarked, Pay, LifeShapes, SpawnStages, RowStates,
     ReaperStates, OneTeardown, UpOrRecorded, KeeperLives, Alive
<1>10. ASSUME NEW a \in Captains, EndsUnmarked(a) PROVE UpOrRecorded'
  BY <1>10, NoneIsNobody DEF EndsUnmarked, Pay, LifeShapes, SpawnStages, RowStates,
     ReaperStates, OneTeardown, UpOrRecorded, KeeperLives, Alive
<1>11. ASSUME NEW a \in Captains, RecordExit(a) PROVE UpOrRecorded'
  BY <1>11, NoneIsNobody DEF RecordExit, LifeShapes, SpawnStages, RowStates,
     ReaperStates, OneTeardown, UpOrRecorded, KeeperLives, Alive
<1>12. ASSUME NEW a \in Captains, Kill(a) PROVE UpOrRecorded'
  BY <1>12, NoneIsNobody DEF Kill, TakeOut, Pay, LifeShapes, SpawnStages, RowStates,
     ReaperStates, OneTeardown, UpOrRecorded, KeeperLives, Alive
<1>13. ASSUME NEW a \in Captains, KillProcess(a) PROVE UpOrRecorded'
  BY <1>13, NoneIsNobody DEF KillProcess, LifeShapes, SpawnStages, RowStates,
     ReaperStates, OneTeardown, UpOrRecorded, KeeperLives, Alive
<1>14. ASSUME NEW a \in Captains, RecordKill(a) PROVE UpOrRecorded'
  <2>1. /\ \A c \in Captains : row'[c].there = row[c].there /\ (c # a => row'[c] = row[c])
        /\ row'[a].ended
    BY <1>14, KillIsRecorded
  <2>2. UNCHANGED <<spawn, captainProcess, registry>> /\ teardown' = [teardown EXCEPT ![a] = "no"]
    BY <1>14 DEF RecordKill
  <2>3. QED
    BY <1>14, <2>1, <2>2 DEF UpOrRecorded, LifeShapes
<1>15. ASSUME NEW a \in Captains, WriteLedger(a) PROVE UpOrRecorded'
  BY <1>15, NoneIsNobody DEF WriteLedger, Sweeping, LifeShapes, SpawnStages,
     RowStates, ReaperStates, OneTeardown, UpOrRecorded, KeeperLives, Alive
<1>16. ASSUME NEW a \in Captains, DetectExit(a) PROVE UpOrRecorded'
  BY <1>16, NoneIsNobody DEF DetectExit, Sweeping, LifeShapes, SpawnStages, RowStates,
     ReaperStates, OneTeardown, UpOrRecorded, KeeperLives, Alive
<1>17. ASSUME NEW a \in Captains, Evict(a) PROVE UpOrRecorded'
  BY <1>17, NoneIsNobody DEF Evict, Sweeping, LifeShapes, SpawnStages, RowStates,
     ReaperStates, OneTeardown, UpOrRecorded, KeeperLives, Alive
<1>18. ASSUME NEW a \in Captains, ReapNext(a) PROVE UpOrRecorded'
  BY <1>18, NoneIsNobody DEF ReapNext, TakeOut, LifeShapes, SpawnStages, RowStates,
     ReaperStates, OneTeardown, UpOrRecorded, KeeperLives, Alive
<1>19. ASSUME FindExtra PROVE UpOrRecorded'
  BY <1>19, NoneIsNobody DEF FindExtra, Candidates, ListedLive, Duplicates,
     LifeShapes, SpawnStages, RowStates, ReaperStates, OneTeardown, UpOrRecorded,
     KeeperLives, Alive
<1>20. ASSUME BootReap PROVE UpOrRecorded'
  BY <1>20, NoneIsNobody DEF BootReap, LifeShapes, SpawnStages, RowStates,
     ReaperStates, OneTeardown, UpOrRecorded, KeeperLives, Alive
<1>21. ASSUME ServerCrashes PROVE UpOrRecorded'
  BY <1>21, NoneIsNobody DEF ServerCrashes, ListedLive, Pay, LifeShapes, SpawnStages,
     RowStates, ReaperStates, OneTeardown, UpOrRecorded, KeeperLives, Alive
<1>22. CASE UNCHANGED lifeVars
  BY <1>22 DEF lifeVars, LifeShapes, SpawnStages, RowStates, ReaperStates,
     OneTeardown, UpOrRecorded, KeeperLives, Alive
<1>23. QED
  BY <1>1, <1>2, <1>3, <1>4, <1>5, <1>6, <1>7, <1>8, <1>9, <1>10, <1>11, <1>12, <1>13,
     <1>14, <1>15, <1>16, <1>17, <1>18, <1>19, <1>20, <1>21, <1>22 DEF LifeNext,
     SpawnSteps, TeardownSteps, ReaperSteps

\* The keeper is no victim of the sweep that chose it, and nobody else takes it down.
LEMMA KeeperStep == ASSUME LifeShapes, OneTeardown, UpOrRecorded, KeeperLives, ~mishap, ~mishap', [LifeNext]_lifeVars PROVE KeeperLives'
<1>1. ASSUME NEW a \in Captains, LookForCaptain(a) PROVE KeeperLives'
  BY <1>1, NoneIsNobody DEF LookForCaptain, Stage, Pay, LifeShapes, SpawnStages,
     RowStates, ReaperStates, OneTeardown, UpOrRecorded, KeeperLives, Alive
<1>2. ASSUME NEW a \in Captains, CheckLiveCap(a) PROVE KeeperLives'
  BY <1>2, NoneIsNobody DEF CheckLiveCap, Stage, LifeShapes, SpawnStages, RowStates,
     ReaperStates, OneTeardown, UpOrRecorded, KeeperLives, Alive
<1>3. ASSUME NEW a \in Captains, Fork(a) PROVE KeeperLives'
  BY <1>3, NoneIsNobody DEF Fork, Stage, LifeShapes, SpawnStages, RowStates,
     ReaperStates, OneTeardown, UpOrRecorded, KeeperLives, Alive
<1>4. ASSUME NEW a \in Captains, RecordSpawn(a) PROVE KeeperLives'
  BY <1>4, NoneIsNobody DEF RecordSpawn, Stage, Pay, NoRow, LifeShapes, SpawnStages,
     RowStates, ReaperStates, OneTeardown, UpOrRecorded, KeeperLives, Alive
<1>5. ASSUME NEW a \in Captains, Subscribe(a) PROVE KeeperLives'
  BY <1>5, NoneIsNobody DEF Subscribe, Stage, LifeShapes, SpawnStages, RowStates,
     ReaperStates, OneTeardown, UpOrRecorded, KeeperLives, Alive
<1>6. ASSUME NEW a \in Captains, Enroll(a) PROVE KeeperLives'
  BY <1>6, NoneIsNobody DEF Enroll, Stage, LifeShapes, SpawnStages, RowStates,
     ReaperStates, OneTeardown, UpOrRecorded, KeeperLives, Alive
<1>7. ASSUME NEW a \in Captains, DropSpawn(a) PROVE KeeperLives'
  BY <1>7, NoneIsNobody DEF DropSpawn, Stage, Pay, NoRow, LifeShapes, SpawnStages,
     RowStates, ReaperStates, OneTeardown, UpOrRecorded, KeeperLives, Alive
<1>8. ASSUME NEW a \in Captains, NEW s \in {"active", "error"}, Shows(a, s) PROVE KeeperLives'
  BY <1>8, NoneIsNobody DEF Shows, LifeShapes, SpawnStages, RowStates, ReaperStates,
     OneTeardown, UpOrRecorded, KeeperLives, Alive
<1>9. ASSUME NEW a \in Captains, EndsMarked(a) PROVE KeeperLives'
  BY <1>9, NoneIsNobody DEF EndsMarked, Pay, LifeShapes, SpawnStages, RowStates,
     ReaperStates, OneTeardown, UpOrRecorded, KeeperLives, Alive
<1>10. ASSUME NEW a \in Captains, EndsUnmarked(a) PROVE KeeperLives'
  BY <1>10, NoneIsNobody DEF EndsUnmarked, Pay, LifeShapes, SpawnStages, RowStates,
     ReaperStates, OneTeardown, UpOrRecorded, KeeperLives, Alive
<1>11. ASSUME NEW a \in Captains, RecordExit(a) PROVE KeeperLives'
  BY <1>11, NoneIsNobody DEF RecordExit, LifeShapes, SpawnStages, RowStates,
     ReaperStates, OneTeardown, UpOrRecorded, KeeperLives, Alive
<1>12. ASSUME NEW a \in Captains, Kill(a) PROVE KeeperLives'
  BY <1>12, NoneIsNobody DEF Kill, TakeOut, Pay, LifeShapes, SpawnStages, RowStates,
     ReaperStates, OneTeardown, UpOrRecorded, KeeperLives, Alive
<1>13. ASSUME NEW a \in Captains, KillProcess(a) PROVE KeeperLives'
  BY <1>13, NoneIsNobody DEF KillProcess, LifeShapes, SpawnStages, RowStates,
     ReaperStates, OneTeardown, UpOrRecorded, KeeperLives, Alive
<1>14. ASSUME NEW a \in Captains, RecordKill(a) PROVE KeeperLives'
  BY <1>14, NoneIsNobody DEF RecordKill, Resume, Pay, LifeShapes, SpawnStages,
     RowStates, ReaperStates, OneTeardown, UpOrRecorded, KeeperLives, Alive
<1>15. ASSUME NEW a \in Captains, WriteLedger(a) PROVE KeeperLives'
  BY <1>15, NoneIsNobody DEF WriteLedger, Sweeping, LifeShapes, SpawnStages,
     RowStates, ReaperStates, OneTeardown, UpOrRecorded, KeeperLives, Alive
<1>16. ASSUME NEW a \in Captains, DetectExit(a) PROVE KeeperLives'
  BY <1>16, NoneIsNobody DEF DetectExit, Sweeping, LifeShapes, SpawnStages, RowStates,
     ReaperStates, OneTeardown, UpOrRecorded, KeeperLives, Alive
<1>17. ASSUME NEW a \in Captains, Evict(a) PROVE KeeperLives'
  BY <1>17, NoneIsNobody DEF Evict, Sweeping, LifeShapes, SpawnStages, RowStates,
     ReaperStates, OneTeardown, UpOrRecorded, KeeperLives, Alive
<1>18. ASSUME NEW a \in Captains, ReapNext(a) PROVE KeeperLives'
  <2>1. a \in reaper.victims /\ reaper.pc = "extra"
    BY <1>18 DEF ReapNext
  <2>2. reaper'.victims \subseteq reaper.victims /\ (TakeOut(a) \/ teardown' = teardown)
    BY <1>18, ReapsNext
  <2>3. PICK k \in Captains \ reaper.victims : Alive(k)
    BY <2>1 DEF KeeperLives
  <2>4. Alive(k)' /\ k \notin reaper'.victims
    BY <1>18, <2>1, <2>2, <2>3 DEF Alive, TakeOut, ReapNext, LifeShapes
  <2>5. QED
    BY <2>3, <2>4 DEF KeeperLives
<1>19. ASSUME FindExtra PROVE KeeperLives'
  <2>1. PICK k \in Candidates : \A c \in Candidates : ~Beats(c, k)
    BY <1>19, KeeperExists DEF FindExtra, Duplicates, Candidates
  <2>2. Alive(k)
    BY <1>19, <2>1, NoneIsNobody DEF FindExtra, Candidates, ListedLive, Alive, LifeShapes, OneTeardown,
       UpOrRecorded
  <2>3. k \in Captains /\ k \notin reaper'.victims /\ UNCHANGED <<captainProcess, teardown, spawn>>
    BY <1>19, <2>1 DEF FindExtra, Duplicates, Candidates
  <2>4. QED
    BY <2>2, <2>3 DEF KeeperLives, Alive
<1>20. ASSUME BootReap PROVE KeeperLives'
  BY <1>20, NoneIsNobody DEF BootReap, LifeShapes, SpawnStages, RowStates,
     ReaperStates, OneTeardown, UpOrRecorded, KeeperLives, Alive
<1>21. ASSUME ServerCrashes PROVE KeeperLives'
  BY <1>21, NoneIsNobody DEF ServerCrashes, ListedLive, Pay, LifeShapes, SpawnStages,
     RowStates, ReaperStates, OneTeardown, UpOrRecorded, KeeperLives, Alive
<1>22. CASE UNCHANGED lifeVars
  BY <1>22 DEF lifeVars, LifeShapes, SpawnStages, RowStates, ReaperStates,
     OneTeardown, UpOrRecorded, KeeperLives, Alive
<1>23. QED
  BY <1>1, <1>2, <1>3, <1>4, <1>5, <1>6, <1>7, <1>8, <1>9, <1>10, <1>11, <1>12, <1>13,
     <1>14, <1>15, <1>16, <1>17, <1>18, <1>19, <1>20, <1>21, <1>22 DEF LifeNext,
     SpawnSteps, TeardownSteps, ReaperSteps

\* The invariant holds at the start.
LEMMA LifeStart == LifeInit => LifeInv
<1>  SUFFICES ASSUME LifeInit PROVE LifeInv
  OBVIOUS
<1>1. NoRow \in RowStates /\ NoRow.there = FALSE
  BY DEF NoRow, RowStates
<1>2. row \in [Captains -> RowStates] /\ \A a \in Captains : row[a].there = FALSE
  BY <1>1 DEF LifeInit
<1>3. LifeShapes
  BY <1>2 DEF LifeInit, LifeShapes, SpawnStages, ReaperStates
<1>4. OneTeardown /\ KeeperLives
  BY DEF LifeInit, OneTeardown, KeeperLives
<1>5. UpOrRecorded
  BY <1>2 DEF LifeInit, UpOrRecorded
<1>6. QED
  BY <1>3, <1>4, <1>5 DEF LifeInv

\* Nothing takes a mishap back.
LEMMA MishapsStay == LifeShapes /\ [LifeNext]_lifeVars /\ ~mishap' => ~mishap
  BY DEF LifeNext, lifeVars, LookForCaptain, SpawnSteps, CheckLiveCap, Fork, RecordSpawn, Subscribe,
     Enroll, DropSpawn, Shows, EndsMarked, EndsUnmarked, RecordExit, Kill, TeardownSteps,
     KillProcess, RecordKill, WriteLedger, DetectExit, Evict, ReaperSteps, FindExtra, ReapNext,
     BootReap, ServerCrashes, LifeShapes

\* Every step keeps it.
LEMMA LifeSteps == LifeInv /\ [LifeNext]_lifeVars => LifeInv'
  BY LifeShapeStep, MishapsStay, TeardownStep, RecordStep, KeeperStep DEF LifeInv

\* A direction that had a captain keeps one, for any number of them.
LEMMA CaptainIsKept == LifeSpec => []OneCaptainIsKept
<1>1. LifeInv => OneCaptainIsKept
  BY DEF LifeInv, KeeperLives, OneCaptainIsKept
<1>2. QED
  BY <1>1, LifeStart, LifeSteps, PTL DEF LifeSpec

-----------------------------------------------------------------------------
(* The first turn.                                                         *)

BootStages == {"ready", "mcp", "gate", "injected", "aborted"}
BootRows == [pc : BootStages, since : 0 .. Horizon, polled : BOOLEAN, waited : 0 .. Horizon]

TurnShapes ==
  /\ time \in 0 .. Horizon /\ dep \in [Deps -> {"none", "stale", "fresh", "error", "deleted"}]
  /\ shim \in {"booting", "ready", "dead"} /\ boot \in BootRows /\ boot.since <= time
  /\ turn \in {"none", "working", "wedged"} /\ life \subseteq {"activity", "message"}
  /\ turnLatch \in {"none", "auth", "watchdog"}
  /\ watch \in 0 .. Off /\ tailer \in {"locating", "tailing", "soft"} /\ lines \in BOOLEAN

\* The window of the watchdog does not start after the gate's clock: while the
\* process is up, it is due no sooner than one window after the gate began.
WatchIsAhead ==
  /\ shim = "booting" => watch = Off /\ boot.pc \in {"ready", "aborted"}
  /\ shim = "ready" /\ boot.pc \in {"ready", "mcp"} => watch = time + FirstResponse
  /\ shim = "ready" /\ boot.pc = "gate" => watch >= boot.since + FirstResponse

\* A gate that has waited long enough vouches for its worker.
GateVouches ==
  boot.pc = "gate" =>
    /\ Elapsed > ShieldAfter => "activity" \in life
    /\ boot.polled /\ Elapsed >= ShieldAfter => "activity" \in life

\* The inductive invariant.
TurnInv == TurnShapes /\ WatchIsAhead /\ GateVouches /\ WaiterIsNotFlagged

\* A bootstrap task that moves on is one.
LEMMA BootMoves ==
  ASSUME boot \in BootRows, NEW p \in BootStages
  PROVE  LET next == [boot EXCEPT !.pc = p]
         IN next \in BootRows /\ next.pc = p /\ next.since = boot.since /\ next.polled = boot.polled
  BY DEF BootRows

LEMMA BootPolls ==
  ASSUME boot \in BootRows, NEW q \in BOOLEAN
  PROVE  LET next == [boot EXCEPT !.polled = q]
         IN next \in BootRows /\ next.pc = boot.pc /\ next.since = boot.since /\ next.polled = q
  BY DEF BootRows

LEMMA BootWaited ==
  ASSUME boot \in BootRows, NEW p \in BootStages, NEW n \in 0 .. Horizon
  PROVE  LET next == [boot EXCEPT !.pc = p, !.waited = n]
         IN next \in BootRows /\ next.pc = p /\ next.since = boot.since
  BY DEF BootRows

LEMMA BootGates ==
  ASSUME boot \in BootRows, NEW n \in 0 .. Horizon
  PROVE  LET next == [boot EXCEPT !.pc = "gate", !.since = n, !.polled = FALSE]
         IN next \in BootRows /\ next.pc = "gate" /\ next.since = n /\ next.polled = FALSE
  BY DEF BootRows, BootStages

LEMMA BootIsOne ==
  ASSUME boot \in BootRows
  PROVE  boot.pc \in BootStages /\ boot.since \in 0 .. Horizon /\ boot.polled \in BOOLEAN
  BY DEF BootRows

\* The clocks are naturals in their order.
LEMMA ClocksAreOrdered ==
  /\ ShieldAfter \in Nat /\ FirstResponse \in Nat /\ Horizon \in Nat /\ MaxWait \in Nat /\ ReadyWait \in Nat
  /\ ShieldAfter < FirstResponse /\ Never = Horizon + FirstResponse + 1 /\ Off = Horizon + FirstResponse + 2
  BY FirstTurnAssumption DEF Never, Off

LEMMA TurnStart == TurnInit => TurnInv
<1>  SUFFICES ASSUME TurnInit PROVE TurnInv
  OBVIOUS
<1>1. /\ time = 0 /\ shim = "booting" /\ life = {} /\ turnLatch = "none" /\ watch = Off
      /\ boot = [pc |-> "ready", since |-> 0, polled |-> FALSE, waited |-> 0]
  BY DEF TurnInit
<1>2. 0 \in 0 .. Horizon /\ Off \in 0 .. Off
  BY ClocksAreOrdered
<1>3. boot \in BootRows /\ boot.since = 0 /\ boot.pc = "ready"
  BY <1>1, <1>2 DEF BootRows, BootStages
<1>4. dep \in [Deps -> {"none", "stale", "fresh", "error", "deleted"}]
  BY DEF TurnInit
<1>5. turn = "none" /\ tailer = "locating" /\ lines = FALSE
  BY DEF TurnInit
<1>6. time \in 0 .. Horizon /\ boot.since <= time /\ watch \in 0 .. Off
  BY <1>1, <1>2, <1>3
<1>7. TurnShapes
  BY <1>1, <1>3, <1>4, <1>5, <1>6 DEF TurnShapes
<1>8. QED
  BY <1>1, <1>3, <1>7 DEF TurnInv, WatchIsAhead, GateVouches, WaiterIsNotFlagged

\* What leaves the clocks, the process and the bootstrap task alone.
LEMMA ClocksStay ==
  ASSUME TurnInv, TurnShapes', UNCHANGED <<time, shim, boot, watch>>, life \subseteq life',
         turnLatch' = "watchdog" => turnLatch = "watchdog" \/ boot.pc \in {"injected", "aborted"}
  PROVE  TurnInv'
<1>1. WatchIsAhead'
  BY DEF TurnInv, WatchIsAhead
<1>2. GateVouches'
  BY DEF TurnInv, GateVouches, Elapsed
<1>3. WaiterIsNotFlagged'
  BY DEF TurnInv, WaiterIsNotFlagged
<1>4. QED
  BY <1>1, <1>2, <1>3 DEF TurnInv

\* The bootstrap task ends or gives up.
LEMMA BootLeaves ==
  ASSUME TurnInv, TurnShapes', UNCHANGED <<time, shim, watch, life, turnLatch>>,
         boot'.pc \in {"injected", "aborted"}, shim = "booting" => boot'.pc = "aborted"
  PROVE  TurnInv'
<1>1. WatchIsAhead'
  BY DEF TurnInv, WatchIsAhead
<1>2. GateVouches' /\ WaiterIsNotFlagged'
  BY DEF GateVouches, WaiterIsNotFlagged
<1>3. QED
  BY <1>1, <1>2 DEF TurnInv

\* Time passes while nothing is due.
LEMMA TimePasses == TurnInv /\ Tick => TurnInv'
<1>  SUFFICES ASSUME TurnInv, Tick PROVE TurnInv'
  OBVIOUS
<1>1. /\ time < Horizon /\ watch > time /\ boot.pc # "mcp"
      /\ boot.pc = "ready" => shim = "booting"
      /\ time' = time + 1
      /\ UNCHANGED <<dep, shim, turn, life, turnLatch, watch, tailer, lines>>
  BY DEF Tick
<1>2. boot' = [boot EXCEPT !.polled = FALSE] /\ (boot.pc = "gate" => boot.polled)
  BY DEF Tick
<1>3. TurnShapes
  BY DEF TurnInv
<1>4. boot \in BootRows /\ time \in Nat /\ time \in 0 .. Horizon /\ boot.since <= time
  BY <1>3, ClocksAreOrdered DEF TurnShapes
<1>5. boot.since \in Nat
  BY <1>4, BootIsOne, ClocksAreOrdered
<1>6. boot' \in BootRows /\ boot'.pc = boot.pc /\ boot'.since = boot.since /\ ~boot'.polled
  BY <1>2, <1>4, BootIsOne, BootPolls
<1>7. time' \in 0 .. Horizon /\ boot.since <= time'
  BY <1>1, <1>4, <1>5, ClocksAreOrdered
<1>8. TurnShapes'
  BY <1>1, <1>3, <1>6, <1>7 DEF TurnShapes
<1>9. WatchIsAhead'
  BY <1>1, <1>6 DEF TurnInv, WatchIsAhead
<1>10. boot.pc = "gate" /\ Elapsed >= ShieldAfter => "activity" \in life
  BY <1>2 DEF TurnInv, GateVouches
<1>11. Elapsed' > ShieldAfter => Elapsed >= ShieldAfter
  BY <1>1, <1>4, <1>5, <1>6, ClocksAreOrdered DEF Elapsed
<1>12. GateVouches'
  BY <1>1, <1>6, <1>10, <1>11 DEF GateVouches
<1>13. WaiterIsNotFlagged'
  BY <1>1, <1>6 DEF TurnInv, WaiterIsNotFlagged
<1>14. QED
  BY <1>8, <1>9, <1>12, <1>13 DEF TurnInv

LEMMA ShimGetsReady == TurnInv /\ TurnShimReady => TurnInv'
<1>  SUFFICES ASSUME TurnInv, TurnShimReady PROVE TurnInv'
  OBVIOUS
<1>1. /\ shim = "booting" /\ shim' = "ready" /\ watch' = time + FirstResponse
      /\ UNCHANGED <<time, dep, boot, turn, life, turnLatch, tailer, lines>>
  BY DEF TurnShimReady
<1>2. TurnShapes /\ boot.pc \in {"ready", "aborted"}
  BY <1>1 DEF TurnInv, WatchIsAhead
<1>3. watch' \in 0 .. Off
  BY <1>1, <1>2, ClocksAreOrdered DEF TurnShapes
<1>4. TurnShapes'
  BY <1>1, <1>2, <1>3 DEF TurnShapes
<1>5. WatchIsAhead' /\ GateVouches'
  BY <1>1, <1>2 DEF WatchIsAhead, GateVouches
<1>6. WaiterIsNotFlagged'
  BY <1>1 DEF TurnInv, WaiterIsNotFlagged
<1>7. QED
  BY <1>4, <1>5, <1>6 DEF TurnInv

LEMMA DeadAreQuiet == TurnInv /\ Die => TurnInv'
<1>  SUFFICES ASSUME TurnInv, Die PROVE TurnInv'
  OBVIOUS
<1>1. /\ shim' = "dead" /\ turn' = "none"
      /\ UNCHANGED <<time, dep, boot, life, turnLatch, watch, tailer, lines>>
  BY DEF Die
<1>2. TurnShapes'
  BY <1>1 DEF TurnInv, TurnShapes
<1>3. WatchIsAhead'
  BY <1>1 DEF WatchIsAhead
<1>4. GateVouches' /\ WaiterIsNotFlagged'
  BY <1>1 DEF TurnInv, GateVouches, Elapsed, WaiterIsNotFlagged
<1>5. QED
  BY <1>2, <1>3, <1>4 DEF TurnInv

LEMMA BootMovesOn == TurnInv /\ BootSteps => TurnInv'
<1>  SUFFICES ASSUME TurnInv, BootSteps PROVE TurnInv'
  OBVIOUS
<1>1. TurnShapes /\ boot \in BootRows /\ time \in 0 .. Horizon /\ time \in Nat /\ boot.since <= time
  BY ClocksAreOrdered DEF TurnInv, TurnShapes
<1>2. boot.since \in Nat /\ boot.polled \in BOOLEAN /\ {"mcp", "gate", "injected", "aborted"} \subseteq BootStages
  BY <1>1, BootIsOne, ClocksAreOrdered DEF BootStages
<1>3. CASE ReadySeen
  <2>1. boot.pc = "ready" /\ shim = "ready" /\ boot' = [boot EXCEPT !.pc = "mcp"]
        /\ UNCHANGED <<time, dep, shim, turn, life, turnLatch, watch, tailer, lines>>
    BY <1>3 DEF ReadySeen
  <2>2. boot' \in BootRows /\ boot'.pc = "mcp" /\ boot'.since = boot.since
    BY <1>1, <1>2, <2>1, BootMoves
  <2>3. TurnShapes'
    BY <1>1, <2>1, <2>2 DEF TurnShapes
  <2>4. WatchIsAhead' /\ GateVouches'
    BY <2>1, <2>2 DEF TurnInv, WatchIsAhead, GateVouches
  <2>5. WaiterIsNotFlagged'
    BY <2>1 DEF TurnInv, WaiterIsNotFlagged
  <2>6. QED
    BY <2>3, <2>4, <2>5 DEF TurnInv
<1>4. CASE BootAborts
  <2>1. boot' = [boot EXCEPT !.pc = "aborted"]
        /\ UNCHANGED <<time, dep, shim, turn, life, turnLatch, watch, tailer, lines>>
    BY <1>4 DEF BootAborts
  <2>2. boot' \in BootRows /\ boot'.pc = "aborted" /\ boot'.since = boot.since
    BY <1>1, <1>2, <2>1, BootMoves
  <2>3. TurnShapes'
    BY <1>1, <2>1, <2>2 DEF TurnShapes
  <2>4. QED
    BY <2>1, <2>2, <2>3, BootLeaves
<1>5. CASE McpSettles
  <2>1. boot.pc = "mcp" /\ shim = "ready" /\ boot' = [boot EXCEPT !.pc = "gate", !.since = time, !.polled = FALSE]
        /\ UNCHANGED <<time, dep, shim, turn, life, turnLatch, watch, tailer, lines>>
    BY <1>5 DEF McpSettles
  <2>2. boot' \in BootRows /\ boot'.pc = "gate" /\ boot'.since = time /\ ~boot'.polled
    BY <1>1, <2>1, BootGates
  <2>3. TurnShapes'
    BY <1>1, <2>1, <2>2 DEF TurnShapes
  <2>4. watch = time + FirstResponse
    BY <2>1 DEF TurnInv, WatchIsAhead
  <2>5. watch' >= boot'.since + FirstResponse
    BY <1>1, <2>1, <2>2, <2>4, ClocksAreOrdered
  <2>6. WatchIsAhead'
    BY <2>1, <2>2, <2>5 DEF WatchIsAhead
  <2>7. ~(Elapsed' > ShieldAfter)
    BY <1>1, <2>1, <2>2, ClocksAreOrdered DEF Elapsed
  <2>8. GateVouches'
    BY <2>2, <2>7 DEF GateVouches
  <2>9. WaiterIsNotFlagged'
    BY <2>1 DEF TurnInv, WaiterIsNotFlagged
  <2>10. QED
    BY <2>3, <2>6, <2>8, <2>9 DEF TurnInv
<1>6. CASE GateOpens
  <2>1. boot' = [boot EXCEPT !.pc = "injected", !.waited = Elapsed] /\ shim = "ready"
        /\ UNCHANGED <<time, dep, shim, life, turnLatch, watch, tailer, lines>>
    BY <1>6 DEF GateOpens
  <2>2. turn' \in {"none", "working", "wedged"}
    BY <1>6 DEF GateOpens
  <2>3. Elapsed \in 0 .. Horizon
    BY <1>1, <1>2, ClocksAreOrdered DEF Elapsed
  <2>4. boot' \in BootRows /\ boot'.pc = "injected" /\ boot'.since = boot.since
    BY <1>1, <1>2, <2>1, <2>3, BootWaited
  <2>5. TurnShapes'
    BY <1>1, <2>1, <2>2, <2>4 DEF TurnShapes
  <2>6. QED
    BY <2>1, <2>4, <2>5, BootLeaves
<1>7. CASE GateHolds
  <2>1. boot.pc = "gate" /\ shim = "ready" /\ boot' = [boot EXCEPT !.polled = TRUE]
        /\ UNCHANGED <<time, dep, shim, turn, turnLatch, watch, tailer, lines>>
    BY <1>7 DEF GateHolds
  <2>2. life \subseteq life' /\ life' \subseteq {"activity", "message"}
        /\ (Elapsed >= ShieldAfter => "activity" \in life')
    BY <1>1, <1>7 DEF GateHolds, Shield, TurnShapes
  <2>3. boot' \in BootRows /\ boot'.pc = "gate" /\ boot'.since = boot.since
    BY <1>1, <1>2, <2>1, BootPolls
  <2>4. TurnShapes'
    BY <1>1, <2>1, <2>2, <2>3 DEF TurnShapes
  <2>5. WatchIsAhead'
    BY <2>1, <2>3 DEF TurnInv, WatchIsAhead
  <2>6. Elapsed' = Elapsed /\ (Elapsed' > ShieldAfter => Elapsed >= ShieldAfter)
    BY <1>1, <1>2, <2>1, <2>3, ClocksAreOrdered DEF Elapsed
  <2>7. GateVouches'
    BY <2>2, <2>6 DEF GateVouches
  <2>8. WaiterIsNotFlagged'
    BY <2>1, <2>3 DEF TurnInv, WaiterIsNotFlagged
  <2>9. QED
    BY <2>4, <2>5, <2>7, <2>8 DEF TurnInv
<1>8. QED
  BY <1>3, <1>4, <1>5, <1>6, <1>7 DEF BootSteps

\* The watchdog fires on a worker that waits only when the gate has vouched for it.
LEMMA WatchdogIsFair == TurnInv /\ WatchdogFires => TurnInv'
<1>  SUFFICES ASSUME TurnInv, WatchdogFires PROVE TurnInv'
  OBVIOUS
<1>1. watch <= time /\ watch' = Never /\ UNCHANGED <<time, dep, shim, boot, turn, life, lines>>
  BY DEF WatchdogFires
<1>2. (Silent /\ turnLatch' = "watchdog") \/ turnLatch' = turnLatch
  BY DEF WatchdogFires
<1>3. turnLatch' \in {"none", "auth", "watchdog"} /\ tailer' \in {"locating", "tailing", "soft"}
  BY DEF WatchdogFires, PublishError, TurnInv, TurnShapes
<1>4. TurnShapes /\ boot \in BootRows /\ time \in 0 .. Horizon /\ time \in Nat /\ boot.since <= time
  BY ClocksAreOrdered DEF TurnInv, TurnShapes
<1>5. boot.since \in Nat /\ boot.pc \in BootStages /\ boot.since \in 0 .. Horizon
  BY <1>4, BootIsOne, ClocksAreOrdered
<1>6. TurnShapes'
  BY <1>1, <1>3, <1>4, ClocksAreOrdered DEF TurnShapes
<1>7. ~(watch = Off) /\ ~(watch = time + FirstResponse)
  BY <1>1, <1>4, ClocksAreOrdered
<1>8. shim # "booting" /\ (shim = "ready" => boot.pc \in {"gate", "injected", "aborted"})
  BY <1>5, <1>7 DEF TurnInv, WatchIsAhead, BootStages
<1>9. shim = "ready" /\ boot.pc = "gate" => Elapsed > ShieldAfter
  <2> SUFFICES ASSUME watch >= boot.since + FirstResponse PROVE Elapsed > ShieldAfter
    BY DEF TurnInv, WatchIsAhead
  <2>1. watch \in Nat
    BY <1>4, ClocksAreOrdered DEF TurnShapes
  <2>2. QED
    BY <1>1, <1>4, <1>5, <2>1, ClocksAreOrdered DEF Elapsed
<1>10. Silent => shim = "ready" /\ boot.pc \in {"injected", "aborted"}
  BY <1>4, <1>8, <1>9 DEF TurnInv, TurnShapes, Silent, GateVouches
<1>11. watch' >= boot.since + FirstResponse
  BY <1>1, <1>5, ClocksAreOrdered
<1>12. WatchIsAhead'
  BY <1>1, <1>8, <1>11 DEF WatchIsAhead
<1>13. GateVouches'
  BY <1>1 DEF TurnInv, GateVouches, Elapsed
<1>14. WaiterIsNotFlagged'
  BY <1>1, <1>2, <1>10 DEF TurnInv, WaiterIsNotFlagged
<1>15. QED
  BY <1>6, <1>12, <1>13, <1>14 DEF TurnInv

\* What the worker, its producers, the scanner and the tailer do.
LEMMA OthersAreQuiet ==
  ASSUME TurnInv,
         \/ Works \/ Speaks \/ UserUnblocks \/ TailerLocates \/ Tails \/ HealthFail
         \/ \E d \in Deps : Produce(d) \/ DeleteKey(d)
  PROVE  TurnInv'
<1>1. UNCHANGED <<time, shim, boot, watch>>
  BY DEF Works, Speaks, UserUnblocks, TailerLocates, Tails, HealthFail, Produce, DeleteKey
<1>2. life \subseteq life' /\ (turnLatch' = "watchdog" => turnLatch = "watchdog")
  BY DEF Works, Speaks, UserUnblocks, TailerLocates, Tails, HealthFail, Produce, DeleteKey
<1>3. dep' \in [Deps -> {"none", "stale", "fresh", "error", "deleted"}]
  BY DEF Works, Speaks, UserUnblocks, TailerLocates, Tails, HealthFail, Produce, DeleteKey, TurnInv, TurnShapes
<1>4. /\ turn' \in {"none", "working", "wedged"} /\ life' \subseteq {"activity", "message"}
      /\ turnLatch' \in {"none", "auth", "watchdog"} /\ lines' \in BOOLEAN
  BY DEF Works, Speaks, UserUnblocks, TailerLocates, Tails, HealthFail, Produce, DeleteKey, TurnInv, TurnShapes
<1>5. tailer' \in {"locating", "tailing", "soft"}
  BY DEF Works, Speaks, UserUnblocks, TailerLocates, Tails, HealthFail, PublishError, Produce, DeleteKey,
     TurnInv, TurnShapes
<1>6. TurnShapes'
  BY <1>1, <1>3, <1>4, <1>5 DEF TurnInv, TurnShapes
<1>7. QED
  BY <1>1, <1>2, <1>6, ClocksStay

LEMMA TurnSteps == TurnInv /\ [TurnNext]_turnVars => TurnInv'
<1>1. ASSUME TurnInv, UNCHANGED turnVars PROVE TurnInv'
  BY <1>1 DEF turnVars, TurnInv, TurnShapes, WatchIsAhead, GateVouches, Elapsed, WaiterIsNotFlagged
<1>2. QED
  BY <1>1, TimePasses, ShimGetsReady, DeadAreQuiet, BootMovesOn, WatchdogIsFair, OthersAreQuiet DEF TurnNext

\* The first turn keeps its invariant: the watchdog's window is measured against
\* the gate's clock, and a gate that holds long enough stamps activity.
THEOREM TurnIsSound == TurnSpec => []TurnInv
  BY TurnStart, TurnSteps, PTL DEF TurnSpec

\* A worker that waits for its inputs is never flagged as silent, whenever its
\* process gets ready, dies or speaks (gate_should_shield_watchdog).
THEOREM WaiterIsSpared == TurnSpec => []WaiterIsNotFlagged
<1>1. TurnInv => WaiterIsNotFlagged
  BY DEF TurnInv
<1>2. QED
  BY <1>1, TurnIsSound, PTL
-----------------------------------------------------------------------------
(* Types.  What the invariants above did not need to know.                 *)

BudgetRest ==
  /\ cap \in Caps /\ spent \in Nat /\ resuming \subseteq Crew /\ booting \subseteq Crew
  /\ paused \subseteq registered
  /\ \A c \in Checkers : checker[c].cap \in Caps

\* Nothing but a PUT sets a cap, a checker carries the one it read, and only who is
\* registered gets paused.
LEMMA BudgetRestStep ==
  ASSUME BudgetShapes, BudgetRest, [BudgetNext]_budgetVars
  PROVE  BudgetRest'
<1>1. /\ cap' \in Caps /\ spent' \in Nat /\ resuming' \subseteq Crew /\ booting' \subseteq Crew
  <2>1. ASSUME NEW a \in Crew,
               \/ Spends(a) \/ Tailer(a) \/ Interrupt(a) \/ ResumeGate(a) \/ ResumeClear(a)
               \/ SpawnGate(a) \/ Register(a) \/ Exit(a) \/ ResumeNext(a)
        PROVE  /\ cap' \in Caps /\ spent' \in Nat /\ resuming' \subseteq Crew /\ booting' \subseteq Crew
    BY <2>1, BudgetAssumption DEF Spends, Tailer, Gate, Estimate, Interrupt, ResumeGate, ResumeClear, SpawnGate,
       Register, Exit, ResumeNext, BudgetRest, BudgetShapes
  <2>2. ASSUME NEW c \in Checkers, Trip(c) \/ LookupFails(c) \/ PersistFails(c)
        PROVE  /\ cap' \in Caps /\ spent' \in Nat /\ resuming' \subseteq Crew /\ booting' \subseteq Crew
    BY <2>2 DEF Trip, Roster, Look, Persist, LookupFails, PersistFails, BudgetRest
  <2>3. ASSUME (\E b \in Caps : SetCap(b)) \/ Reconcile \/ Lift \/ Lifted \/ PruneUsage \/ UNCHANGED budgetVars
        PROVE  /\ cap' \in Caps /\ spent' \in Nat /\ resuming' \subseteq Crew /\ booting' \subseteq Crew
    BY <2>3 DEF SetCap, Reconcile, Lift, Lifted, PruneUsage, budgetVars, BudgetRest
  <2>4. QED
    BY <2>1, <2>2, <2>3 DEF BudgetNext
<1>2. paused' \subseteq registered'
  <2>1. ASSUME NEW a \in Crew,
               \/ Spends(a) \/ Tailer(a) \/ Interrupt(a) \/ ResumeGate(a) \/ ResumeClear(a)
               \/ SpawnGate(a) \/ Register(a) \/ Exit(a) \/ ResumeNext(a)
        PROVE  paused' \subseteq registered'
    BY <2>1 DEF Spends, Tailer, Gate, Estimate, Interrupt, ResumeGate, ResumeClear, SpawnGate,
       Register, Exit, ResumeNext, BudgetRest
  <2>2. ASSUME NEW c \in Checkers, Trip(c) \/ LookupFails(c) \/ PersistFails(c)
        PROVE  paused' \subseteq registered'
    BY <2>2 DEF Trip, Roster, Look, Persist, LookupFails, PersistFails, BudgetRest
  <2>3. ASSUME (\E b \in Caps : SetCap(b)) \/ Reconcile \/ Lift \/ Lifted \/ PruneUsage \/ UNCHANGED budgetVars
        PROVE  paused' \subseteq registered'
    BY <2>3 DEF SetCap, Reconcile, Lift, Lifted, PruneUsage, budgetVars, BudgetRest
  <2>4. QED
    BY <2>1, <2>2, <2>3 DEF BudgetNext
<1>3. ASSUME NEW c \in Checkers PROVE checker'[c].cap \in Caps
  <2>1. checker[c].cap \in Caps /\ cap \in Caps /\ 0 \in Caps
    BY BudgetAssumption DEF BudgetRest
  <2>2. checker \in [Checkers -> CheckerStates]
    BY DEF BudgetShapes
  <2>3. Crew \subseteq Checkers /\ Put \in Checkers
    BY DEF Checkers
  <2>4. checker[c] = [pc |-> checker[c].pc, cap |-> checker[c].cap, seen |-> checker[c].seen,
                      todo |-> checker[c].todo, mine |-> checker[c].mine, tripped |-> checker[c].tripped]
    BY <2>2 DEF CheckerStates
  <2>5. Resting.cap = 0
    BY DEF Resting
  <2>6. ASSUME NEW a \in Crew,
               \/ Spends(a) \/ Tailer(a) \/ Interrupt(a) \/ ResumeGate(a) \/ ResumeClear(a)
               \/ SpawnGate(a) \/ Register(a) \/ Exit(a) \/ ResumeNext(a)
        PROVE  checker'[c].cap \in Caps
    BY <2>1, <2>2, <2>3, <2>4, <2>5, <2>6 DEF Spends, Tailer, Gate, Estimate, Interrupt, ResumeGate,
       ResumeClear, SpawnGate, Register, Exit, ResumeNext, CheckerTo, CheckerRests
  <2>7. ASSUME NEW d \in Checkers, Trip(d) \/ LookupFails(d) \/ PersistFails(d)
        PROVE  checker'[c].cap \in Caps
    <3>1. CASE checker' = [checker EXCEPT ![d] = Resting]
      BY <2>1, <2>2, <2>5, <3>1
    <3>2. CASE Roster(d)
      BY <2>1, <2>2, <2>4, <3>2 DEF Roster
    <3>3. ASSUME NEW a \in Crew, Look(d, a) PROVE checker'[c].cap \in Caps
      BY <2>1, <2>2, <2>4, <3>3 DEF Look
    <3>4. QED
      BY <2>7, <3>1, <3>2, <3>3 DEF Trip, Persist, LookupFails, PersistFails, CheckerRests
  <2>8. ASSUME NEW b \in Caps, SetCap(b) PROVE checker'[c].cap \in Caps
    BY <2>1, <2>2, <2>3, <2>8 DEF SetCap, Resting
  <2>9. ASSUME Reconcile \/ Lift \/ Lifted \/ PruneUsage \/ UNCHANGED budgetVars
        PROVE  checker'[c].cap \in Caps
    BY <2>1, <2>2, <2>3, <2>4, <2>5, <2>9 DEF Reconcile, Lift, Lifted, PruneUsage, budgetVars, CheckerTo, CheckerRests
  <2>10. QED
    BY <2>6, <2>7, <2>8, <2>9 DEF BudgetNext
<1>4. QED
  BY <1>1, <1>2, <1>3 DEF BudgetRest

LEMMA BudgetTypes == BudgetSpec => []BudgetTypeOK
<1>1. BudgetInit => BudgetRest
  BY BudgetAssumption DEF BudgetInit, BudgetRest, Checkers, Resting
<1>2. BudgetInv /\ BudgetRest /\ [BudgetNext]_budgetVars => BudgetRest'
  BY BudgetRestStep DEF BudgetInv
<1>3. BudgetInv /\ BudgetRest => BudgetTypeOK
  <2> SUFFICES ASSUME BudgetShapes, BudgetRest PROVE BudgetTypeOK
    BY DEF BudgetInv
  <2>1. ASSUME NEW c \in Checkers
        PROVE  checker[c] \in [pc : CheckerStages, cap : Caps, seen : Nat,
                               todo : SUBSET Crew, mine : SUBSET Crew, tripped : BOOLEAN]
    BY DEF BudgetShapes, BudgetRest, CheckerStates
  <2>2. QED
    BY <2>1 DEF BudgetTypeOK, BudgetShapes, BudgetRest, CheckerStages
<1>4. QED
  BY <1>1, <1>2, <1>3, BrakeIsSound, PTL DEF BudgetSpec

LifeRest == latched \subseteq Captains /\ pending \subseteq Captains /\ unheard \subseteq Captains

LEMMA LifeTypes == LifeSpec => []LifeTypeOK
<1>1. LifeInit => LifeRest
  BY DEF LifeInit, LifeRest
<1>2. LifeRest /\ [LifeNext]_lifeVars => LifeRest'
  BY DEF LifeNext, lifeVars, LookForCaptain, SpawnSteps, CheckLiveCap, Fork, RecordSpawn, Subscribe,
     Enroll, DropSpawn, Shows, EndsMarked, EndsUnmarked, RecordExit, Kill, TeardownSteps,
     KillProcess, RecordKill, WriteLedger, DetectExit, Evict, ReaperSteps, FindExtra, ReapNext,
     BootReap, ServerCrashes, LifeRest
<1>3. LifeInv /\ LifeRest => LifeTypeOK
  BY DEF LifeInv, LifeShapes, LifeRest, LifeTypeOK, SpawnStages, RowStates, ReaperStates
<1>4. QED
  BY <1>1, <1>2, <1>3, LifeStart, LifeSteps, PTL DEF LifeSpec

WatchRest ==
  /\ workerProcess \in [alive : BOOLEAN, paused : BOOLEAN] /\ debt \in [owes : BOOLEAN, waits : BOOLEAN]
  /\ spare \in 0 .. MaxWatchFaults
  /\ mind.tracked => mind.wakes > 0

LEMMA WatchRestStep == ASSUME WatchInv, WatchRest, [WatchNext]_watchVars PROVE WatchRest'
<1>1. workerProcess' \in [alive : BOOLEAN, paused : BOOLEAN]
  BY DEF WatchNext, SweepStep, MinutePasses, SweepReads, SweepRecovers, SweepProbes, SweepWeighs, SweepWakes,
     SweepMarks, SweepTrips, Stirs, Delivers, Depends, WorkerReady, Pauses, OtherErrs, WorkerDies,
     ExitIsRecorded, agentPart, watchVars, WatchRest
<1>2. debt' \in [owes : BOOLEAN, waits : BOOLEAN]
  BY DEF WatchNext, SweepStep, MinutePasses, SweepReads, SweepRecovers, SweepProbes, SweepWeighs, SweepWakes,
     SweepMarks, SweepTrips, Stirs, Delivers, Depends, WorkerReady, Pauses, OtherErrs, WorkerDies,
     ExitIsRecorded, agentPart, watchVars, WatchRest
<1>3. spare' \in 0 .. MaxWatchFaults
  <2>1. spare' = spare \/ (spare > 0 /\ spare' = spare - 1)
    BY DEF WatchNext, SweepStep, MinutePasses, SweepReads, SweepRecovers, SweepProbes, SweepWeighs, SweepWakes,
       SweepMarks, SweepTrips, Trips, Stirs, Delivers, Depends, WorkerReady, Pauses, OtherErrs, WorkerDies,
       ExitIsRecorded, watchVars
  <2>2. QED
    BY <2>1, WatchAssumption DEF WatchRest
<1>4. mind'.tracked => mind'.wakes > 0
  <2>1. mind \in MindStates /\ mind.wakes \in Nat
    BY DEF WatchInv, WatchShapes, MindStates
  <2>2. CASE mind' = mind
    BY <2>2 DEF WatchRest
  <2>3. CASE mind' = Forgotten
    BY <2>3 DEF Forgotten
  <2>4. CASE mind' = [mind EXCEPT !.at = Older(@)] \/ mind' = [mind EXCEPT !.stirred = TRUE]
    <3>1. mind'.tracked = mind.tracked /\ mind'.wakes = mind.wakes
      BY <2>1, <2>4 DEF MindStates
    <3>2. QED
      BY <3>1 DEF WatchRest
  <2>5. CASE mind' = [tracked |-> TRUE, wakes |-> mind.wakes + 1, at |-> 0, stirred |-> sweep.news]
    <3>1. mind'.wakes = mind.wakes + 1
      BY <2>5
    <3>2. QED
      BY <2>1, <3>1
  <2>6. QED
    BY <2>2, <2>3, <2>4, <2>5
    DEF WatchNext, SweepStep, MinutePasses, SweepReads, SweepRecovers, SweepProbes, SweepWeighs, SweepWakes,
        SweepMarks, SweepTrips, Stirs, Stir, Delivers, Depends, WorkerReady, Pauses, OtherErrs, WorkerDies,
        ExitIsRecorded, Forgets, watchVars
<1>5. QED
  BY <1>1, <1>2, <1>3, <1>4 DEF WatchRest

LEMMA WatchTypes == WatchSpec => []WatchTypeOK
<1>1. WatchInit => WatchRest
  <2> SUFFICES ASSUME WatchInit PROVE WatchRest
    OBVIOUS
  <2>1. spare \in 0 .. MaxWatchFaults
    BY WatchAssumption DEF WatchInit
  <2>2. QED
    BY <2>1 DEF WatchInit, WatchRest, Forgotten
<1>2. WatchInv /\ WatchRest => WatchTypeOK
  <2> SUFFICES ASSUME WatchInv, WatchRest PROVE WatchTypeOK
    OBVIOUS
  <2>1. /\ watched \in Rows /\ sign \in Ages /\ mind \in MindStates /\ sweep \in SweepStates
        /\ mind.wakes <= MaxWakes /\ (~mind.tracked => mind.wakes = 0)
    BY DEF WatchInv, WatchShapes, PokesAreCounted
  <2>2. sweep.sign \in Ages /\ mind.at \in Ages /\ mind.wakes \in Nat
    BY <2>1 DEF SweepStates, MindStates
  <2>3. mind.wakes \in 0 .. MaxWakes
    BY <2>1, <2>2, WatchAssumption
  <2>4. mind.tracked <=> mind.wakes > 0
    BY <2>1 DEF WatchRest
  <2>5. QED
    BY <2>1, <2>2, <2>3, <2>4 DEF WatchTypeOK, WatchRest, Rows
<1>3. QED
  BY <1>1, <1>2, WatchRestStep, WatchIsSound, PTL DEF WatchSpec

LEMMA TurnTypes == TurnSpec => []TurnTypeOK
<1>1. TurnInv => TurnTypeOK
  BY DEF TurnInv, TurnShapes, BootRows, BootStages, TurnTypeOK
<1>2. QED
  BY <1>1, TurnIsSound, PTL


-----------------------------------------------------------------------------
(* The composition.                                                        *)

\* A behaviour of the composition is one of each of its parts.
LEMMA PartsBehave ==
  SupervisionSpec => BudgetSpec /\ LifeSpec /\ WatchSpec /\ DirSpec /\ BoardSpec /\ TurnSpec
<1>1. SupervisionInit => BudgetInit /\ LifeInit /\ WatchInit /\ DirInit /\ BoardInit /\ TurnInit
  BY DEF SupervisionInit
<1>2. [SupervisionNext]_supervisionVars =>
        [BudgetNext]_budgetVars /\ [LifeNext]_lifeVars /\ [WatchNext]_watchVars
        /\ [DirNext]_dirVars /\ [BoardNext]_boardVars /\ [TurnNext]_turnVars
  BY DEF SupervisionNext, supervisionVars, BudgetMoves, LifeMoves, DirMoves, WatchMoves, BoardMoves,
     TurnMoves
<1>3. QED
  BY <1>1, <1>2, PTL DEF SupervisionSpec, BudgetSpec, LifeSpec, WatchSpec, DirSpec, BoardSpec, TurnSpec

\* No trip, lift or failing statement takes a pause of the operator away, leaves one
\* of its own behind or lets the brake outlive its cap (budget.rs).
THEOREM BrakeHolds == SupervisionSpec => []BrakeIsWhole
<1>1. OperatorPauseSurvives /\ NoHalfTrip /\ NoBrakeWithoutCap => BrakeIsWhole
  BY DEF BrakeIsWhole
<1>2. QED
  BY <1>1, PartsBehave, OperatorPausesSurvive, TripsAreWhole, BrakeNeedsCap, PTL

\* Between two resets an agent is poked a bounded number of times, and it is marked
\* only after a window of silence for each poke and one more (stuck_watchdog.rs).
THEOREM SilenceIsFair == SupervisionSpec => SilenceIsTested
  BY PartsBehave, WatchIsPatient, PTL DEF SilenceIsTested

\* However signs of life change between sweeps and while victims are torn down, the
\* reaper by itself leaves a direction its captain (reap_extra_orchestrators).
THEOREM CaptainStays == SupervisionSpec => []OneCaptainIsKept
  BY PartsBehave, CaptainIsKept, PTL

\* Whichever component moves, its variables keep the shapes the code gives them.
THEOREM TypesHold ==
  ASSUME ~NamesAreReused
  PROVE  SupervisionSpec => []SupervisionTypesOK
<1>1. SupervisionSpec => [](part \in Parts)
  <2>1. SupervisionInit => part \in Parts
    BY DEF SupervisionInit
  <2>2. part \in Parts /\ [SupervisionNext]_supervisionVars => (part \in Parts)'
    BY DEF SupervisionNext, supervisionVars, BudgetMoves, LifeMoves, DirMoves, WatchMoves, BoardMoves,
       TurnMoves, Only
  <2>3. QED
    BY <2>1, <2>2, PTL DEF SupervisionSpec
<1>2. part \in Parts /\ BudgetTypeOK /\ LifeTypeOK /\ DirTypeOK /\ WatchTypeOK /\ BoardTypeOK /\ TurnTypeOK
        => SupervisionTypesOK
  BY PartsAssumption DEF SupervisionTypesOK
<1>3. DirSpec => []DirTypeOK
  BY DirTypeCorrect
<1>4. QED
  BY <1>1, <1>2, <1>3, PartsBehave, BudgetTypes, LifeTypes, WatchTypes, BoardTypeCorrect, TurnTypes, PTL

\* Whatever handlers, isolation tasks, failures and restarts meet, a direction that
\* is being prepared has somebody who will finish it, its worktree is there, and a
\* clean merge brings all of its work, as long as no two directions ever share a
\* name (routes/workspaces.rs, worktree.rs).
THEOREM DirectionsHold ==
  ASSUME ~NamesAreReused
  PROVE  SupervisionSpec => DirectionsAreReal
<1>1. PreparingIsAttended /\ WorktreeIsReal => DirectionsReal
  BY DEF DirectionsReal
<1>2. DirSpec => []PreparingIsAttended /\ []WorktreeIsReal /\ MergedIsWhole
  BY PreparationIsAttended, WorktreesAreThere, MergesAreWhole
<1>3. QED
  BY <1>1, <1>2, PartsBehave, PTL DEF DirectionsAreReal

\* The blackboard, its op-log and its events tell the same story, through torn
\* writes, crashes and edits by hand, and no key is forgotten (swarm.rs).
THEOREM BoardHolds == SupervisionSpec => BoardIsHonest
<1>1. NeverTorn /\ OkIsAnnounced /\ BootFindsAll /\ TextIsRecorded => BoardHonest
  BY DEF BoardHonest
<1>2. QED
  BY <1>1, PartsBehave, FilesAreWhole, OksAreAnnounced, BootFindsThemAll, TextsAreRecorded, KeysAreKept, PTL
     DEF BoardIsHonest
=============================================================================
