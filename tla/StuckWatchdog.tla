---------------------------- MODULE StuckWatchdog ---------------------------
(***************************************************************************)
(* The detector of silent agents, for one agent.                            *)
(*                                                                         *)
(* Once a minute a sweep reads the agent's row, clears a stuck mark that    *)
(* activity has outlived, and otherwise weighs whether an agent that owes a *)
(* handoff and waits for nothing has been silent too long.  It wakes it,    *)
(* twice, and then marks it; it never kills.  Between the reads of a sweep  *)
(* and its write the agent may stir, the operator may pause it and another  *)
(* detector may record an error.                                            *)
(*                                                                         *)
(* Times are ages in minutes, up to the largest the code tells apart.  A    *)
(* sweep is over before the minute is, and starts with it: whatever happens *)
(* after its first step is newer than the time it works with.               *)
(***************************************************************************)
EXTENDS Naturals

CONSTANTS
  Silence,        \* SILENCE_THRESHOLD, in minutes
  MaxWakes,       \* MAX_WATCHDOG_WAKES
  MaxWatchFaults  \* failing store calls

ASSUME WatchAssumption == {Silence, MaxWakes, MaxWatchFaults} \subseteq Nat

MaxAge == (MaxWakes + 1) * Silence + 1
NoError == "none"
Stuck == "stuck"
Other == "other"          \* auth, rate limit, first response, health

VARIABLES
  watched,   \* the agent's row: live, ready, error
  workerProcess,   \* the process lives, the operator has paused it
  debt,      \* a handoff is owed, an input is awaited
  sign,      \* age of the last sign of life
  mind,      \* the watchdog's WatchState of the agent
  outlived,  \* the newest sign is newer than the recorded mark
  signed,     \* a sign came since the sweep that marked began
  sweep,     \* where the sweep is, and what it has read
  sweepDue,       \* the minute's sweep has not begun
  pokes,     \* wakes since the count was last reset
  spare      \* what is left of the faults

watchVars == <<watched, workerProcess, debt, sign, mind, outlived, signed, sweep, sweepDue, pokes, spare>>
agentPart == <<watched, workerProcess, debt, sign>>

Forgotten == [tracked |-> FALSE, wakes |-> 0, at |-> MaxAge, stirred |-> FALSE]
AtRest == [pc |-> "rest", row |-> [live |-> FALSE, ready |-> FALSE, error |-> NoError],
           sign |-> 0, stirred |-> FALSE, news |-> FALSE]

WatchInit ==
  /\ watched = [live |-> TRUE, ready |-> FALSE, error |-> NoError]
  /\ workerProcess = [alive |-> TRUE, paused |-> FALSE]
  /\ debt \in [owes : BOOLEAN, waits : BOOLEAN]
  /\ sign = 0 /\ mind = Forgotten /\ outlived = FALSE /\ signed = FALSE
  /\ sweep = AtRest /\ sweepDue = FALSE
  /\ pokes = 0 /\ spare = MaxWatchFaults

Older(age) == IF age < MaxAge THEN age + 1 ELSE age
Trips == spare > 0 /\ spare' = spare - 1

MinutePasses ==
  /\ sweep.pc = "rest" /\ ~sweepDue
  /\ sign' = Older(sign) /\ mind' = [mind EXCEPT !.at = Older(@)]
  /\ sweepDue' = TRUE
  /\ UNCHANGED <<watched, workerProcess, debt, outlived, signed, sweep, pokes, spare>>

-----------------------------------------------------------------------------
(* The agent and the people around it.                                      *)

\* Everything that bears the agent's hand is a sign of life, on any channel.
Stir ==
  /\ sign' = 0 /\ mind' = [mind EXCEPT !.stirred = TRUE]
  /\ outlived' = TRUE /\ signed' = TRUE /\ sweep' = [sweep EXCEPT !.news = TRUE]

Stirs ==
  /\ workerProcess.alive /\ ~sweepDue /\ Stir
  /\ UNCHANGED <<watched, workerProcess, debt, sweepDue, pokes, spare>>

Delivers ==
  /\ workerProcess.alive /\ ~sweepDue /\ debt.owes /\ Stir
  /\ debt' = [debt EXCEPT !.owes = FALSE]
  /\ UNCHANGED <<watched, workerProcess, sweepDue, pokes, spare>>

\* Subscriptions come and go, and their keys get written.
Depends ==
  /\ debt' = [debt EXCEPT !.waits = ~@]
  /\ UNCHANGED <<watched, workerProcess, sign, mind, outlived, signed, sweep, sweepDue, pokes, spare>>

WorkerReady ==
  /\ watched' = [watched EXCEPT !.ready = TRUE] /\ watched # watched'
  /\ UNCHANGED <<workerProcess, debt, sign, mind, outlived, signed, sweep, sweepDue, pokes, spare>>

Pauses ==
  /\ workerProcess' = [workerProcess EXCEPT !.paused = ~@]
  /\ UNCHANGED <<watched, debt, sign, mind, outlived, signed, sweep, sweepDue, pokes, spare>>

\* Another detector records its error, or somebody who heard the agent since
\* the last wake clears whatever is recorded.  That is why a count which went
\* with a mark is never weighed again, and WatchState.marked is left out.
OtherErrs ==
  /\ watched.live
  /\ \/ watched' = [watched EXCEPT !.error = Other]
     \/ (~mind.tracked \/ mind.stirred) /\ watched' = [watched EXCEPT !.error = NoError]
  /\ watched # watched'
  /\ UNCHANGED <<workerProcess, debt, sign, mind, outlived, signed, sweep, sweepDue, pokes, spare>>

WorkerDies ==
  /\ workerProcess.alive /\ workerProcess' = [workerProcess EXCEPT !.alive = FALSE]
  /\ UNCHANGED <<watched, debt, sign, mind, outlived, signed, sweep, sweepDue, pokes, spare>>

ExitIsRecorded ==
  /\ ~workerProcess.alive /\ watched.live /\ watched' = [watched EXCEPT !.live = FALSE]
  /\ UNCHANGED <<workerProcess, debt, sign, mind, outlived, signed, sweep, sweepDue, pokes, spare>>

-----------------------------------------------------------------------------
(* The sweep.                                                               *)

Rests == sweep' = AtRest
Forgets == mind' = Forgotten /\ pokes' = 0

\* list_agents; the time of the sweep is taken here.
SweepReads ==
  /\ sweepDue /\ sweepDue' = FALSE
  /\ sweep' = [AtRest EXCEPT !.pc = "recover", !.row = watched]
  /\ UNCHANGED <<agentPart, mind, outlived, signed, pokes, spare>>

\* Pass 1.  A mark that a sign of life has outlived is cleared, and so is
\* whatever was recorded over it since the row was read.
SweepRecovers ==
  LET clears == sweep.row.live /\ sweep.row.error = Stuck /\ outlived IN
  /\ sweep.pc = "recover" /\ sweep' = [sweep EXCEPT !.pc = "probe"]
  /\ watched' = IF clears THEN [watched EXCEPT !.error = NoError] ELSE watched
  /\ IF clears \/ ~sweep.row.live THEN Forgets ELSE UNCHANGED <<mind, pokes>>
  /\ UNCHANGED <<workerProcess, debt, sign, outlived, signed, sweepDue, spare>>

\* Pass 2: candidates only, and when each was last heard of.
Candidate == sweep.row.live /\ sweep.row.ready /\ sweep.row.error = NoError

SweepProbes ==
  /\ sweep.pc = "probe"
  /\ IF Candidate /\ workerProcess.alive /\ ~workerProcess.paused
       THEN sweep' = [sweep EXCEPT !.pc = "weigh", !.sign = sign, !.stirred = mind.stirred]
       ELSE Rests
  /\ IF sweep.row.live /\ sweep.row.ready /\ sweep.row.error # NoError
       THEN Forgets ELSE UNCHANGED <<mind, pokes>>
  /\ UNCHANGED <<agentPart, outlived, signed, sweepDue, spare>>

\* decide: recovered, or still within the window of the last sign or wake, or
\* owing nothing, or waiting; else one more wake, or the mark.
Recovered == mind.tracked /\ sweep.stirred
Anchored == sweep.sign <= Silence \/ (mind.tracked /\ mind.at <= Silence)
ExhaustedSwapped == mind.wakes <= MaxWakes
Exhausted == mind.wakes >= MaxWakes
Suspect == ~Anchored /\ debt.owes /\ ~debt.waits

SweepWeighs ==
  /\ sweep.pc = "weigh"
  /\ IF Recovered \/ ~Suspect THEN Rests
     ELSE sweep' = [sweep EXCEPT !.pc = IF Exhausted THEN "mark" ELSE "wake"]
  /\ IF Recovered THEN Forgets ELSE UNCHANGED <<mind, pokes>>
  /\ UNCHANGED <<agentPart, outlived, signed, sweepDue, spare>>

SweepWakes ==
  /\ sweep.pc = "wake"
  /\ mind' = [tracked |-> TRUE, wakes |-> mind.wakes + 1, at |-> 0, stirred |-> sweep.news]
  /\ pokes' = pokes + 1 /\ Rests
  /\ UNCHANGED <<agentPart, outlived, signed, sweepDue, spare>>

\* The mark bears the time the sweep began.
SweepMarksLate ==
  /\ sweep.pc = "mark"
  /\ watched' = [watched EXCEPT !.error = Stuck]
  /\ outlived' = FALSE /\ signed' = sweep.news /\ Rests
  /\ UNCHANGED <<workerProcess, debt, sign, mind, sweepDue, pokes, spare>>

SweepMarks ==
  /\ sweep.pc = "mark"
  /\ watched' = [watched EXCEPT !.error = Stuck]
  /\ outlived' = sweep.news /\ signed' = sweep.news /\ Rests
  /\ UNCHANGED <<workerProcess, debt, sign, mind, sweepDue, pokes, spare>>

\* A store call of the sweep fails: of pass 1 alone, or the rest is skipped.
SweepTrips ==
  /\ Trips
  /\ \/ sweep.pc = "recover" /\ sweep' = [sweep EXCEPT !.pc = "probe"]
     \/ sweep.pc \in {"probe", "mark"} /\ Rests
  /\ UNCHANGED <<agentPart, mind, outlived, signed, sweepDue, pokes>>

-----------------------------------------------------------------------------
SweepStep ==
  \/ SweepReads \/ SweepRecovers \/ SweepProbes \/ SweepWeighs \/ SweepWakes \/ SweepMarks

WatchNext ==
  \/ MinutePasses \/ SweepStep \/ SweepTrips
  \/ Stirs \/ Delivers \/ Depends \/ WorkerReady \/ Pauses \/ OtherErrs
  \/ WorkerDies \/ ExitIsRecorded

WatchSpec == WatchInit /\ [][WatchNext]_watchVars

\* Time passes, the sweep is a task of its own, the reaper records exits.
WatchLiveSpec ==
  WatchSpec /\ WF_watchVars(MinutePasses) /\ WF_watchVars(SweepStep) /\ WF_watchVars(ExitIsRecorded)

-----------------------------------------------------------------------------
Ages == 0..MaxAge
WatchTypeOK ==
  /\ watched \in [live : BOOLEAN, ready : BOOLEAN, error : {NoError, Stuck, Other}]
  /\ workerProcess \in [alive : BOOLEAN, paused : BOOLEAN]
  /\ debt \in [owes : BOOLEAN, waits : BOOLEAN]
  /\ {sign, sweep.sign, mind.at} \subseteq Ages
  /\ mind.wakes \in 0..MaxWakes
  /\ mind.tracked <=> mind.wakes > 0
  /\ spare \in 0..MaxWatchFaults

\* An agent is marked only after as many full windows of silence as there are
\* wakes, and one more: every wake gets a window to land before the next counts.
MarkNeedsSilence ==
  [][SweepMarks => sweep.sign > (MaxWakes + 1) * Silence]_watchVars

\* Between two resets of the count the watchdog pokes an agent at most
\* MaxWakes times, however often delivery fails.
PokesAreBounded == pokes <= MaxWakes

\* A mark never outlives activity: a sign of life that came after the sweep
\* that marked had begun clears it in the end.
MarkIsOutlived ==
  (watched.live /\ watched.error = Stuck /\ signed)
    ~> (~watched.live \/ watched.error # Stuck)

\* An agent that for ever owes a handoff, waits for nothing and shows no sign of
\* life is reported, by this detector or another.
SilentDebtorIsMarked ==
  <>[](watched.live /\ watched.ready /\ workerProcess.alive /\ ~workerProcess.paused
       /\ debt.owes /\ ~debt.waits /\ sign = MaxAge)
    => []<>(watched.error # NoError)
=============================================================================
