----------------------------- MODULE AgentLife -----------------------------
(***************************************************************************)
(* The life of the captains (orchestrators) of one direction: spawning     *)
(* them, recording how they end, and keeping one.                          *)
(*                                                                         *)
(* A spawn looks for a live captain in the agents table, counts the        *)
(* registry, forks the process, inserts the row, subscribes to the         *)
(* process's lifecycle channel and registers the agent last.  A process    *)
(* ends with an OSC marker, which the PTY pump latches and broadcasts, or  *)
(* without one.  The reaper sweeps the registry every few seconds: it      *)
(* writes process ids to the table, detects unmarked deaths, evicts slots  *)
(* that are spent, and tears down every captain but the best.  A person    *)
(* kills agents; the server crashes and reaps at boot what it left behind. *)
(*                                                                         *)
(* Time is abstracted to order: an agent's spawned_at is its rank.         *)
(***************************************************************************)
EXTENDS Naturals, FiniteSets

CONSTANTS
  Captains,       \* spawn requests, each for one captain: 1 .. n, by age
  MaxLive,        \* SWARMX_MAX_LIVE_AGENTS
  MaxKills,       \* captains killed by a person
  MaxEnds,        \* processes that end by themselves
  MaxLifeFaults,  \* store calls that fail, requests that are dropped
  MaxServerCrashes      \* crashes of the server

ASSUME LifeAssumption ==
  /\ Captains \subseteq Nat \ {0}
  /\ {MaxLive, MaxKills, MaxEnds, MaxLifeFaults, MaxServerCrashes} \subseteq Nat

VARIABLES
  spawn,      \* where each request is
  captainProcess,    \* each captain's process
  latched,    \* captains whose exit is latched in their slot's lifecycle
  pending,    \* captains whose lifecycle task has an exit to record
  row,        \* the table agents: exists, ended, its ledger entry
  registry,   \* live slots
  teardown,   \* how far the teardown of each captain is
  reaper,     \* what the reaper is at: victims it found, the one at hand
  unheard,    \* captains that printed their exit marker to no subscriber
  mishap,     \* something other than the reaper took a captain away
  bound       \* what is left of the bounds

lifeVars == <<spawn, captainProcess, latched, pending, row, registry, teardown, reaper, unheard, mishap, bound>>

None == 0
NoRow == [there |-> FALSE, sign |-> "quiet", ended |-> FALSE, boot |-> FALSE, pid |-> FALSE]

LifeInit ==
  /\ spawn = [a \in Captains |-> "none"] /\ captainProcess = [a \in Captains |-> "none"]
  /\ latched = {} /\ pending = {} /\ registry = {} /\ unheard = {} /\ mishap = FALSE
  /\ row = [a \in Captains |-> NoRow]
  /\ teardown = [a \in Captains |-> "no"]
  /\ reaper = [pc |-> "sweep", victims |-> {}, at |-> None]
  /\ bound = [kills |-> MaxKills, ends |-> MaxEnds, faults |-> MaxLifeFaults, crashes |-> MaxServerCrashes]

Pay(what) == bound[what] > 0 /\ bound' = [bound EXCEPT ![what] = @ - 1]
Stage(a, to) == spawn' = [spawn EXCEPT ![a] = to]
ListedLive(a) == row[a].there /\ ~row[a].ended

-----------------------------------------------------------------------------
(* The spawn path: spawn_agent or run_spell, then spawn_with_bookkeeping.    *)

\* A live captain of the direction is reused; a table that cannot be read
\* counts as empty.
LookForCaptain(a) ==
  /\ spawn[a] = "none"
  /\ \A b \in Captains : b < a => spawn[b] # "none"
  /\ \/ Stage(a, IF \E b \in Captains : ListedLive(b) THEN "reused" ELSE "looked") /\ UNCHANGED bound
     \/ Stage(a, "looked") /\ (\E b \in Captains : ListedLive(b)) /\ Pay("faults")
  /\ UNCHANGED <<captainProcess, latched, pending, row, registry, teardown, reaper, unheard, mishap>>

\* The cap counts the registry.
CheckLiveCap(a) ==
  /\ spawn[a] = "looked"
  /\ Stage(a, IF Cardinality(registry) >= MaxLive THEN "refused" ELSE "admitted")
  /\ UNCHANGED <<captainProcess, latched, pending, row, registry, teardown, reaper, unheard, mishap, bound>>

Fork(a) ==
  /\ spawn[a] = "admitted"
  /\ Stage(a, "forked") /\ captainProcess' = [captainProcess EXCEPT ![a] = "up"]
  /\ UNCHANGED <<latched, pending, row, registry, teardown, reaper, unheard, mishap, bound>>

\* A row that cannot be inserted is only logged.
RecordSpawn(a) ==
  /\ spawn[a] = "forked" /\ Stage(a, "recorded")
  /\ \/ row' = [row EXCEPT ![a] = [NoRow EXCEPT !.there = TRUE]] /\ UNCHANGED bound
     \/ UNCHANGED row /\ Pay("faults")
  /\ UNCHANGED <<captainProcess, latched, pending, registry, teardown, reaper, unheard, mishap>>

Subscribe(a) ==
  /\ spawn[a] = "recorded" /\ Stage(a, "listening")
  /\ UNCHANGED <<captainProcess, latched, pending, row, registry, teardown, reaper, unheard, mishap, bound>>

Enroll(a) ==
  /\ spawn[a] = "listening" /\ Stage(a, "enrolled")
  /\ registry' = registry \cup {a}
  /\ UNCHANGED <<captainProcess, latched, pending, row, teardown, reaper, unheard, mishap, bound>>

\* The request's connection breaks: the handler is dropped where it stands and
\* its slot with it, which kills the process.  An insert on its way still happens.
DropSpawn(a) ==
  /\ spawn[a] \in {"forked", "recorded", "listening"} /\ Pay("faults")
  /\ Stage(a, "refused") /\ mishap' = TRUE
  /\ captainProcess' = [captainProcess EXCEPT ![a] = "dead"]
  /\ row' = IF spawn[a] = "forked" THEN [row EXCEPT ![a] = [NoRow EXCEPT !.there = TRUE]] ELSE row
  /\ UNCHANGED <<latched, pending, registry, teardown, reaper, unheard>>

-----------------------------------------------------------------------------
(* The captain at work and its end: scan_osc and the lifecycle task.         *)

\* The tailer stamps activity; HealthScanner or the first-response watchdog
\* records an error, which counts while there was no activity.
Shows(a, sign) ==
  /\ captainProcess[a] = "up" /\ row[a].there
  /\ row[a].sign = "quiet" \/ (row[a].sign = "error" /\ sign = "active")
  /\ row[a].sign # sign
  /\ row' = [row EXCEPT ![a].sign = sign]
  /\ UNCHANGED <<spawn, captainProcess, latched, pending, registry, teardown, reaper, unheard, mishap, bound>>

\* The shim prints its exit marker and ends: the pump latches it and tells
\* those who subscribed.
EndsMarked(a) ==
  /\ captainProcess[a] = "up" /\ spawn[a] \in {"forked", "recorded", "listening", "enrolled"} /\ Pay("ends")
  /\ captainProcess' = [captainProcess EXCEPT ![a] = "dead"] /\ mishap' = TRUE
  /\ latched' = latched \cup {a}
  /\ IF spawn[a] \in {"listening", "enrolled"}
     THEN pending' = pending \cup {a} /\ UNCHANGED unheard
     ELSE unheard' = unheard \cup {a} /\ UNCHANGED pending
  /\ UNCHANGED <<spawn, row, registry, teardown, reaper>>

\* SIGKILL, OOM: no marker.
EndsUnmarked(a) ==
  /\ captainProcess[a] = "up" /\ spawn[a] \in {"forked", "recorded", "listening", "enrolled"} /\ Pay("ends")
  /\ captainProcess' = [captainProcess EXCEPT ![a] = "dead"] /\ mishap' = TRUE
  /\ UNCHANGED <<spawn, latched, pending, row, registry, teardown, reaper, unheard>>

RecordExit(a) ==
  /\ a \in pending /\ pending' = pending \ {a}
  /\ row' = [row EXCEPT ![a].ended = TRUE]
  /\ UNCHANGED <<spawn, captainProcess, latched, registry, teardown, reaper, unheard, mishap, bound>>

-----------------------------------------------------------------------------
(* teardown_agent, called by a person, or by the reaper.                     *)

TakeOut(a) ==
  /\ registry' = registry \ {a}
  /\ teardown' = [teardown EXCEPT ![a] = "out"]

Kill(a) ==
  /\ a \in registry /\ Pay("kills") /\ TakeOut(a) /\ mishap' = TRUE
  /\ UNCHANGED <<spawn, captainProcess, latched, pending, row, reaper, unheard>>

KillProcess(a) ==
  /\ teardown[a] = "out" /\ teardown' = [teardown EXCEPT ![a] = "killed"]
  /\ captainProcess' = [captainProcess EXCEPT ![a] = "dead"]
  /\ UNCHANGED <<spawn, latched, pending, row, registry, reaper, unheard, mishap, bound>>

Resume == [reaper EXCEPT !.at = None, !.pc = IF reaper.victims = {} THEN "sweep" ELSE "extra"]

\* A kill that cannot be recorded is only logged.
RecordKill(a) ==
  /\ teardown[a] = "killed" /\ teardown' = [teardown EXCEPT ![a] = "no"]
  /\ \/ row' = [row EXCEPT ![a].ended = TRUE] /\ UNCHANGED <<bound, mishap>>
     \/ UNCHANGED row /\ Pay("faults") /\ mishap' = TRUE
  /\ reaper' = IF reaper.at = a THEN Resume ELSE reaper
  /\ UNCHANGED <<spawn, captainProcess, latched, pending, registry, unheard>>

-----------------------------------------------------------------------------
(* The reaper: sweep_once, then reap_extra_orchestrators.                    *)

Sweeping(a) == reaper.pc = "sweep" /\ a \in registry

\* The process id goes to the ledger, once the row is there.
WriteLedger(a) ==
  /\ Sweeping(a) /\ row[a].there /\ ~row[a].pid
  /\ row' = [row EXCEPT ![a].pid = TRUE]
  /\ UNCHANGED <<spawn, captainProcess, latched, pending, registry, teardown, reaper, unheard, mishap, bound>>

\* A death nobody marked is latched and recorded.
DetectExit(a) ==
  /\ Sweeping(a) /\ captainProcess[a] = "dead" /\ a \notin latched
  /\ latched' = latched \cup {a}
  /\ row' = [row EXCEPT ![a].ended = TRUE]
  /\ UNCHANGED <<spawn, captainProcess, pending, registry, teardown, reaper, unheard, mishap, bound>>

\* A latched and dead slot is evicted after the grace.
Evict(a) ==
  /\ Sweeping(a) /\ captainProcess[a] = "dead" /\ a \in latched
  /\ registry' = registry \ {a}
  /\ UNCHANGED <<spawn, captainProcess, latched, pending, row, teardown, reaper, unheard, mishap, bound>>

Life(a) == CASE row[a].sign = "active" -> 2 [] row[a].sign = "quiet" -> 1 [] OTHER -> 0

\* More life is better, then more age.
Beats(a, b) == Life(a) > Life(b) \/ (Life(a) = Life(b) /\ a < b)

Candidates == {a \in Captains : ListedLive(a)}

\* Duplicates as those with an error, if there are several captains.
TheFaulty(C) == IF Cardinality(C) <= 1 THEN {} ELSE {a \in C : row[a].sign # "active"}
\* Duplicates off by one.
TheThird(C) == IF Cardinality(C) <= 2 THEN {} ELSE {a \in C : \E b \in C : Beats(b, a)}

\* duplicate_orchestrators_to_reap: all but the keeper.
Duplicates(C) == {a \in C : \E b \in C : Beats(b, a)}

FindExtra ==
  /\ reaper.pc = "sweep" /\ Duplicates(Candidates) # {}
  /\ reaper' = [pc |-> "extra", victims |-> Duplicates(Candidates), at |-> None]
  /\ UNCHANGED <<spawn, captainProcess, latched, pending, row, registry, teardown, unheard, mishap, bound>>

\* A victim that is not registered is passed over: the next sweep meets it.
ReapNext(a) ==
  /\ reaper.pc = "extra" /\ reaper.at = None /\ a \in reaper.victims
  /\ IF a \in registry
     THEN TakeOut(a) /\ reaper' = [reaper EXCEPT !.victims = @ \ {a}, !.at = a]
     ELSE /\ reaper' = [reaper EXCEPT !.victims = @ \ {a}, !.pc = IF reaper.victims = {a} THEN "sweep" ELSE @]
          /\ UNCHANGED <<registry, teardown>>
  /\ UNCHANGED <<spawn, captainProcess, latched, pending, row, unheard, mishap, bound>>

-----------------------------------------------------------------------------
(* The server crashes; main settles the rows, the reaper the processes.      *)

\* A process may outlive its server.
ServerCrashes ==
  /\ Pay("crashes") /\ mishap' = TRUE
  /\ \E left \in SUBSET {a \in Captains : captainProcess[a] = "up"} :
       captainProcess' = [a \in Captains |-> IF captainProcess[a] = "up" /\ a \notin left THEN "dead" ELSE captainProcess[a]]
  /\ row' = [a \in Captains |-> IF ListedLive(a) THEN [row[a] EXCEPT !.ended = TRUE, !.boot = TRUE] ELSE row[a]]
  /\ spawn' = [a \in Captains |-> IF spawn[a] = "none" THEN "none" ELSE "refused"]
  /\ latched' = {} /\ pending' = {} /\ registry' = {}
  /\ teardown' = [a \in Captains |-> "no"]
  /\ reaper' = [pc |-> "boot", victims |-> {}, at |-> None]
  /\ UNCHANGED unheard

\* reap_orphan_processes: the processes on the ledger of the rows this boot
\* settled, if they are still the recorded ones.
BootReap ==
  /\ reaper.pc = "boot" /\ reaper' = [reaper EXCEPT !.pc = "sweep"]
  /\ captainProcess' = [a \in Captains |->
       IF row[a].boot /\ row[a].pid /\ captainProcess[a] = "up" THEN "dead" ELSE captainProcess[a]]
  /\ UNCHANGED <<spawn, latched, pending, row, registry, teardown, unheard, mishap, bound>>

-----------------------------------------------------------------------------
SpawnSteps(a) == CheckLiveCap(a) \/ Fork(a) \/ RecordSpawn(a) \/ Subscribe(a) \/ Enroll(a)
TeardownSteps(a) == KillProcess(a) \/ RecordKill(a)
ReaperSteps == FindExtra \/ (\E a \in Captains : ReapNext(a)) \/ BootReap

LifeNext ==
  \/ \E a \in Captains :
       \/ LookForCaptain(a) \/ SpawnSteps(a) \/ DropSpawn(a)
       \/ Shows(a, "active") \/ Shows(a, "error")
       \/ EndsMarked(a) \/ EndsUnmarked(a) \/ RecordExit(a)
       \/ Kill(a) \/ TeardownSteps(a)
       \/ WriteLedger(a) \/ DetectExit(a) \/ Evict(a)
  \/ ReaperSteps \/ ServerCrashes

LifeSpec == LifeInit /\ [][LifeNext]_lifeVars

\* Handlers and tasks run on; a sweep visits every slot, and no slot is swept
\* out of the reaper's turn: its ticks never stop.
LifeFairness ==
  /\ WF_lifeVars(ReaperSteps)
  /\ \A a \in Captains :
       /\ WF_lifeVars(SpawnSteps(a)) /\ WF_lifeVars(TeardownSteps(a)) /\ WF_lifeVars(RecordExit(a))
       /\ SF_lifeVars(DetectExit(a)) /\ SF_lifeVars(Evict(a))

LifeLiveSpec == LifeSpec /\ LifeFairness

-----------------------------------------------------------------------------
(* Properties.                                                              *)

LifeTypeOK ==
  /\ spawn \in [Captains -> {"none", "looked", "reused", "refused", "admitted", "forked", "recorded",
                             "listening", "enrolled"}]
  /\ captainProcess \in [Captains -> {"none", "up", "dead"}]
  /\ latched \cup pending \cup registry \cup unheard \subseteq Captains
  /\ row \in [Captains -> [there : BOOLEAN, sign : {"quiet", "error", "active"}, ended : BOOLEAN,
                           boot : BOOLEAN, pid : BOOLEAN]]
  /\ teardown \in [Captains -> {"no", "out", "killed"}]
  /\ reaper \in [pc : {"sweep", "extra", "boot"}, victims : SUBSET Captains, at : Captains \cup {None}]
  /\ mishap \in BOOLEAN

Alive(a) == captainProcess[a] = "up" /\ teardown[a] = "no"

\* However the signs of life of the captains change between two sweeps and
\* while victims are torn down, the reaper by itself never leaves a direction
\* that had a captain without one ("keep one captain").
OneCaptainIsKept ==
  ~mishap /\ (\E a \in Captains : spawn[a] = "enrolled") => \E a \in Captains : Alive(a)

\* Captains that slipped past the singleton gate do not stay: of any two that are
\* alive and listed one is torn down ("so exactly one captain remains").
TwinsEnd == \A a, b \in Captains : a < b =>
  (({a, b} \subseteq registry /\ Alive(a) /\ Alive(b) /\ ListedLive(a) /\ ListedLive(b))
     ~> ~({a, b} \subseteq registry))

\* The reaper is the backstop for a process that ends without a marker, or
\* whose marker was heard: the row says so in the end.
DeathIsRecorded == \A a \in Captains :
  (captainProcess[a] = "dead" /\ a \notin unheard /\ spawn[a] = "enrolled" /\ ListedLive(a)) ~> ~ListedLive(a)

\* A process that outlives its server and is on the ledger is really killed at
\* the next boot.
OrphansEnd == \A a \in Captains :
  (captainProcess[a] = "up" /\ row[a].boot /\ row[a].pid) ~> captainProcess[a] = "dead"

\* What reaper.rs says of itself: no agent is stuck forever "alive".
NobodyIsStuckAlive == \A a \in Captains :
  (captainProcess[a] = "dead" /\ spawn[a] = "enrolled" /\ ListedLive(a)) ~> ~ListedLive(a)

=============================================================================
