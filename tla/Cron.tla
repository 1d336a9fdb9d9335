-------------------------------- MODULE Cron --------------------------------
(***************************************************************************)
(* Scheduled prompts: the scheduler's loop, the "run now" requests that    *)
(* share run_job with it, and the operators who edit the table meanwhile.  *)
(*                                                                         *)
(* run_job awaits at every step, and reviving a captain takes as long as a *)
(* spawn does: the minute a prompt is delivered in is not the minute its   *)
(* schedule matched.  The clock counts ticks of half a minute.             *)
(***************************************************************************)
EXTENDS Integers, Sequences, SequencesExt, FiniteSets

CONSTANTS
  CronJobs,      \* jobs, in the order of their list
  RunClicks,        \* "run now" requests
  CronHorizon,   \* bound: ticks
  CronMeddling,  \* bound: edits, brakes and exits of captains
  CronFaults     \* bound: failed statements and spawns

ASSUME CronAssumption ==
  /\ IsFiniteSet(CronJobs) /\ "scheduler" \notin RunClicks
  /\ {CronHorizon, CronMeddling, CronFaults} \subseteq Nat

VARIABLES
  clock, tickDue,  \* the time, and a tick the scheduler has not taken
  job,             \* the table: is it in it, on, last run, minutes its expression matches
  space,           \* the workspace: live, deleted but its jobs not yet disabled, deleted
  brake,           \* its budget brake
  captain,         \* none, live, or a row whose process has exited
  run,             \* the scheduler's and each request's run
  delivered,       \* history: prompts delivered, by job and minute
  astray,          \* history: one was delivered into a deleted workspace
  excused,         \* history: jobs that two runs were about at once, or whose stamp failed
  spent,           \* requests that were made
  meddled, cronFaults

cronVars == <<clock, tickDue, job, space, brake, captain, run, delivered, astray, excused, spent, meddled, cronFaults>>

ThisMinute == clock \div 2
Minutes == 0 .. CronHorizon \div 2
Runners == {"scheduler"} \cup RunClicks
ListedJobs == SetToSeq({j \in CronJobs : job[j].is = "listed"})

Asleep == [pc |-> "idle", queue |-> <<>>, rows |-> <<>>, tick |-> 0, at |-> 0]

CronInit ==
  /\ clock = 0 /\ tickDue = TRUE
  /\ job \in [CronJobs -> [is : {"new", "listed"}, on : {TRUE}, last : {-1}, due : {Minutes}]]
  /\ space = "live" /\ brake = FALSE /\ captain \in {"none", "live"}
  /\ run = [r \in Runners |-> Asleep] /\ spent = {}
  /\ delivered = [j \in CronJobs |-> [m \in Minutes |-> 0]] /\ astray = FALSE /\ excused = {} /\ meddled = 0 /\ cronFaults = 0

\* A tick the busy scheduler does not take is one tick late, not two.
TickPasses ==
  /\ clock < CronHorizon /\ clock' = clock + 1 /\ tickDue' = TRUE
  /\ UNCHANGED <<job, space, brake, captain, run, delivered, astray, excused, cronFaults, meddled, spent>>

-----------------------------------------------------------------------------
(* The operators, the reaper and the brake.                                 *)

Meddles == meddled < CronMeddling /\ meddled' = meddled + 1

\* create_cron, toggle_cron, update_cron, delete_cron.
Edits ==
  /\ Meddles
  /\ \E j \in CronJobs :
       \/ job[j].is = "new" /\ job' = [job EXCEPT ![j].is = "listed"]
       \/ job[j].is = "listed" /\ job' = [job EXCEPT ![j].on = ~@]
       \/ job[j].is = "listed" /\ job' = [job EXCEPT ![j].is = "gone"]
       \/ /\ job[j].is = "listed"
          /\ \E due \in {Minutes, {0}} : job[j].due # due /\ job' = [job EXCEPT ![j].due = due]
  /\ UNCHANGED <<clock, tickDue, space, brake, captain, run, delivered, astray, excused, cronFaults, spent>>

DeletesSpace ==
  /\ Meddles
  /\ space = "live" /\ space' = "deleting"
  /\ UNCHANGED <<clock, tickDue, job, brake, captain, run, delivered, astray, excused, cronFaults, spent>>

\* Then its jobs are disabled, best effort.
DisablesJobs ==
  /\ space = "deleting" /\ space' = "deleted"
  /\ \/ job' = [j \in CronJobs |-> [job[j] EXCEPT !.on = FALSE]] /\ UNCHANGED cronFaults
     \/ cronFaults < CronFaults /\ cronFaults' = cronFaults + 1 /\ UNCHANGED job
  /\ UNCHANGED <<clock, tickDue, brake, captain, run, delivered, astray, excused, meddled, spent>>

Brakes ==
  /\ Meddles
  /\ brake' = ~brake
  /\ UNCHANGED <<clock, tickDue, job, space, captain, run, delivered, astray, excused, cronFaults, spent>>

\* The captain's process exits; the reaper gives its row a killed_at later.
CaptainGoes ==
  /\ Meddles
  /\ \/ captain = "live" /\ captain' = "exited"
     \/ captain = "exited" /\ captain' = "none"
  /\ UNCHANGED <<clock, tickDue, job, space, brake, run, delivered, astray, excused, cronFaults, spent>>

-----------------------------------------------------------------------------
(* The runs.                                                                *)

\* What a run is about: the jobs it has yet to decide on or is running.
About(r) == IF run[r].pc = "idle" THEN {} ELSE {run[r].queue[i] : i \in DOMAIN run[r].queue}
Overlaps(js) == {j \in js : \E o \in Runners : j \in About(o)}

Set(r, f) == run' = [run EXCEPT ![r] = f]
CurrentJob(r) == Head(run[r].queue)
JobRow(r) == job[CurrentJob(r)]

\* The run is done with its job: the next one, if any.
NextJob(r) ==
  LET rest == Tail(run[r].queue)
  IN Set(r, IF rest = <<>> THEN Asleep ELSE [run[r] EXCEPT !.queue = rest, !.pc = "decide"])

\* A tick reads the table once.
TakesTick ==
  /\ run["scheduler"].pc = "idle" /\ tickDue /\ tickDue' = FALSE
  /\ \/ /\ IF ListedJobs = <<>> THEN UNCHANGED run
           ELSE Set("scheduler", [pc |-> "decide", queue |-> ListedJobs, rows |-> job, tick |-> ThisMinute, at |-> 0])
        /\ excused' = excused \cup Overlaps({j \in CronJobs : job[j].is = "listed"})
        /\ UNCHANGED cronFaults
     \/ /\ cronFaults < CronFaults /\ cronFaults' = cronFaults + 1
        /\ UNCHANGED <<run, excused>>
  /\ UNCHANGED <<clock, job, space, brake, captain, delivered, astray, meddled, spent>>

\* The scheduler takes a job of its list, whatever it did before.
DecidesAnyway(r) ==
  /\ run[r].pc = "decide"
  /\ LET row == run[r].rows[CurrentJob(r)]
     IN IF row.on /\ run[r].tick \in row.due
        THEN Set(r, [run[r] EXCEPT !.pc = "gate"]) ELSE NextJob(r)
  /\ UNCHANGED <<clock, tickDue, job, space, brake, captain, delivered, astray, excused, cronFaults, meddled, spent>>

\* The scheduler takes a job of its list: enabled, matching the tick's minute,
\* and not run in it, as of the tick.
Decides(r) ==
  /\ run[r].pc = "decide"
  /\ LET row == run[r].rows[CurrentJob(r)]
     IN IF row.on /\ run[r].tick \in row.due /\ row.last # run[r].tick
        THEN Set(r, [run[r] EXCEPT !.pc = "gate"]) ELSE NextJob(r)
  /\ UNCHANGED <<clock, tickDue, job, space, brake, captain, delivered, astray, excused, cronFaults, meddled, spent>>

\* run_cron: on or off, due or not, but not run in this minute.
RunsNow(r, j) ==
  /\ job[j].is = "listed" /\ r \in RunClicks \ spent /\ spent' = spent \cup {r}
  /\ IF job[j].last = ThisMinute THEN UNCHANGED <<run, excused>>
     ELSE /\ Set(r, [pc |-> "gate", queue |-> <<j>>, rows |-> <<>>, tick |-> ThisMinute, at |-> 0])
          /\ excused' = excused \cup Overlaps({j})
  /\ UNCHANGED <<clock, tickDue, job, space, brake, captain, delivered, astray, meddled, cronFaults>>

\* run_job: the brake's gate and the list of agents.  Any unkilled captain
\* will do.
Gates(r) ==
  /\ run[r].pc = "gate"
  /\ IF brake THEN NextJob(r)
     ELSE Set(r, [run[r] EXCEPT !.pc = IF captain = "none" THEN "revive" ELSE "send"])
  /\ UNCHANGED <<clock, tickDue, job, space, brake, captain, delivered, astray, excused, cronFaults, meddled, spent>>

\* revive_orchestrator: the init spell, in a deleted workspace too; it reuses
\* a captain who came up meanwhile, or its spawn fails.
Revives(r) ==
  /\ run[r].pc = "revive"
  /\ \/ captain' = "live" /\ Set(r, [run[r] EXCEPT !.pc = "send"]) /\ UNCHANGED cronFaults
     \/ /\ cronFaults < CronFaults /\ cronFaults' = cronFaults + 1
        /\ NextJob(r) /\ UNCHANGED captain
  /\ UNCHANGED <<clock, tickDue, job, space, brake, delivered, astray, excused, meddled, spent>>

\* The prompt goes to the captain's mailbox; `at' is the minute it says.
DeliversPrompt(r) ==
  /\ run[r].pc = "send"
  /\ Set(r, [run[r] EXCEPT !.pc = "stamp", !.at = ThisMinute])
  /\ delivered' = [delivered EXCEPT ![CurrentJob(r)][ThisMinute] = IF @ = 2 THEN 2 ELSE @ + 1]
  /\ astray' = (astray \/ space = "deleted")
  /\ UNCHANGED <<clock, tickDue, job, space, brake, captain, excused, meddled, cronFaults, spent>>

\* The wake, best effort, and the stamp, whose failure is ignored.
Stamps(r) ==
  /\ run[r].pc = "stamp" /\ NextJob(r)
  /\ \/ job' = [job EXCEPT ![CurrentJob(r)].last = IF JobRow(r).is = "listed" THEN run[r].at ELSE @]
        /\ UNCHANGED <<excused, cronFaults>>
     \/ /\ cronFaults < CronFaults /\ cronFaults' = cronFaults + 1
        /\ excused' = excused \cup {CurrentJob(r)} /\ UNCHANGED job
  /\ UNCHANGED <<clock, tickDue, space, brake, captain, delivered, astray, meddled, spent>>

-----------------------------------------------------------------------------
CronNext ==
  \/ TickPasses \/ Edits \/ DeletesSpace \/ DisablesJobs \/ Brakes \/ CaptainGoes \/ TakesTick
  \/ \E r \in Runners :
       \/ Decides(r) \/ Gates(r) \/ Revives(r) \/ DeliversPrompt(r) \/ Stamps(r)
       \/ \E j \in CronJobs : RunsNow(r, j)

CronSpec == CronInit /\ [][CronNext]_cronVars

-----------------------------------------------------------------------------
(* Properties.                                                              *)

CronTypeOK ==
  /\ clock \in 0 .. CronHorizon /\ tickDue \in BOOLEAN /\ brake \in BOOLEAN
  /\ job \in [CronJobs -> [is : {"new", "listed", "gone"}, on : BOOLEAN, last : Minutes \cup {-1}, due : {Minutes, {0}}]]
  /\ space \in {"live", "deleting", "deleted"} /\ captain \in {"none", "live", "exited"}
  /\ \A r \in Runners :
       /\ run[r].pc \in {"idle", "decide", "gate", "revive", "send", "stamp"}
       /\ run[r].pc # "idle" => run[r].queue # <<>>
       /\ run[r].tick \in 0 .. ThisMinute /\ run[r].at \in 0 .. ThisMinute
  /\ excused \subseteq CronJobs /\ astray \in BOOLEAN /\ spent \subseteq RunClicks
  /\ delivered \in [CronJobs -> [Minutes -> 0 .. 2]] /\ meddled \in 0 .. CronMeddling /\ cronFaults \in 0 .. CronFaults

\* However late a run delivers, a job is delivered twice in one minute only if
\* two runs were about it at once, or a stamp failed.
DoublesNeedOverlap ==
  \A j \in CronJobs, m \in Minutes : delivered[j][m] > 1 => j \in excused

\* A job says it ran in a minute only if its prompt was delivered in it: a run
\* that failed at any step leaves the job to the next tick.
StampMeansDelivered == \A j \in CronJobs : job[j].last # -1 => delivered[j][job[j].last] > 0

\* What run_cron says of the minute: a job that already fired in it, by the
\* scheduler or by a click, is not delivered a second time.
OncePerMinute == \A j \in CronJobs, m \in Minutes : delivered[j][m] <= 1

\* What delete_workspace_handler says of the jobs: they stop firing into a
\* workspace that is gone.
GoneSpaceIsQuiet == ~astray
=============================================================================
