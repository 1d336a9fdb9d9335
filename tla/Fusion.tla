------------------------------- MODULE Fusion -------------------------------
(***************************************************************************)
(* One fusion batch: contestants implement the same need in worktrees of   *)
(* their own, a judge compares or synthesises, one winner is merged.       *)
(*                                                                         *)
(* The batch's row moves running -> judging -> done, with needs_decision   *)
(* as the way out when nobody decided.  Everybody may push it: the         *)
(* autopilot's task, a person who clicks "judge", the judge agent's own    *)
(* call of the decide endpoint, a person who decides, the watchdog of the  *)
(* judge and the recovery at boot.  All that keeps them apart are two      *)
(* conditional updates of the row.                                         *)
(*                                                                         *)
(* A worktree is abstracted to how far the work in it is; a git merge to   *)
(* whether it lands.  Time is abstracted to "the deadline has passed".     *)
(***************************************************************************)
EXTENDS Naturals, FiniteSets

CONSTANTS
  Contestants,       \* the directions that compete
  JudgeRequests,            \* requests that enter the judge stage
  Humans,            \* requests that decide
  MaxFusionFaults,   \* failing store calls and dropped requests
  MaxRosterFaults,   \* failing reads of the agents' table
  FusionRestarts,    \* restarts of the server
  MaxDeletions       \* directions deleted while they compete

Chain == "autochain"
Nobody == "nobody"
Impl == "implementing"                   \* the deadline of the contestants
Entrants == JudgeRequests \cup {Chain}          \* an entrant also names its judge direction
Directions == Contestants \cup Entrants
Curls == {"curl"} \X Entrants
Dogs == {"dog"} \X Entrants
Callers == Humans \cup Curls \cup Dogs   \* who calls the decide core

ASSUME FusionAssumption ==
  /\ Nobody \notin Directions
  /\ {MaxFusionFaults, MaxRosterFaults, FusionRestarts, MaxDeletions} \subseteq Nat

VARIABLES
  batch,     \* the row: status, winner_thread_id, judge_thread_id
  option,    \* autopilot, and whether the batch carries a check_cmd
  chain,     \* the autopilot's task
  entrant,   \* each entrant of the judge stage: where it is, its mode
  branch,    \* how far the work in each direction's worktree is
  agent,     \* the judge's agent in each judge direction
  dog,       \* the watchdog each entrant spawned
  late,      \* those whose deadline has passed
  decider,   \* where each caller of the decide core is
  landed,    \* what was merged into the base: direction and how far it was
  budget     \* what is left of the bounds

fusionVars == <<batch, option, chain, entrant, branch, agent, dog, late, decider, landed, budget>>
people == <<chain, entrant, dog, late, decider>>

Out == [pc |-> "out", auto |-> FALSE, synth |-> FALSE]
Undecided == [pc |-> "idle", winner |-> Nobody, merge |-> FALSE]

FusionInit ==
  /\ batch = [status |-> "none", winner |-> Nobody, judge |-> Nobody]
  /\ option \in [autopilot : BOOLEAN, check : BOOLEAN]
  /\ chain = "off" /\ late = {} /\ landed = {}
  /\ entrant = [e \in Entrants |-> Out]
  /\ branch = [d \in Directions |-> "none"]
  /\ agent = [e \in Entrants |-> "none"]
  /\ dog = [e \in Entrants |-> "off"]
  /\ decider = [k \in Callers |-> Undecided]
  /\ budget = [faults |-> MaxFusionFaults, roster |-> MaxRosterFaults,
               restarts |-> FusionRestarts, deletions |-> MaxDeletions]

Draw(what) == budget[what] > 0 /\ budget' = [budget EXCEPT ![what] = @ - 1]
Move(e, pc) == entrant' = [entrant EXCEPT ![e].pc = pc]
Whistle(e, to) == dog' = [dog EXCEPT ![e] = to]

\* The statements on the row: insert, conditional move, the unfinished batches.
NewRow == [batch EXCEPT !.status = "running"]
Transition(from, to) == IF batch.status = from THEN [batch EXCEPT !.status = to] ELSE batch
Unfinished == batch.status \in {"running", "judging"}
CurrentStatus == batch.status

\* There is a worktree to diff, to check and to merge.
Isolated(d) == branch[d] \in {"working", "empty", "half", "done"}

-----------------------------------------------------------------------------
(* The competition: create_fusion_handler and the contestants.              *)

\* One contestant's direction: not isolated, isolated and left to the user, or
\* with an agent that works in it.  Only the autopilot ever looks at the agents.
SpawnContestant(c) ==
  /\ batch.status = "none" /\ branch[c] = "none"
  /\ \E b \in {"degraded", "done", "working"} :
       /\ b = "working" => option.autopilot
       /\ branch' = [branch EXCEPT ![c] = b]
  /\ UNCHANGED <<batch, option, people, agent, landed, budget>>

RecordBatch ==
  /\ batch.status = "none" /\ \A c \in Contestants : branch[c] # "none"
  /\ batch' = NewRow
  /\ chain' = IF option.autopilot THEN "watch" ELSE "off"
  /\ UNCHANGED <<option, entrant, branch, agent, dog, late, decider, landed, budget>>

\* A contestant's agent has committed, or is gone.  It matters as long as the
\* autopilot waits for it.
Settles(c) ==
  /\ Unfinished /\ chain = "watch" /\ branch[c] = "working"
  /\ branch' = [branch EXCEPT ![c] = "done"]
  /\ UNCHANGED <<batch, option, people, agent, landed, budget>>

\* The judge of a synthesis writes it and commits it.  What agents do once the
\* batch is settled is left out.
EntrantWrites(e) ==
  /\ Unfinished /\ agent[e] = "live" /\ branch[e] = "empty"
  /\ branch' = [branch EXCEPT ![e] = "half"]
  /\ UNCHANGED <<batch, option, people, agent, landed, budget>>

EntrantCommits(e) ==
  /\ Unfinished /\ agent[e] = "live" /\ branch[e] = "half"
  /\ branch' = [branch EXCEPT ![e] = "done"]
  /\ UNCHANGED <<batch, option, people, agent, landed, budget>>

JudgeDies(e) ==
  /\ Unfinished /\ agent[e] = "live" /\ agent' = [agent EXCEPT ![e] = "none"]
  /\ UNCHANGED <<batch, option, people, branch, landed, budget>>

\* The user deletes a direction of the batch: its agent is torn down, its
\* worktree and branch go.
DeleteDirection(d) ==
  /\ Unfinished /\ Isolated(d) /\ Draw("deletions")
  /\ branch' = [branch EXCEPT ![d] = "deleted"]
  /\ agent' = [e \in Entrants |-> IF e = d THEN "none" ELSE agent[e]]
  /\ UNCHANGED <<batch, option, people, landed>>

-----------------------------------------------------------------------------
(* The autopilot's task: spawn_fusion_autochain.                            *)

ContestantsSettled == \A c \in Contestants : branch[c] # "working"

DeadlinePasses(x) ==
  /\ x \notin late
  /\ \/ x = Impl /\ chain = "watch"
     \/ x \in Entrants /\ dog[x] = "watch"
  /\ late' = late \cup {x}
  /\ UNCHANGED <<batch, option, chain, entrant, branch, agent, dog, decider, landed, budget>>

\* The batch left running, or its status cannot be read: the task ends.
ChainEnds ==
  /\ chain = "watch" /\ chain' = "off"
  /\ (CurrentStatus # "running" /\ UNCHANGED budget) \/ Draw("faults")
  /\ UNCHANGED <<batch, option, entrant, branch, agent, dog, late, decider, landed>>

\* Everybody settled, or the deadline passed; a table that cannot be read
\* counts as settled.
ChainEnters ==
  /\ chain = "watch" /\ CurrentStatus = "running"
  /\ \/ (ContestantsSettled \/ Impl \in late) /\ UNCHANGED budget
     \/ Draw("roster")
  /\ chain' = "off"
  /\ entrant' = [entrant EXCEPT ![Chain] = [pc |-> "building", auto |-> TRUE, synth |-> TRUE]]
  /\ UNCHANGED <<batch, option, branch, agent, dog, late, decider, landed>>

-----------------------------------------------------------------------------
(* The judge stage: judge_fusion_handler and enter_judge_stage.             *)

\* The batch is read and must be running.
Click(e) ==
  /\ e # Chain /\ entrant[e].pc = "out" /\ batch.status = "running"
  /\ \E auto, synth \in BOOLEAN :
       entrant' = [entrant EXCEPT ![e] = [pc |-> "building", auto |-> auto, synth |-> auto /\ synth]]
  /\ UNCHANGED <<batch, option, chain, branch, agent, dog, late, decider, landed, budget>>

\* Contestants are diffed and checked and the judge direction is made, in a
\* worktree or degraded.
JudgeDirection(e) == \E b \in {"empty", "degraded"} : branch' = [branch EXCEPT ![e] = b]

\* Then running -> judging, if it still is running.  Who comes too late leaves
\* a judge direction nobody uses.
Claim(e) ==
  /\ entrant[e].pc = "building"
  /\ batch' = Transition("running", "judging")
  /\ IF batch.status = "running" THEN Move(e, "claimed") /\ JudgeDirection(e)
                                ELSE Move(e, "refused") /\ UNCHANGED branch
  /\ UNCHANGED <<option, chain, agent, dog, late, decider, landed, budget>>

Bind(e) ==
  /\ entrant[e].pc = "claimed" /\ Move(e, "bound")
  /\ batch' = [batch EXCEPT !.judge = e]
  /\ UNCHANGED <<option, chain, branch, agent, dog, late, decider, landed, budget>>

\* The row is read again; in auto mode the judge is spawned, which may fail,
\* and watched either way.
Enter(e) ==
  /\ entrant[e].pc = "bound" /\ Move(e, "entered")
  /\ IF entrant[e].auto
     THEN /\ \E a \in {"live", "none"} :
               agent' = [agent EXCEPT ![e] = IF branch[e] = "deleted" THEN @ ELSE a]
          /\ Whistle(e, "watch")
     ELSE UNCHANGED <<agent, dog>>
  /\ UNCHANGED <<batch, option, chain, branch, late, decider, landed, budget>>

\* A store call fails on the way, or the client of the request is gone and
\* the handler is dropped where it stands.
Abandon(e) ==
  /\ entrant[e].pc \in {"building", "claimed", "bound"} /\ Draw("faults")
  /\ Move(e, IF entrant[e].pc = "building" THEN "refused" ELSE "abandoned")
  /\ UNCHANGED <<batch, option, chain, branch, agent, dog, late, decider, landed>>

-----------------------------------------------------------------------------
(* The verdict: decide_fusion_inner.                                        *)

AskToDecide(k, w, merge) == decider' = [decider EXCEPT ![k] = [pc |-> "validated", winner |-> w, merge |-> merge]]

\* The winner is a contestant of the batch or its judge; the status is not
\* asked.  Who asks after the verdict is only told so.
Decide(h) ==
  /\ decider[h].pc = "idle" /\ batch.status # "none" /\ batch.winner = Nobody
  /\ \E w \in (Contestants \cup {batch.judge}) \ {Nobody}, merge \in BOOLEAN : AskToDecide(h, w, merge)
  /\ UNCHANGED <<batch, option, chain, entrant, branch, agent, dog, late, landed, budget>>

\* The judge calls the endpoint: with itself once its synthesis is committed,
\* else with a contestant.
JudgeDecides(e) ==
  /\ agent[e] = "live" /\ decider[<<"curl", e>>].pc = "idle" /\ batch.judge # Nobody
  /\ batch.winner = Nobody
  /\ IF entrant[e].synth THEN branch[e] = "done" /\ AskToDecide(<<"curl", e>>, e, TRUE)
                         ELSE \E c \in Contestants : AskToDecide(<<"curl", e>>, c, TRUE)
  /\ UNCHANGED <<batch, option, chain, entrant, branch, agent, dog, late, landed, budget>>

\* Who is done deciding: a person does not ask again, a watchdog ends.
FinishDecision(k) ==
  /\ decider' = [decider EXCEPT ![k] = IF k \in Humans THEN [Undecided EXCEPT !.pc = "over"] ELSE Undecided]
  /\ dog' = [e \in Entrants |-> IF k = <<"dog", e>> THEN "off" ELSE dog[e]]

\* The winner is claimed if there is none yet.
ClaimVerdict(k) ==
  /\ decider[k].pc = "validated"
  /\ IF batch.winner = Nobody
     THEN /\ batch' = [batch EXCEPT !.winner = decider[k].winner, !.status = "done"]
          /\ IF decider[k].merge
             THEN decider' = [decider EXCEPT ![k].pc = "merging"] /\ UNCHANGED dog
             ELSE FinishDecision(k)
     ELSE FinishDecision(k) /\ UNCHANGED batch
  /\ UNCHANGED <<option, chain, entrant, branch, agent, late, landed, budget>>

\* Uncommitted work is captured and the branch merged, unless there is none,
\* the base is dirty or detached, or git refuses.
Merge(k) ==
  LET w == decider[k].winner IN
  /\ decider[k].pc = "merging" /\ FinishDecision(k)
  /\ \/ /\ Isolated(w)
        /\ landed' = landed \cup {<<w, branch[w]>>}
        /\ branch' = [branch EXCEPT ![w] = "done"]
     \/ UNCHANGED <<branch, landed>>
  /\ UNCHANGED <<batch, option, chain, entrant, agent, late, budget>>

\* A store call fails, or the caller's connection is gone.
DecideFails(k) ==
  /\ decider[k].pc \in {"validated", "merging"} /\ Draw("faults") /\ FinishDecision(k)
  /\ UNCHANGED <<batch, option, chain, entrant, branch, agent, late, landed>>

-----------------------------------------------------------------------------
(* The judge's watchdog: spawn_judge_watchdog and judge_fallback.           *)

\* A judge that is idle is taken to have given up.
JudgeSettledWhenIdle(e) == TRUE

\* Gone, or a synthesis is committed; a picking judge may just be idle.
JudgeSettled(e) == agent[e] # "live" \/ ~entrant[e].synth \/ branch[e] = "done"

\* The batch left judging, or a read fails: the watchdog ends.
DogEnds(e) ==
  /\ dog[e] \in {"watch", "grace"} /\ Whistle(e, "off")
  /\ (CurrentStatus # "judging" /\ UNCHANGED budget) \/ Draw("faults")
  /\ UNCHANGED <<batch, option, chain, entrant, branch, agent, late, decider, landed>>

DogStirs(e) ==
  /\ dog[e] = "watch" /\ CurrentStatus = "judging" /\ Whistle(e, "grace")
  /\ ((JudgeSettled(e) \/ e \in late) /\ UNCHANGED budget) \/ Draw("roster")
  /\ UNCHANGED <<batch, option, chain, entrant, branch, agent, late, decider, landed>>

\* After the grace: the judge's work is captured and wins, or the first
\* contestant that passes the check does.
DogDecides(e) ==
  /\ dog[e] = "grace" /\ CurrentStatus = "judging" /\ Whistle(e, "deciding")
  /\ IF entrant[e].synth
     THEN branch[e] \in {"half", "done"} /\ AskToDecide(<<"dog", e>>, e, TRUE)
     ELSE option.check /\ \E c \in Contestants : Isolated(c) /\ AskToDecide(<<"dog", e>>, c, TRUE)
  /\ UNCHANGED <<batch, option, chain, entrant, branch, agent, late, landed, budget>>

\* No winner to be had.
DogGivesUp(e) ==
  /\ dog[e] = "grace" /\ CurrentStatus = "judging" /\ Whistle(e, "handing over")
  /\ IF entrant[e].synth THEN branch[e] \notin {"half", "done"} ELSE TRUE
  /\ UNCHANGED <<batch, option, chain, entrant, branch, agent, late, decider, landed, budget>>

\* judging -> needs_decision, if it still is judging.
HandOver(e) ==
  /\ dog[e] = "handing over" /\ Whistle(e, "off")
  /\ batch' = Transition("judging", "needs_decision")
  /\ UNCHANGED <<option, chain, entrant, branch, agent, late, decider, landed, budget>>

HandOverFails(e) ==
  /\ dog[e] = "handing over" /\ Whistle(e, "off") /\ Draw("faults")
  /\ UNCHANGED <<batch, option, chain, entrant, branch, agent, late, decider, landed>>

-----------------------------------------------------------------------------
(* The server restarts: tasks and agents are gone, an unfinished batch is   *)
(* handed to the user.                                                      *)

\* A restart that leaves the batch where it was.
RestartForgetful ==
  /\ batch.status # "none" /\ Draw("restarts") /\ UNCHANGED batch
  /\ agent' = [e \in Entrants |-> "none"]
  /\ chain' = "off" /\ dog' = [e \in Entrants |-> "off"]
  /\ entrant' = [e \in Entrants |-> IF entrant[e].pc = "out" THEN Out ELSE [Out EXCEPT !.pc = "refused"]]
  /\ decider' = [k \in Callers |-> IF k \in Humans /\ decider[k].pc # "idle"
                                   THEN [Undecided EXCEPT !.pc = "over"] ELSE Undecided]
  /\ UNCHANGED <<option, branch, late, landed>>

Restart ==
  /\ batch.status # "none" /\ Draw("restarts")
  /\ batch' = IF Unfinished THEN [batch EXCEPT !.status = "needs_decision"] ELSE batch
  /\ agent' = [e \in Entrants |-> "none"]
  /\ chain' = "off" /\ dog' = [e \in Entrants |-> "off"]
  /\ entrant' = [e \in Entrants |-> IF entrant[e].pc = "out" THEN Out ELSE [Out EXCEPT !.pc = "refused"]]
  /\ decider' = [k \in Callers |-> IF k \in Humans /\ decider[k].pc # "idle"
                                   THEN [Undecided EXCEPT !.pc = "over"] ELSE Undecided]
  /\ UNCHANGED <<option, branch, late, landed>>

-----------------------------------------------------------------------------
EntrantSteps(e) == Claim(e) \/ Bind(e) \/ Enter(e)
DogSteps(e) == DogEnds(e) \/ DogStirs(e) \/ DogDecides(e) \/ DogGivesUp(e) \/ HandOver(e)
ChainSteps == ChainEnds \/ ChainEnters
DeciderSteps(k) == ClaimVerdict(k) \/ Merge(k)

FusionNext ==
  \/ RecordBatch \/ ChainSteps \/ Restart
  \/ \E c \in Contestants : SpawnContestant(c) \/ Settles(c)
  \/ \E d \in Directions : DeleteDirection(d)
  \/ \E x \in Entrants \cup {Impl} : DeadlinePasses(x)
  \/ \E e \in Entrants : Click(e) \/ EntrantSteps(e) \/ Abandon(e)
                         \/ EntrantWrites(e) \/ EntrantCommits(e) \/ JudgeDies(e) \/ JudgeDecides(e)
                         \/ DogSteps(e) \/ HandOverFails(e)
  \/ \E h \in Humans : Decide(h)
  \/ \E k \in Callers : DeciderSteps(k) \/ DecideFails(k)

FusionSpec == FusionInit /\ [][FusionNext]_fusionVars

\* Tasks and timers run on; agents, people and the bound of a request do not
\* owe anything.
FusionFairness ==
  /\ WF_fusionVars(ChainSteps)
  /\ \A x \in Entrants \cup {Impl} : WF_fusionVars(DeadlinePasses(x))
  /\ \A e \in Entrants : WF_fusionVars(EntrantSteps(e)) /\ WF_fusionVars(DogSteps(e))
  /\ \A k \in Callers : WF_fusionVars(DeciderSteps(k))

FusionLiveSpec == FusionSpec /\ FusionFairness

-----------------------------------------------------------------------------
(* Properties.                                                              *)

FusionTypeOK ==
  /\ batch \in [status : {"none", "running", "judging", "needs_decision", "done"},
                winner : Directions \cup {Nobody}, judge : Entrants \cup {Nobody}]
  /\ option \in [autopilot : BOOLEAN, check : BOOLEAN] /\ chain \in {"off", "watch"}
  /\ entrant \in [Entrants -> [pc : {"out", "building", "claimed", "bound", "entered",
                                     "refused", "abandoned"}, auto : BOOLEAN, synth : BOOLEAN]]
  /\ branch \in [Directions -> {"none", "degraded", "working", "empty", "half", "done", "deleted"}]
  /\ agent \in [Entrants -> {"none", "live"}]
  /\ dog \in [Entrants -> {"off", "watch", "grace", "deciding", "handing over"}]
  /\ late \subseteq Entrants \cup {Impl}
  /\ decider \in [Callers -> [pc : {"idle", "validated", "merging", "over"},
                              winner : Directions \cup {Nobody}, merge : BOOLEAN]]
  /\ landed \subseteq Directions \X {"working", "empty", "half", "done"}

\* A verdict is final: once a winner is recorded the batch is done, whatever a
\* stale watchdog, a second judge or a late decider does
\* ("a stale watchdog can never clobber a real verdict", store.rs:3639).
VerdictStands == batch.winner # Nobody <=> batch.status = "done"

\* However many callers decide at once, only the recorded winner's branch
\* reaches the base ("concurrent callers can never double-merge").
OnlyWinnerLands == \A x \in landed : x[1] = batch.winner

\* One judge per batch: of all the entrants of the judge stage only the one
\* the row is bound to has a judge agent or a watchdog
\* ("we never spawn a duplicate judge agent + watchdog").
OneJudge == \A e \in Entrants :
  agent[e] = "live" \/ dog[e] # "off" => batch.judge = e

\* A synthesis is not merged behind its author's back: the watchdog takes a
\* half-written one only from a judge that is gone or out of time.
HalfWrittenIsSpared ==
  [][\A e \in Entrants :
       (dog[e] = "grace" /\ dog'[e] = "deciding" /\ entrant[e].synth /\ agent[e] = "live")
         => branch[e] = "done" \/ e \in late]_fusionVars

\* An autopilot batch does not stay running when nothing fails: the chain
\* enters the judge stage or somebody else has.
AutopilotMoves == (batch.status = "running" /\ chain = "watch") ~> batch.status # "running"

Judged(e) == batch.status = "judging" /\ entrant[e].auto /\ entrant[e].pc \in {"claimed", "bound", "entered"}

\* A batch that was claimed for an automatic judge leaves judging, whatever the
\* judge does, unless the request that claimed it was dropped on the way.
JudgingLands == \A e \in Entrants : Judged(e) ~> (batch.status # "judging" \/ entrant[e].pc = "abandoned")

\* What the comment at the watchdog promises: an automatic batch never stalls
\* in judging.
NeverStallsInJudging == \A e \in Entrants : Judged(e) ~> batch.status # "judging"
=============================================================================
