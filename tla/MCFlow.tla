------------------------------- MODULE MCFlow -------------------------------
(***************************************************************************)
(* What passes between agents and their surroundings: messages, activity,  *)
(* transcripts, scheduled prompts, fusion verdicts.  The components share  *)
(* none of the state they model, so a behaviour runs one of them, its      *)
(* part, and the others rest in one initial state of theirs.               *)
(***************************************************************************)
EXTENDS Messages, Fusion, Activity, Transcript, Cron, CronSchedule, TLC

CONSTANTS Parts, s1, a1, a2, f1, click, human

ASSUME PartsAssumption ==
  Parts \subseteq {"messages", "fusion", "activity", "transcript", "cron", "schedule"}

VARIABLE part

\* A user's message that is posted three times at most.
MCSends == {s1}
MCAgents == {a1, a2}
MCFromUser == {s1}
MCMaxAttempts == s1 :> 3
MCTo == s1 :> a1

MCClicks == {click}
MCHumans == {human}
MCOne == {f1}
MCNobody == {}

\* Good fields and bad ones: steps of 0, numbers and ranges out of bounds,
\* Sundays as 0 and as 7, ranges that end on a Sunday, empty lists.
Star == {[is |-> "star"]}
One(n) == {[is |-> "one", n |-> n]}
Step(n) == {[is |-> "step", n |-> n]}
Span(a, b) == {[is |-> "range", a |-> a, b |-> b]}
MCExprs ==
  [minute : {Star, One(1), Step(0)}, hour : {Star, One(2), Step(2), One(9)},
   dom : {Star, One(1), One(30)}, month : {Star, One(2)},
   dow : {Star, One(0), One(7), One(4) \cup Span(5, 7), Span(6, 4), One(8), {}}]

\* 1970, 1969, the ends of February 1999, 2000, 2004 and 2100, and new years.
MCStartDays == {0, -1, 10650, 11015, 11016, 12476, 47540, 10956}
MCOffsets == {-5, 0, 4}

\* A fusion batch carries a check_cmd: one without has fewer behaviours, as a
\* check that nobody passes is like no check (DogDecides, DogGivesUp).
flowVars == <<part, msgVars, fusionVars, actVars, tailVars, cronVars, scheduleVars>>

FlowInit ==
  /\ part \in Parts
  /\ MsgInit
  /\ FusionInit /\ option.check /\ (part # "fusion" => option.autopilot)
  /\ ActInit
  /\ TailInit /\ (part # "transcript" => flavor = CHOOSE f \in Flavors : TRUE)
  /\ CronInit
  /\ part # "cron" => captain = "none" /\ \A j \in CronJobs : job[j].is = "listed"
  /\ IF part = "schedule" THEN ScheduleInit
     ELSE now = 0 /\ offset = 0 /\ expr = [f \in {"minute", "hour", "dom", "month", "dow"} |-> Star]

Only(p) == part = p /\ UNCHANGED part

MessagesMove   == Only("messages") /\ MsgNext
                  /\ UNCHANGED <<fusionVars, actVars, tailVars, cronVars, scheduleVars>>
FusionMoves    == Only("fusion") /\ FusionNext
                  /\ UNCHANGED <<msgVars, actVars, tailVars, cronVars, scheduleVars>>
ActivityMoves  == Only("activity") /\ ActNext
                  /\ UNCHANGED <<msgVars, fusionVars, tailVars, cronVars, scheduleVars>>
TranscriptMoves == Only("transcript") /\ TailNext
                  /\ UNCHANGED <<msgVars, fusionVars, actVars, cronVars, scheduleVars>>
CronMoves      == Only("cron") /\ CronNext
                  /\ UNCHANGED <<msgVars, fusionVars, actVars, tailVars, scheduleVars>>
ScheduleMoves  == Only("schedule") /\ MinuteWalks
                  /\ UNCHANGED <<msgVars, fusionVars, actVars, tailVars, cronVars>>

FlowNext ==
  MessagesMove \/ FusionMoves \/ ActivityMoves \/ TranscriptMoves \/ CronMoves \/ ScheduleMoves

FlowSpec == FlowInit /\ [][FlowNext]_flowVars

\* The fairness of Fusion and of Transcript, each for its part alone.
FlowLiveSpec ==
  /\ FlowSpec
  /\ WF_fusionVars(part = "fusion" /\ ChainSteps)
  /\ \A x \in Entrants \cup {Impl} : WF_fusionVars(part = "fusion" /\ DeadlinePasses(x))
  /\ \A e \in Entrants :
       /\ WF_fusionVars(part = "fusion" /\ EntrantSteps(e))
       /\ WF_fusionVars(part = "fusion" /\ DogSteps(e))
  /\ \A k \in Callers : WF_fusionVars(part = "fusion" /\ DeciderSteps(k))
  /\ part = "transcript" => TailFairness

------------------------------------------------------------------------------

FlowTypesOK ==
  CASE part = "messages"   -> MsgTypeOK
    [] part = "fusion"     -> FusionTypeOK
    [] part = "activity"   -> ActTypeOK
    [] part = "transcript" -> TailTypeOK
    [] part = "cron"       -> CronTypeOK
    [] part = "schedule"   -> now \in Int /\ expr \in Exprs /\ offset \in Offsets

\* A send leaves one row per handler that ran through, its sender is not told
\* before its recipient is, and no row is read unseen (routes/swarm.rs, tools.rs).
SendsAreFaithful == part = "messages" => InsertedOnce /\ ToldIsHeard /\ ReadWasShown

\* However many judges, watchdogs and people decide a batch, there is one judge
\* and one verdict, only its branch is merged, and no synthesis is taken from
\* an author who is still at it (routes/workspaces.rs).
DecidedOnce == part = "fusion" => VerdictStands /\ OnlyWinnerLands /\ OneJudge
BatchIsDecidedOnce == []DecidedOnce /\ HalfWrittenIsSpared

\* A page of activity is never behind the ring, and an answered thought trace
\* keeps its answer and its steps, whichever of its late steps and replies the
\* store sees first (swarm.rs, store.rs).
ActivityIsKept == [](part = "activity" => ViewIsFresh) /\ AnsweredOnce /\ StepsAreKept

\* While a transcript only grows, its rows are shown once and its prompts are
\* billed once (transcript.rs).
TranscriptIsReadOnce == part = "transcript" => ReadExactlyOnce /\ PromptsAreBilledOnce

\* A job is delivered once a minute but for overlapping runs, and is stamped
\* only for a minute it was delivered in (cron.rs).
CronDelivers == part = "cron" => DoublesNeedOverlap /\ StampMeansDelivered

\* The matcher, the preview and the calendar under them agree with each other
\* and with the calendar of the world (cron.rs).
ScheduleIsRight == part = "schedule" => CalendarIsRight /\ PreviewAgrees /\ AcceptedFieldsFire

\* A batch leaves running, and one that was claimed for a judge leaves judging
\* (routes/workspaces.rs).
BatchMovesOn == AutopilotMoves /\ JudgingLands
=============================================================================
