------------------------------ MODULE Activity ------------------------------
(***************************************************************************)
(* What the user sees agents do: tool steps and thought traces.             *)
(*                                                                         *)
(* Every tool step of an agent goes into a bounded ring in memory at once,  *)
(* and to the database by a task of its own; the page merges both.  A step  *)
(* that has ended also goes, by another task, into the thought trace of the *)
(* question the agent, or the agent it works for, is answering.  A question *)
(* of the user opens a trace, a reply to the user closes the newest open    *)
(* one.  The tasks of one agent run in any order.                           *)
(*                                                                         *)
(* A step is its number; what it is labelled is left out.  Time is a clock  *)
(* that every reply and every end of a step advances; the user talks to the *)
(* lead.                                                                    *)
(***************************************************************************)
EXTENDS Naturals, Sequences, FiniteSets

CONSTANTS
  MaxSteps,        \* tool steps of all agents
  MaxAsks,         \* questions of the user
  MaxReplies,      \* replies to the user
  RingCap,         \* MAX_ACTIVITY_LOG
  MaxSummary,      \* MAX_THOUGHT_TRACE_SUMMARY_STEPS
  LateWindow,      \* THOUGHT_TRACE_RECENT_DONE_APPEND_WINDOW_MS
  ActMishaps       \* failing store calls and restarts of the server

ASSUME ActivityAssumption ==
  /\ {MaxSteps, MaxAsks, MaxReplies, LateWindow, ActMishaps} \subseteq Nat
  /\ {RingCap, MaxSummary} \subseteq Nat \ {0}

Lead == "lead"
Worker == "worker"
Actors == {Lead, Worker}
Seqs == 1..MaxSteps

VARIABLES
  steps,      \* what each agent has done: the phase of every step it began
  ring,       \* activity_log: the last steps, oldest first
  stored,     \* agent_activities
  upserts,    \* tasks that store a step
  appends,    \* tasks that add an ended step to a trace
  traces,     \* thought_traces, in the order they were opened
  pushed,     \* the traces a live step was broadcast for after their end
  replies,    \* replies sent
  activityClock,
  reserve     \* mishaps that may still happen

actVars == <<steps, ring, stored, upserts, appends, traces, pushed, replies, activityClock, reserve>>

ActInit ==
  /\ steps = [a \in Actors |-> <<>>] /\ ring = [a \in Actors |-> <<>>]
  /\ stored = [a \in Actors |-> [s \in {} |-> "ok"]]
  /\ upserts = {} /\ appends = {} /\ traces = <<>> /\ pushed = {}
  /\ replies = 0 /\ activityClock = 0
  /\ reserve = ActMishaps

Mishap == reserve > 0 /\ reserve' = reserve - 1

-----------------------------------------------------------------------------
(* Tool steps.                                                              *)

InRing(r, s) == {i \in DOMAIN r : r[i].seq = s}

RecordAtEnd(r, rec) == Append(IF Len(r) > RingCap THEN Tail(r) ELSE r, rec)

\* A step's row is replaced where it is; a new one pushes the oldest out.
Record(r, rec) ==
  IF InRing(r, rec.seq) # {}
    THEN [i \in DOMAIN r |-> IF r[i].seq = rec.seq THEN rec ELSE r[i]]
    ELSE Append(IF Len(r) >= RingCap THEN Tail(r) ELSE r, rec)

RecordActivity(a, rec) ==
  /\ ring' = [ring EXCEPT ![a] = Record(@, rec)]
  /\ upserts' = upserts \cup {[by |-> a, rec |-> rec]}

StartsStep(a) ==
  LET s == Len(steps[a]) + 1 IN
  /\ Len(steps[Lead]) + Len(steps[Worker]) < MaxSteps
  /\ steps' = [steps EXCEPT ![a] = Append(@, "running")]
  /\ RecordActivity(a, [seq |-> s, phase |-> "running"])
  /\ UNCHANGED <<stored, appends, traces, pushed, replies, activityClock, reserve>>

EndsStep(a, s) ==
  /\ s \in DOMAIN steps[a] /\ steps[a][s] = "running"
  /\ steps' = [steps EXCEPT ![a][s] = "ok"]
  /\ RecordActivity(a, [seq |-> s, phase |-> "ok"])
  /\ appends' = appends \cup {[step |-> <<a, s>>, at |-> activityClock + 1]}
  /\ activityClock' = activityClock + 1
  /\ UNCHANGED <<stored, traces, pushed, replies, reserve>>

\* insert_agent_activity: the last statement to run wins.
Upsert(u) ==
  /\ u \in upserts /\ upserts' = upserts \ {u}
  /\ stored' = [stored EXCEPT ![u.by] =
       [s \in DOMAIN @ \cup {u.rec.seq} |-> IF s = u.rec.seq THEN u.rec.phase ELSE @[s]]]
  /\ UNCHANGED <<steps, ring, appends, traces, pushed, replies, activityClock, reserve>>

UpsertFails(u) ==
  /\ u \in upserts /\ Mishap /\ upserts' = upserts \ {u}
  /\ UNCHANGED <<steps, ring, stored, appends, traces, pushed, replies, activityClock>>

AgentActivity(a) ==
  LET r == ring[a]
      at == {r[i].seq : i \in DOMAIN r}
  IN [s \in at \cup DOMAIN stored[a] |->
        IF s \in at THEN r[CHOOSE i \in InRing(r, s) : TRUE].phase ELSE stored[a][s]]

-----------------------------------------------------------------------------
(* Thought traces.                                                          *)

Lineage(a) == IF a = Worker THEN {Worker, Lead} ELSE {Lead}

\* Steps already there are not repeated; beyond the limit the oldest go.
MergeSteps(old, new) ==
  LET all == IF \E i \in DOMAIN old : old[i] = new THEN old ELSE Append(old, new)
  IN IF Len(all) > MaxSummary THEN Tail(all) ELSE all

Asks(a) ==
  /\ Len(traces) < MaxAsks
  /\ traces' = Append(traces, [agent |-> a, status |-> "active",
                               done |-> 0, reply |-> 0, steps |-> <<>>])
  /\ UNCHANGED <<steps, ring, stored, upserts, appends, pushed, replies, activityClock, reserve>>

Active(agents) == {i \in DOMAIN traces : traces[i].status = "active" /\ traces[i].agent \in agents}
OfAgent(agents) == {i \in DOMAIN traces : traces[i].agent \in agents}
NewestOf(among) == CHOOSE i \in among : \A j \in among : j <= i

RepliesToLatest(a) ==
  /\ replies < MaxReplies /\ replies' = replies + 1 /\ activityClock' = activityClock + 1
  /\ traces' = IF OfAgent({a}) = {} THEN traces
               ELSE [traces EXCEPT ![NewestOf(OfAgent({a}))] =
                       [@ EXCEPT !.status = "done", !.done = activityClock + 1, !.reply = replies + 1]]
  /\ UNCHANGED <<steps, ring, stored, upserts, appends, pushed, reserve>>

\* complete_latest_thought_trace: the newest of those that are open.
Replies(a) ==
  /\ replies < MaxReplies /\ replies' = replies + 1 /\ activityClock' = activityClock + 1
  /\ traces' = IF Active({a}) = {} THEN traces
               ELSE [traces EXCEPT ![NewestOf(Active({a}))] =
                       [@ EXCEPT !.status = "done", !.done = activityClock + 1, !.reply = replies + 1]]
  /\ UNCHANGED <<steps, ring, stored, upserts, appends, pushed, reserve>>

\* append_thought_trace_event: the newest open trace of the agent or of those
\* it works for, else one that was closed a moment before the step ended.
JustDone(agents, at) ==
  {i \in DOMAIN traces : /\ traces[i].status = "done" /\ traces[i].agent \in agents
                         /\ traces[i].done <= at /\ traces[i].done + LateWindow >= at}

LatestDone(among) ==
  CHOOSE i \in among : \A j \in among : traces[j].done <= traces[i].done

AppendsStep(p) ==
  LET agents == Lineage(p.step[1])
      found == IF Active(agents) # {} THEN {NewestOf(Active(agents))}
               ELSE IF JustDone(agents, p.at) # {} THEN {LatestDone(JustDone(agents, p.at))}
               ELSE {}
  IN
  /\ p \in appends /\ appends' = appends \ {p}
  /\ traces' = [i \in DOMAIN traces |->
                  IF i \in found
                    THEN [traces[i] EXCEPT !.steps = MergeSteps(@, p.step)] ELSE traces[i]]
  /\ pushed' = pushed \cup {i \in found : traces[i].status = "done"}
  /\ UNCHANGED <<steps, ring, stored, upserts, replies, activityClock, reserve>>

AppendFails(p) ==
  /\ p \in appends /\ Mishap /\ appends' = appends \ {p}
  /\ UNCHANGED <<steps, ring, stored, upserts, traces, pushed, replies, activityClock>>

\* The ring and the tasks are gone, and the agents with them; the user's next
\* agent of the same role begins its steps anew, under an id of its own.
ActRestart ==
  /\ Mishap
  /\ ring' = [a \in Actors |-> <<>>] /\ upserts' = {} /\ appends' = {}
  /\ steps' = [a \in Actors |-> [s \in DOMAIN steps[a] |-> "gone"]]
  /\ UNCHANGED <<stored, traces, pushed, replies, activityClock>>

ActNext ==
  \/ \E a \in Actors : StartsStep(a) \/ \E s \in Seqs : EndsStep(a, s)
  \/ Asks(Lead) \/ Replies(Lead)
  \/ \E u \in upserts : Upsert(u) \/ UpsertFails(u)
  \/ \E p \in appends : AppendsStep(p) \/ AppendFails(p)
  \/ ActRestart

ActSpec == ActInit /\ [][ActNext]_actVars

-----------------------------------------------------------------------------
StepPhases == {"running", "ok"}
ActTypeOK ==
  /\ \A a \in Actors :
       /\ Len(steps[a]) <= MaxSteps /\ Len(ring[a]) <= RingCap
       /\ \A i, j \in DOMAIN ring[a] : ring[a][i].seq = ring[a][j].seq => i = j
       /\ DOMAIN stored[a] \subseteq Seqs
       /\ \A s \in DOMAIN stored[a] : stored[a][s] \in StepPhases
  /\ \A i \in DOMAIN traces :
       /\ Len(traces[i].steps) <= MaxSummary
       /\ traces[i].status = "done" <=> traces[i].reply # 0

\* The page never shows a step as running that has ended while the ring holds
\* it, in whatever order the tasks store it.
ViewIsFresh ==
  \A a \in Actors : \A i \in DOMAIN ring[a] :
    AgentActivity(a)[ring[a][i].seq] = steps[a][ring[a][i].seq]

\* A trace that was answered keeps its answer, and no reply answers two.
AnsweredOnce ==
  [][\A i \in DOMAIN traces :
       /\ traces[i].status = "done" =>
            traces'[i].status = "done" /\ traces'[i].reply = traces[i].reply
       /\ traces'[i].reply # 0 =>
            \A j \in DOMAIN traces : traces'[j].reply = traces'[i].reply => i = j]_actVars

\* A step that reached a trace stays in it, whatever order steps, replies and
\* late steps are written in, as long as the trace is below its limit.
StepsAreKept ==
  [][\A i \in DOMAIN traces : \A k \in DOMAIN traces[i].steps :
       Len(traces[i].steps) < MaxSummary =>
         \E n \in DOMAIN traces'[i].steps : traces'[i].steps[n] = traces[i].steps[k]]_actVars

\* "Upsert by (agent_id, seq) mirrors the ring's collapse-by-seq": when every
\* task has run, the table says of a step what the agent did.
DbMirrorsRing ==
  (upserts = {} /\ reserve = ActMishaps)
    => \A a \in Actors : \A s \in DOMAIN stored[a] : stored[a][s] = steps[a][s]

\* "On a successful append to a still-ACTIVE trace, push": live steps are
\* broadcast for open traces only.
OnlyOpenTracesGrow == pushed = {}
=============================================================================
