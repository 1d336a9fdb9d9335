----------------------------- MODULE FlowProofs -----------------------------
(***************************************************************************)
(* Proofs about scheduled prompts, for any jobs, requests and bounds, about *)
(* what users see of the agents' steps, about the calendar and the search  *)
(* of schedules, and about MCFlow's composition: what MessageFusionProofs,  *)
(* TranscriptProofs and the rest of this module prove of their components  *)
(* is true of it.                                                          *)
(***************************************************************************)
EXTENDS MCFlow, MessageFusionProofs, TranscriptProofs

JobRows == [is : {"new", "listed", "gone"}, on : BOOLEAN, last : Minutes \cup {-1}, due : {Minutes, {0}}]
RunStages == {"idle", "decide", "gate", "revive", "send", "stamp"}
RunStates == [pc : RunStages, queue : Seq(CronJobs), rows : [CronJobs -> JobRows] \cup {<<>>},
              tick : Minutes, at : Minutes]

\* The table, the runs and the history have their shape.
CronShapes ==
  /\ clock \in 0 .. CronHorizon
  /\ job \in [CronJobs -> JobRows] /\ run \in [Runners -> RunStates]
  /\ delivered \in [CronJobs -> [Minutes -> Nat]]
  /\ excused \subseteq CronJobs

\* A run lists a job once, a request one job, and who has not asked has none.
Tidy(r) ==
  /\ run[r].pc # "idle" => run[r].queue # <<>>
  /\ IsInjective(run[r].queue)
  /\ run[r].tick <= ThisMinute /\ run[r].at <= ThisMinute
  /\ r # "scheduler" => Len(run[r].queue) <= 1 /\ run[r].pc # "decide"
  /\ r \in RunClicks \ spent => run[r].pc = "idle"
  /\ r = "scheduler" /\ run[r].pc # "idle" => run[r].rows \in [CronJobs -> JobRows]
RunsAreTidy == \A r \in Runners : Tidy(r)

\* One run is about a job that is not excused, and a job that runs was listed.
RunsAreAlone ==
  /\ \A j \in CronJobs \ excused : \A r, o \in Runners : j \in About(r) /\ j \in About(o) => r = o
  /\ \A r \in Runners : \A j \in About(r) : job[j].is # "new"

Stamping(r, j) == run[r].pc = "stamp" /\ j = CurrentJob(r)
Decided(r, j) == run[r].pc \in {"gate", "revive", "send"} /\ j = CurrentJob(r)

Fired(j, m) == delivered[j][m] > 0

\* Nothing is stamped, or delivered, ahead of time; a stamp has its delivery.
StampsAreEarned ==
  /\ \A j \in CronJobs : job[j].last <= ThisMinute
  /\ \A j \in CronJobs : job[j].last # -1 => Fired(j, job[j].last)
  /\ \A j \in CronJobs, m \in Minutes : Fired(j, m) => m <= ThisMinute
  /\ \A r \in Runners, j \in CronJobs : Stamping(r, j) => Fired(j, run[r].at)

\* What was delivered is stamped, unless its run is just about to, or the job is gone.
DeliveriesAreStamped ==
  \A j \in CronJobs \ excused :
    /\ \A m \in Minutes : Fired(j, m) =>
         \/ job[j].is = "gone" \/ m <= job[j].last
         \/ \E r \in Runners : Stamping(r, j) /\ m <= run[r].at
    /\ \A r \in Runners : Stamping(r, j) => job[j].last <= run[r].at

\* A run that is yet to deliver a job is later than every delivery of it, or will
\* see, when it decides, that the job ran in its minute.
RunsAreLate ==
  \A j \in CronJobs \ excused : \A r \in Runners :
    j \in About(r) /\ ~Stamping(r, j) =>
      \A m \in Minutes : Fired(j, m) =>
        \/ m < run[r].tick
        \/ m = run[r].tick /\ ~Decided(r, j) /\ run[r].rows[j].last = m

\* The inductive invariant.
CronInv ==
  /\ CronShapes /\ RunsAreTidy /\ RunsAreAlone
  /\ StampsAreEarned /\ DeliveriesAreStamped /\ RunsAreLate /\ DoublesNeedOverlap
-----------------------------------------------------------------------------
(* The clock, the types and the queues.                                     *)

LEMMA MinutesGrow ==
  ASSUME CronShapes, clock' \in 0 .. CronHorizon, clock <= clock'
  PROVE  /\ ThisMinute \in Minutes /\ ThisMinute' \in Minutes /\ ThisMinute <= ThisMinute'
         /\ Minutes \subseteq Nat
         /\ \A k \in Minutes \cup {-1} : k <= ThisMinute => k <= ThisMinute'
<1>1. clock \in Nat /\ clock' \in Nat /\ CronHorizon \in Nat /\ clock <= CronHorizon /\ clock' <= CronHorizon
  BY CronAssumption DEF CronShapes
<1>2. \A a, b \in Nat : a <= b => a \div 2 \in Nat /\ b \div 2 \in Nat /\ a \div 2 <= b \div 2
  OBVIOUS
<1>3. /\ clock \div 2 \in Nat /\ clock' \div 2 \in Nat /\ CronHorizon \div 2 \in Nat
      /\ clock \div 2 <= clock' \div 2 /\ clock' \div 2 <= CronHorizon \div 2
      /\ clock \div 2 <= CronHorizon \div 2
  BY <1>1, <1>2
<1>4. \A h, a, b \in Nat : a <= b /\ b <= h =>
        /\ a \in 0 .. h /\ b \in 0 .. h /\ 0 .. h \subseteq Nat
        /\ \A k \in (0 .. h) \cup {-1} : k <= a => k <= b
  OBVIOUS
<1>5. ThisMinute = clock \div 2 /\ ThisMinute' = clock' \div 2 /\ Minutes = 0 .. (CronHorizon \div 2)
  BY DEF ThisMinute, Minutes
<1>  DEFINE a == clock \div 2
            b == clock' \div 2
            h == CronHorizon \div 2
<1>  HIDE DEF a, b, h
<1>6. /\ a \in 0 .. h /\ b \in 0 .. h /\ 0 .. h \subseteq Nat /\ a <= b
      /\ \A k \in (0 .. h) \cup {-1} : k <= a => k <= b
  <2>1. a \in Nat /\ b \in Nat /\ h \in Nat /\ a <= b /\ b <= h
    BY <1>3 DEF a, b, h
  <2>2. QED
    BY <1>4, <2>1, Zenon
<1>7. QED
  BY <1>5, <1>6, Zenon DEF a, b, h

LEMMA MinuteNow == CronShapes => ThisMinute \in Minutes /\ Minutes \subseteq Nat
  BY CronAssumption DEF CronShapes, ThisMinute, Minutes

LEMMA JobFields ==
  ASSUME NEW row \in JobRows
  PROVE  row.last \in Minutes \cup {-1} /\ row.is \in {"new", "listed", "gone"}
  BY DEF JobRows

LEMMA RunFields ==
  ASSUME NEW s \in RunStates
  PROVE  /\ s.pc \in RunStages /\ s.queue \in Seq(CronJobs) /\ s.tick \in Minutes /\ s.at \in Minutes
  BY DEF RunStates

\* What a list that names each job once becomes without its head.
LEMMA TailDrops ==
  ASSUME NEW q \in Seq(CronJobs), q # <<>>, IsInjective(q)
  PROVE  /\ Tail(q) \in Seq(CronJobs) /\ IsInjective(Tail(q)) /\ Len(Tail(q)) < Len(q)
         /\ Head(q) \in CronJobs /\ Head(q) \in {q[i] : i \in DOMAIN q}
         /\ {Tail(q)[i] : i \in DOMAIN Tail(q)} = {q[i] : i \in DOMAIN q} \ {Head(q)}
<1> DEFINE t == Tail(q)
<1>1. /\ Len(q) \in Nat \ {0} /\ DOMAIN q = 1 .. Len(q) /\ Head(q) = q[1] /\ q[1] \in CronJobs
      /\ \A i \in 1 .. Len(q) : q[i] \in CronJobs
  OBVIOUS
<1>2. /\ t \in Seq(CronJobs) /\ Len(t) = Len(q) - 1 /\ DOMAIN t = 1 .. Len(q) - 1
      /\ \A i \in 1 .. Len(q) - 1 : t[i] = q[i + 1]
  BY <1>1
<1>3. \A i, k \in 1 .. Len(q) : q[i] = q[k] => i = k
  BY <1>1 DEF IsInjective
<1>4. IsInjective(t)
  <2>1. \A i, k \in 1 .. Len(q) - 1 : t[i] = t[k] => i = k
    BY <1>1, <1>2, <1>3
  <2>2. QED
    BY <1>2, <2>1 DEF IsInjective
<1>5. ASSUME NEW j \in {t[i] : i \in DOMAIN t} PROVE j \in {q[i] : i \in DOMAIN q} \ {Head(q)}
  <2>1. PICK i \in 1 .. Len(q) - 1 : j = q[i + 1]
    BY <1>2, <1>5
  <2>2. i + 1 \in 1 .. Len(q) /\ 1 \in 1 .. Len(q) /\ i + 1 # 1
    BY <1>1
  <2>3. QED
    BY <1>1, <1>3, <2>1, <2>2
<1>6. ASSUME NEW j \in {q[i] : i \in DOMAIN q} \ {Head(q)} PROVE j \in {t[i] : i \in DOMAIN t}
  <2>1. PICK i \in 1 .. Len(q) : j = q[i]
    BY <1>1, <1>6
  <2>2. i - 1 \in 1 .. Len(q) - 1 /\ t[i - 1] = q[i]
    BY <1>1, <1>2, <1>6, <2>1
  <2>3. QED
    BY <1>2, <2>1, <2>2
<1>7. QED
  <2> HIDE DEF t
  <2>1. {t[i] : i \in DOMAIN t} = {q[i] : i \in DOMAIN q} \ {Head(q)}
    BY <1>5, <1>6
  <2>2. Head(q) \in {q[i] : i \in DOMAIN q} /\ Len(t) < Len(q) /\ Head(q) \in CronJobs
    BY <1>1, <1>2
  <2>3. QED
    BY <1>2, <1>4, <2>1, <2>2 DEF t

\* A tick lists the jobs of the table, each once.
LEMMA ListIsWhole ==
  ASSUME CronShapes
  PROVE  /\ ListedJobs \in Seq(CronJobs) /\ IsInjective(ListedJobs)
         /\ {ListedJobs[i] : i \in DOMAIN ListedJobs} = {j \in CronJobs : job[j].is = "listed"}
<1> DEFINE S == {j \in CronJobs : job[j].is = "listed"}
           n == Cardinality(S)
<1>1. IsFiniteSet(S)
  BY CronAssumption, FS_Subset
<1>2. n \in Nat /\ \E f \in [1 .. n -> S] : IsInjective(f)
  <2>1. n \in Nat /\ ExistsBijection(1 .. n, S)
    BY <1>1, FS_CardinalityType
  <2>2. QED
    BY <2>1 DEF ExistsBijection, Bijection, Injection, IsInjective
<1>3. ListedJobs \in [1 .. n -> S] /\ IsInjective(ListedJobs)
  BY <1>2 DEF ListedJobs, SetToSeq
<1>  HIDE DEF n
<1>4. ListedJobs \in Seq(CronJobs)
  <2>1. ListedJobs \in [1 .. n -> CronJobs]
    BY <1>3
  <2>2. QED
    BY <1>2, <2>1
<1>5. {ListedJobs[i] : i \in DOMAIN ListedJobs} = S
  <2>1. ListedJobs \in Injection(1 .. n, S) /\ Cardinality(1 .. n) = n
    BY <1>2, <1>3, FS_Interval DEF Injection
  <2>2. ListedJobs \in Surjection(1 .. n, S)
    BY <1>1, <2>1, FS_Injection DEF n
  <2>3. QED
    BY <1>3, <2>2 DEF Surjection
<1>6. QED
  BY <1>3, <1>4, <1>5

LEMMA HeadIsAbout ==
  ASSUME CronShapes, RunsAreTidy, NEW r \in Runners, run[r].pc # "idle"
  PROVE  CurrentJob(r) \in CronJobs /\ CurrentJob(r) \in About(r)
<1>1. run[r].queue \in Seq(CronJobs) /\ run[r].queue # <<>>
  BY RunFields DEF CronShapes, RunsAreTidy, Tidy
<1>2. QED
  BY <1>1 DEF CurrentJob, About

\* What a run's next job leaves of it.
Leaves(r, s) ==
  /\ s.queue \in Seq(CronJobs) /\ IsInjective(s.queue) /\ s.pc \in {"idle", "decide"}
  /\ s.pc # "idle" => /\ s.queue # <<>> /\ s.tick = run[r].tick /\ s.rows = run[r].rows /\ s.at = run[r].at
                      /\ {s.queue[i] : i \in DOMAIN s.queue} = About(r) \ {CurrentJob(r)}
                      /\ Len(s.queue) < Len(run[r].queue)
  /\ s.pc = "idle" => s = Asleep

LEMMA NextLeaves ==
  ASSUME CronShapes, RunsAreTidy, NEW r \in Runners, run[r].pc # "idle", NextJob(r)
  PROVE  /\ run' \in [Runners -> RunStates] /\ Leaves(r, run'[r])
         /\ \A o \in Runners \ {r} : run'[o] = run[o]
<1> DEFINE q == run[r].queue
<1>1. /\ run \in [Runners -> RunStates] /\ q \in Seq(CronJobs) /\ q # <<>> /\ IsInjective(q)
      /\ run[r] \in RunStates
  BY RunFields DEF CronShapes, RunsAreTidy, Tidy
<1>2. /\ Tail(q) \in Seq(CronJobs) /\ IsInjective(Tail(q)) /\ Len(Tail(q)) < Len(q)
      /\ {Tail(q)[i] : i \in DOMAIN Tail(q)} = {q[i] : i \in DOMAIN q} \ {Head(q)}
  BY <1>1, TailDrops
<1>3. Asleep \in RunStates /\ Leaves(r, Asleep)
  <2>1. 0 \in Minutes
    BY CronAssumption DEF Minutes
  <2>2. QED
    BY <2>1 DEF Asleep, RunStates, RunStages, Leaves, IsInjective
<1>4. CASE Tail(q) = <<>>
  BY <1>1, <1>3, <1>4 DEF NextJob, Set
<1>5. CASE Tail(q) # <<>>
  <2> DEFINE s == [run[r] EXCEPT !.queue = Tail(q), !.pc = "decide"]
  <2>1. s \in RunStates
    BY <1>1, <1>2 DEF RunStates, RunStages
  <2>2. /\ s.queue = Tail(q) /\ s.pc = "decide" /\ s.tick = run[r].tick /\ s.rows = run[r].rows
        /\ s.at = run[r].at
    BY <1>1 DEF RunStates
  <2>3. Leaves(r, s)
    BY <1>2, <1>5, <2>2 DEF Leaves, About, CurrentJob
  <2>4. run' = [run EXCEPT ![r] = s]
    BY <1>5 DEF NextJob, Set
  <2>5. QED
    BY <1>1, <2>1, <2>3, <2>4
<1>6. QED
  BY <1>4, <1>5
-----------------------------------------------------------------------------
(* What actions have in common.                                             *)

\* A run that does not move is about what it was about.
LEMMA OthersStay ==
  ASSUME NEW o, run'[o] = run[o], clock' = clock, spent \subseteq spent', Tidy(o)
  PROVE  /\ About(o)' = About(o) /\ Tidy(o)'
         /\ \A j : (Stamping(o, j)' <=> Stamping(o, j)) /\ (Decided(o, j)' <=> Decided(o, j))
  BY DEF About, Tidy, Stamping, Decided, CurrentJob, ThisMinute

LEMMA AloneStays ==
  ASSUME RunsAreAlone, excused \subseteq excused',
         \A o \in Runners : About(o)' \subseteq About(o),
         \A o \in Runners : \A j \in About(o)' : job'[j].is = "new" => job[j].is = "new"
  PROVE  RunsAreAlone'
  BY DEF RunsAreAlone

\* A job somebody stamps is what the stamper is about.
LEMMA StampsAreAbout ==
  ASSUME CronShapes, RunsAreTidy, NEW r \in Runners, NEW j, Stamping(r, j) \/ Decided(r, j)
  PROVE  j \in About(r) /\ j \in CronJobs
  BY HeadIsAbout DEF Stamping, Decided

\* The clock ticks, the table is edited: nothing a run relies on changes.
LEMMA WorldStays ==
  ASSUME CronInv, clock' \in 0 .. CronHorizon, clock <= clock',
         UNCHANGED <<run, delivered, excused, spent>>, job' \in [CronJobs -> JobRows],
         \A j \in CronJobs : /\ job'[j].last = job[j].last
                             /\ job'[j].is = "new" => job[j].is = "new"
                             /\ job[j].is = "gone" => job'[j].is = "gone"
  PROVE  CronInv'
<1>1. /\ ThisMinute \in Minutes /\ ThisMinute' \in Minutes /\ ThisMinute <= ThisMinute'
      /\ Minutes \subseteq Nat /\ \A k \in Minutes \cup {-1} : k <= ThisMinute => k <= ThisMinute'
  BY MinutesGrow DEF CronInv
<1>2. CronShapes'
  BY DEF CronInv, CronShapes
<1>3. \A o \in Runners : /\ About(o)' = About(o)
                         /\ \A j : (Stamping(o, j)' <=> Stamping(o, j)) /\ (Decided(o, j)' <=> Decided(o, j))
  BY DEF About, Stamping, Decided, CurrentJob
<1>4. \A j \in CronJobs, m \in Minutes \cup {-1} : Fired(j, m)' <=> Fired(j, m)
  BY DEF Fired
<1>5. RunsAreTidy'
  <2>1. \A o \in Runners : run[o].tick \in Minutes /\ run[o].at \in Minutes
    BY RunFields DEF CronInv, CronShapes
  <2>2. \A o \in Runners : run[o].tick <= ThisMinute' /\ run[o].at <= ThisMinute'
    <3>1. \A o \in Runners : run[o].tick <= ThisMinute /\ run[o].at <= ThisMinute
      BY DEF CronInv, RunsAreTidy, Tidy
    <3>2. QED
      BY <1>1, <2>1, <3>1
  <2>3. QED
    BY <2>2 DEF CronInv, RunsAreTidy, Tidy
<1>6. RunsAreAlone'
  <2>1. \A o \in Runners : About(o) \subseteq CronJobs
    BY RunFields DEF CronInv, CronShapes, About
  <2>2. QED
    BY <1>3, <2>1, AloneStays, Zenon DEF CronInv
<1>7. StampsAreEarned'
  <2>1. \A j \in CronJobs : job[j].last \in Minutes \cup {-1} /\ job[j].last <= ThisMinute'
    <3>1. \A j \in CronJobs : job[j].last \in Minutes \cup {-1} /\ job[j].last <= ThisMinute
      BY JobFields DEF CronInv, CronShapes, StampsAreEarned
    <3>2. QED
      BY <1>1, <3>1
  <2>2. \A j \in CronJobs, m \in Minutes : Fired(j, m) => m <= ThisMinute'
    BY <1>1 DEF CronInv, StampsAreEarned
  <2>3. QED
    BY <1>3, <2>1, <2>2 DEF CronInv, StampsAreEarned, Fired
<1>8. DeliveriesAreStamped'
  BY <1>3, <1>4 DEF CronInv, DeliveriesAreStamped
<1>9. RunsAreLate'
  BY <1>3, <1>4 DEF CronInv, RunsAreLate
<1>10. QED
  BY <1>2, <1>5, <1>6, <1>7, <1>8, <1>9 DEF CronInv, DoublesNeedOverlap

\* A run goes on to the next of its job's steps, or to its next job.
LEMMA RunMoves ==
  ASSUME CronInv, NEW r \in Runners, run[r].pc \in {"decide", "gate", "revive"},
         UNCHANGED <<clock, job, delivered, excused, spent>>,
         run' \in [Runners -> RunStates], \A o \in Runners \ {r} : run'[o] = run[o],
         Tidy(r)', run'[r].pc # "stamp", About(r)' \subseteq About(r),
         \A j \in About(r)' :
           /\ run'[r].tick = run[r].tick /\ run'[r].rows = run[r].rows
           /\ Decided(r, j)' => \/ Decided(r, j) \/ j \in excused
                                \/ \A m \in Minutes : Fired(j, m) => m < run[r].tick
  PROVE  CronInv'
<1>1. CronShapes'
  BY DEF CronInv, CronShapes
<1>2. \A o \in Runners \ {r} :
        /\ About(o)' = About(o) /\ Tidy(o)'
        /\ \A j : (Stamping(o, j)' <=> Stamping(o, j)) /\ (Decided(o, j)' <=> Decided(o, j))
  BY OthersStay DEF CronInv, RunsAreTidy
<1>3. RunsAreTidy'
  BY <1>2 DEF RunsAreTidy
<1>4. RunsAreAlone'
  BY <1>2, AloneStays DEF CronInv
<1>5. \A j : ~Stamping(r, j)' /\ ~Stamping(r, j)
  BY DEF Stamping
<1>6. ThisMinute' = ThisMinute /\ \A j, m : Fired(j, m)' <=> Fired(j, m)
  BY DEF ThisMinute, Fired
<1>7. StampsAreEarned'
  BY <1>2, <1>5, <1>6 DEF CronInv, StampsAreEarned
<1>8. DeliveriesAreStamped'
  BY <1>2, <1>5, <1>6 DEF CronInv, DeliveriesAreStamped
<1>9. RunsAreLate'
  BY <1>2, <1>5, <1>6 DEF CronInv, RunsAreLate
<1>10. QED
  BY <1>1, <1>3, <1>4, <1>7, <1>8, <1>9 DEF CronInv, DoublesNeedOverlap

\* A run starts on jobs of the table: whoever is about one of them already excuses it.
LEMMA RunStarts ==
  ASSUME CronInv, NEW r \in Runners, run[r].pc = "idle",
         UNCHANGED <<clock, job, delivered>>, spent \subseteq spent',
         run' \in [Runners -> RunStates], \A o \in Runners \ {r} : run'[o] = run[o],
         Tidy(r)', run'[r].pc # "stamp", run'[r].tick = ThisMinute,
         excused' = excused \cup Overlaps(About(r)'),
         \A j \in About(r)' :
           /\ j \in CronJobs /\ job[j].is = "listed"
           /\ Decided(r, j)' => job[j].last # ThisMinute
           /\ ~Decided(r, j)' => run'[r].rows = job
  PROVE  CronInv'
<1>1. CronShapes'
  BY DEF CronInv, CronShapes, Overlaps
<1>2. \A o \in Runners \ {r} :
        /\ About(o)' = About(o) /\ Tidy(o)'
        /\ \A j : (Stamping(o, j)' <=> Stamping(o, j)) /\ (Decided(o, j)' <=> Decided(o, j))
  BY OthersStay DEF CronInv, RunsAreTidy
<1>3. RunsAreTidy'
  BY <1>2 DEF RunsAreTidy
<1>4. \A j \in About(r)' \ excused' : \A o \in Runners : j \notin About(o)
  BY DEF Overlaps
<1>5. RunsAreAlone'
  BY <1>2, <1>4 DEF CronInv, RunsAreAlone
<1>6. \A j : ~Stamping(r, j)' /\ ~Stamping(r, j)
  BY DEF Stamping
<1>7. ThisMinute' = ThisMinute /\ \A j, m : Fired(j, m)' <=> Fired(j, m)
  BY DEF ThisMinute, Fired
<1>8. StampsAreEarned'
  BY <1>2, <1>6, <1>7 DEF CronInv, StampsAreEarned
<1>9. DeliveriesAreStamped'
  BY <1>2, <1>6, <1>7 DEF CronInv, DeliveriesAreStamped
<1>10. RunsAreLate'
  <2>1. ASSUME NEW j \in About(r)' \ excused', NEW m \in Minutes, Fired(j, m)
        PROVE  m < ThisMinute \/ (m = ThisMinute /\ ~Decided(r, j)' /\ run'[r].rows[j].last = m)
    <3>1. j \in CronJobs \ excused /\ job[j].is = "listed"
      BY <2>1
    <3>2. \A o \in Runners : ~Stamping(o, j)
      BY <1>4, <2>1, StampsAreAbout DEF CronInv
    <3>3. m <= job[j].last /\ job[j].last <= ThisMinute
      BY <2>1, <3>1, <3>2 DEF CronInv, DeliveriesAreStamped, StampsAreEarned
    <3>4. m \in Int /\ ThisMinute \in Int /\ job[j].last \in Int
      BY <3>1, MinuteNow, JobFields DEF CronInv, CronShapes
    <3>5. \A a, b, c \in Int : a <= b /\ b <= c => a < c \/ (a = c /\ b = a)
      OBVIOUS
    <3>6. m < ThisMinute \/ (m = ThisMinute /\ job[j].last = m)
      BY <3>3, <3>4, <3>5, Zenon
    <3>7. QED
      BY <3>6, Zenon
  <2>2. QED
    BY <1>2, <1>6, <1>7, <2>1 DEF CronInv, RunsAreLate
<1>11. QED
  BY <1>1, <1>3, <1>5, <1>8, <1>9, <1>10 DEF CronInv, DoublesNeedOverlap
-----------------------------------------------------------------------------
(* One lemma per action.                                                    *)

LEMMA CronStarts == CronInit => CronInv
<1>  SUFFICES ASSUME CronInit PROVE CronInv
  OBVIOUS
<1>1. CronHorizon \in Nat /\ 0 \in Minutes /\ ThisMinute = 0
  BY CronAssumption DEF Minutes, ThisMinute, CronInit
<1>2. \A r \in Runners : run[r] = Asleep
  BY DEF CronInit
<1>3. Asleep \in RunStates
  BY <1>1 DEF Asleep, RunStates, RunStages
<1>4. CronShapes
  <2>1. job \in [CronJobs -> JobRows]
    BY DEF CronInit, JobRows
  <2>2. QED
    BY <1>1, <1>3, <2>1 DEF CronInit, CronShapes
<1>5. \A r \in Runners : About(r) = {} /\ \A j : ~Stamping(r, j)
  BY <1>2 DEF About, Stamping, Asleep
<1>6. RunsAreTidy
  <2>1. IsInjective(<<>>)
    BY DEF IsInjective
  <2>2. QED
    BY <1>1, <1>2, <2>1 DEF RunsAreTidy, Tidy, Asleep
<1>7. \A j \in CronJobs : job[j].last = -1 /\ \A m \in Minutes : ~Fired(j, m) /\ delivered[j][m] = 0
  <2>1. \A j \in CronJobs : job[j].last = -1
    BY DEF CronInit
  <2>2. \A j \in CronJobs, m \in Minutes : delivered[j][m] = 0
    BY DEF CronInit
  <2>3. QED
    BY <2>1, <2>2 DEF Fired
<1>8. StampsAreEarned
  BY <1>1, <1>5, <1>7 DEF StampsAreEarned
<1>9. QED
  BY <1>4, <1>5, <1>6, <1>7, <1>8
     DEF CronInv, RunsAreAlone, DeliveriesAreStamped, RunsAreLate, DoublesNeedOverlap

\* What NextJob does, when nothing else of a run matters any more.
LEMMA NextIsFewer ==
  ASSUME CronInv, NEW r \in Runners, run[r].pc # "idle", NextJob(r), clock' = clock, spent' = spent
  PROVE  /\ run' \in [Runners -> RunStates] /\ \A o \in Runners \ {r} : run'[o] = run[o]
         /\ Tidy(r)' /\ run'[r].pc # "stamp"
         /\ \A j \in About(r)' : /\ j \in About(r) /\ j # CurrentJob(r) /\ ~Decided(r, j)'
                                 /\ run'[r].tick = run[r].tick /\ run'[r].rows = run[r].rows
<1>1. /\ run' \in [Runners -> RunStates] /\ Leaves(r, run'[r])
      /\ \A o \in Runners \ {r} : run'[o] = run[o]
  BY NextLeaves DEF CronInv
<1>2. /\ run[r].tick <= ThisMinute /\ run[r].at <= ThisMinute /\ ThisMinute \in Nat
      /\ r # "scheduler" => Len(run[r].queue) <= 1
      /\ r \notin RunClicks \ spent
      /\ r = "scheduler" => run[r].rows \in [CronJobs -> JobRows]
      /\ run[r].queue \in Seq(CronJobs)
  BY MinuteNow, RunFields DEF CronInv, CronShapes, RunsAreTidy, Tidy
<1>3. ThisMinute' = ThisMinute
  BY DEF ThisMinute
<1>4. CASE run'[r].pc = "idle"
  <2>1. run'[r] = Asleep
    BY <1>1, <1>4 DEF Leaves
  <2>2. Len(<<>>) = 0 /\ IsInjective(<<>>)
    BY DEF IsInjective
  <2>3. Tidy(r)' /\ About(r)' = {}
    BY <1>2, <1>3, <2>1, <2>2 DEF Tidy, Asleep, About
  <2>4. QED
    BY <1>1, <1>4, <2>3
<1>5. CASE run'[r].pc # "idle"
  <2>1. /\ run'[r].pc = "decide" /\ run'[r].queue # <<>> /\ IsInjective(run'[r].queue)
        /\ run'[r].queue \in Seq(CronJobs) /\ Len(run'[r].queue) < Len(run[r].queue)
        /\ run'[r].tick = run[r].tick /\ run'[r].rows = run[r].rows /\ run'[r].at = run[r].at
    BY <1>1, <1>5 DEF Leaves
  <2>2. r = "scheduler"
    BY <1>2, <2>1
  <2>3. Tidy(r)'
    BY <1>2, <1>3, <2>1, <2>2, CronAssumption DEF Tidy
  <2>4. About(r)' = About(r) \ {CurrentJob(r)} /\ \A j : ~Decided(r, j)'
    BY <1>1, <1>5, <2>1 DEF Leaves, About, Decided
  <2>5. QED
    BY <1>1, <2>1, <2>3, <2>4
<1>6. QED
  BY <1>4, <1>5

\* What a step within a job does.
LEMMA StepIsSame ==
  ASSUME CronInv, NEW r \in Runners, run[r].pc # "idle", NEW p \in {"gate", "revive", "send", "stamp"},
         NEW at \in Minutes, at <= ThisMinute,
         Set(r, [run[r] EXCEPT !.pc = p, !.at = at]), clock' = clock, spent' = spent
  PROVE  /\ run' \in [Runners -> RunStates] /\ \A o \in Runners \ {r} : run'[o] = run[o]
         /\ Tidy(r)' /\ run'[r].pc = p /\ run'[r].at = at /\ run'[r].queue = run[r].queue
         /\ About(r)' = About(r) /\ CurrentJob(r)' = CurrentJob(r)
         /\ run'[r].tick = run[r].tick /\ run'[r].rows = run[r].rows
<1> DEFINE s == [run[r] EXCEPT !.pc = p, !.at = at]
<1>1. run \in [Runners -> RunStates] /\ run[r] \in RunStates /\ Tidy(r)
  BY DEF CronInv, CronShapes, RunsAreTidy
<1>2. /\ s \in RunStates /\ s.pc = p /\ s.at = at /\ s.queue = run[r].queue
      /\ s.tick = run[r].tick /\ s.rows = run[r].rows
  BY <1>1 DEF RunStates, RunStages
<1>3. run' \in [Runners -> RunStates] /\ run'[r] = s /\ \A o \in Runners \ {r} : run'[o] = run[o]
  <2>1. run' = [run EXCEPT ![r] = s]
    BY DEF Set
  <2> HIDE DEF s
  <2>2. QED
    BY <1>1, <1>2, <2>1
<1>4. QED
  <2> HIDE DEF s
  <2>1. ThisMinute' = ThisMinute
    BY DEF ThisMinute
  <2>2. /\ run'[r].pc = p /\ run'[r].at = at /\ run'[r].queue = run[r].queue
        /\ run'[r].tick = run[r].tick /\ run'[r].rows = run[r].rows
    BY <1>2, <1>3
  <2>3. Tidy(r)'
    BY <1>1, <2>1, <2>2 DEF Tidy
  <2>4. About(r)' = About(r) /\ CurrentJob(r)' = CurrentJob(r)
    BY <2>2 DEF About, CurrentJob
  <2>5. QED
    BY <1>3, <2>2, <2>3, <2>4

\* The same of a step that leaves `at' alone.
LEMMA StepKeepsAt ==
  ASSUME CronInv, NEW r \in Runners, run[r].pc # "idle", NEW p,
         Set(r, [run[r] EXCEPT !.pc = p])
  PROVE  /\ Set(r, [run[r] EXCEPT !.pc = p, !.at = run[r].at])
         /\ run[r].at \in Minutes /\ run[r].at <= ThisMinute
<1>1. run[r] \in RunStates /\ run[r].at <= ThisMinute
  BY DEF CronInv, CronShapes, RunsAreTidy, Tidy
<1>2. [run[r] EXCEPT !.pc = p] = [run[r] EXCEPT !.pc = p, !.at = run[r].at]
  BY <1>1 DEF RunStates
<1>3. QED
  BY <1>1, <1>2, RunFields DEF Set

LEMMA NextMoves ==
  ASSUME CronInv, NEW r \in Runners, run[r].pc \in {"decide", "gate", "revive"}, NextJob(r),
         UNCHANGED <<clock, job, delivered, excused, spent>>
  PROVE  CronInv'
  BY NextIsFewer, RunMoves

\* The scheduler gates a job only if the job did not run in the minute of the tick.
LEMMA DecidesLate == ASSUME CronInv, NEW r \in Runners, Decides(r) PROVE CronInv'
<1>1. run[r].pc = "decide" /\ UNCHANGED <<clock, job, delivered, excused, spent>>
  BY DEF Decides
<1>2. ASSUME NextJob(r) PROVE CronInv'
  BY <1>1, <1>2, NextMoves
<1>3. ASSUME Set(r, [run[r] EXCEPT !.pc = "gate"]), run[r].rows[CurrentJob(r)].last # run[r].tick
      PROVE  CronInv'
  <2>1. Set(r, [run[r] EXCEPT !.pc = "gate", !.at = run[r].at]) /\ run[r].at \in Minutes
        /\ run[r].at <= ThisMinute
    BY <1>1, <1>3, StepKeepsAt
  <2>2. /\ run' \in [Runners -> RunStates] /\ \A o \in Runners \ {r} : run'[o] = run[o]
        /\ Tidy(r)' /\ run'[r].pc = "gate"
        /\ About(r)' = About(r) /\ CurrentJob(r)' = CurrentJob(r)
        /\ run'[r].tick = run[r].tick /\ run'[r].rows = run[r].rows
    BY <1>1, <2>1, StepIsSame
  <2>3. ASSUME NEW j \in About(r)', Decided(r, j)', j \notin excused, NEW m \in Minutes, Fired(j, m)
        PROVE  m < run[r].tick
    <3>1. j = CurrentJob(r) /\ j \in CronJobs /\ j \in About(r) /\ ~Stamping(r, j)
      BY <1>1, <2>2, <2>3, HeadIsAbout DEF CronInv, Decided, Stamping
    <3>2. QED
      BY <1>3, <2>3, <3>1 DEF CronInv, RunsAreLate
  <2>4. QED
    BY <1>1, <2>2, <2>3, RunMoves
<1>4. QED
  BY <1>2, <1>3 DEF Decides

LEMMA StepMoves ==
  ASSUME CronInv, NEW r \in Runners, run[r].pc \in {"gate", "revive"}, NEW p \in {"revive", "send"},
         Set(r, [run[r] EXCEPT !.pc = p]), UNCHANGED <<clock, job, delivered, excused, spent>>
  PROVE  CronInv'
<1>1. Set(r, [run[r] EXCEPT !.pc = p, !.at = run[r].at]) /\ run[r].at \in Minutes
      /\ run[r].at <= ThisMinute
  BY StepKeepsAt
<1>2. /\ run' \in [Runners -> RunStates] /\ \A o \in Runners \ {r} : run'[o] = run[o]
      /\ Tidy(r)' /\ run'[r].pc = p
      /\ About(r)' = About(r) /\ CurrentJob(r)' = CurrentJob(r)
      /\ run'[r].tick = run[r].tick /\ run'[r].rows = run[r].rows
  BY <1>1, StepIsSame
<1>3. \A j : Decided(r, j)' => Decided(r, j)
  BY <1>2 DEF Decided
<1>4. QED
  BY <1>2, <1>3, RunMoves

LEMMA GatesMove == ASSUME CronInv, NEW r \in Runners, Gates(r) PROVE CronInv'
<1>1. run[r].pc = "gate" /\ UNCHANGED <<clock, job, delivered, excused, spent>>
  BY DEF Gates
<1>2. \/ NextJob(r) \/ \E p \in {"revive", "send"} : Set(r, [run[r] EXCEPT !.pc = p])
  BY DEF Gates
<1>3. QED
  BY <1>1, <1>2, NextMoves, StepMoves

LEMMA RevivesMove == ASSUME CronInv, NEW r \in Runners, Revives(r) PROVE CronInv'
<1>1. run[r].pc = "revive" /\ UNCHANGED <<clock, job, delivered, excused, spent>>
  BY DEF Revives
<1>2. NextJob(r) \/ Set(r, [run[r] EXCEPT !.pc = "send"])
  BY DEF Revives
<1>3. QED
  BY <1>1, <1>2, NextMoves, StepMoves

\* A prompt is delivered in a minute in which no run has delivered its job.
LEMMA PromptIsFirst == ASSUME CronInv, NEW r \in Runners, DeliversPrompt(r) PROVE CronInv'
<1> DEFINE k == CurrentJob(r)
           minute == ThisMinute
<1>1. /\ run[r].pc = "send" /\ UNCHANGED <<clock, job, excused, spent>>
      /\ delivered' = [delivered EXCEPT ![k][minute] = IF @ = 2 THEN 2 ELSE @ + 1]
      /\ Set(r, [run[r] EXCEPT !.pc = "stamp", !.at = minute])
  BY DEF DeliversPrompt
<1>2. /\ minute \in Minutes /\ Minutes \subseteq Nat /\ k \in CronJobs /\ k \in About(r)
      /\ ThisMinute' = minute
  BY <1>1, MinuteNow, HeadIsAbout DEF CronInv, ThisMinute
<1>  HIDE DEF k, minute
<1>3. minute = ThisMinute /\ minute <= ThisMinute /\ Decided(r, k) /\ \A j : Decided(r, j) => j = k
  BY <1>1, <1>2 DEF Decided, k, minute
<1>4. /\ run' \in [Runners -> RunStates] /\ \A o \in Runners \ {r} : run'[o] = run[o]
      /\ Tidy(r)' /\ run'[r].pc = "stamp" /\ run'[r].at = minute
      /\ About(r)' = About(r) /\ CurrentJob(r)' = k
      /\ run'[r].tick = run[r].tick /\ run'[r].rows = run[r].rows
  BY <1>1, <1>2, <1>3, StepIsSame DEF k
<1>5. \A o \in Runners \ {r} :
        /\ About(o)' = About(o) /\ Tidy(o)'
        /\ \A j : (Stamping(o, j)' <=> Stamping(o, j)) /\ (Decided(o, j)' <=> Decided(o, j))
  BY <1>1, <1>4, OthersStay DEF CronInv, RunsAreTidy
<1>6. /\ \A j : (Stamping(r, j)' <=> j = k) /\ ~Decided(r, j)' /\ ~Stamping(r, j)
  BY <1>1, <1>4 DEF Stamping, Decided
<1>7. delivered \in [CronJobs -> [Minutes -> Nat]]
  BY DEF CronInv, CronShapes
<1>8. /\ delivered' \in [CronJobs -> [Minutes -> Nat]]
      /\ \A j \in CronJobs, m \in Minutes : j # k \/ m # minute => delivered'[j][m] = delivered[j][m]
      /\ delivered'[k][minute] = IF delivered[k][minute] = 2 THEN 2 ELSE delivered[k][minute] + 1
  BY <1>1, <1>2, <1>7
<1>9. /\ \A j \in CronJobs, m \in Minutes : Fired(j, m)' <=> Fired(j, m) \/ (j = k /\ m = minute)
      /\ \A j \in CronJobs, m \in Minutes : Fired(j, m) => Fired(j, m)'
  BY <1>2, <1>7, <1>8 DEF Fired
<1>10. ~Fired(k, minute) \/ k \in excused
  <2>1. run[r].tick \in Minutes /\ run[r].tick <= minute
    BY <1>3, RunFields DEF CronInv, CronShapes, RunsAreTidy, Tidy
  <2>2. ASSUME Fired(k, minute), k \notin excused PROVE minute < run[r].tick
    BY <1>2, <1>3, <1>6, <2>2 DEF CronInv, RunsAreLate
  <2>3. minute \in Nat /\ run[r].tick \in Nat
    BY <1>2, <2>1
  <2>4. \A a, b \in Nat : ~(a <= b /\ b < a)
    OBVIOUS
  <2>5. QED
    BY <2>1, <2>2, <2>3, <2>4, Zenon
<1>11. \A o \in Runners \ {r} : k \in About(o) => k \in excused
  BY <1>2 DEF CronInv, RunsAreAlone
<1>12. CronShapes'
  BY <1>1, <1>4, <1>8 DEF CronInv, CronShapes
<1>13. RunsAreTidy'
  BY <1>4, <1>5 DEF RunsAreTidy
<1>14. RunsAreAlone'
  BY <1>1, <1>4, <1>5, AloneStays DEF CronInv
<1>15. StampsAreEarned'
  <2>1. \A j \in CronJobs : job[j].last # -1 => Fired(j, job[j].last)'
    <3>1. \A j \in CronJobs : job[j].last # -1 => job[j].last \in Minutes /\ Fired(j, job[j].last)
      BY JobFields DEF CronInv, CronShapes, StampsAreEarned
    <3>2. \A j \in CronJobs : job[j].last # -1 => delivered'[j][job[j].last] > 0
      BY <1>9, <3>1 DEF Fired
    <3>3. QED
      BY <1>1, <3>2 DEF Fired
  <2>2. \A j \in CronJobs, m \in Minutes : Fired(j, m)' => m <= ThisMinute
    BY <1>3, <1>9 DEF CronInv, StampsAreEarned
  <2>3. ASSUME NEW o \in Runners, NEW j \in CronJobs, Stamping(o, j)' PROVE delivered'[j][run'[o].at] > 0
    <3>1. CASE o = r
      BY <1>2, <1>4, <1>6, <1>9, <2>3, <3>1 DEF Fired
    <3>2. CASE o # r
      <4>1. Stamping(o, j) /\ run'[o] = run[o] /\ run[o].at \in Minutes
        BY <1>4, <1>5, <2>3, <3>2, RunFields DEF CronInv, CronShapes
      <4>2. QED
        BY <1>9, <4>1 DEF CronInv, StampsAreEarned, Fired
    <3>3. QED
      BY <3>1, <3>2
  <2>4. \A j \in CronJobs : job[j].last <= ThisMinute
    BY DEF CronInv, StampsAreEarned
  <2>5. QED
    BY <1>1, <1>2, <1>3, <2>1, <2>2, <2>3, <2>4 DEF StampsAreEarned, Fired
<1>16. DeliveriesAreStamped'
  <2>1. ASSUME NEW j \in CronJobs \ excused, NEW m \in Minutes, Fired(j, m)'
        PROVE  \/ job[j].is = "gone" \/ m <= job[j].last
               \/ \E o \in Runners : Stamping(o, j)' /\ m <= run'[o].at
    <3>1. CASE j = k
      <4>1. m <= minute
        BY <1>2, <1>3, <1>9, <2>1 DEF CronInv, StampsAreEarned
      <4>2. Stamping(r, j)' /\ m <= run'[r].at
        BY <1>4, <1>6, <3>1, <4>1
      <4>3. QED
        BY <4>2
    <3>2. CASE j # k
      BY <1>4, <1>5, <1>6, <1>9, <2>1, <3>2 DEF CronInv, DeliveriesAreStamped
    <3>3. QED
      BY <3>1, <3>2
  <2>2. ASSUME NEW j \in CronJobs \ excused, NEW o \in Runners, Stamping(o, j)'
        PROVE  job[j].last <= run'[o].at
    <3>1. CASE o = r
      BY <1>3, <1>4, <1>6, <2>2, <3>1 DEF CronInv, StampsAreEarned
    <3>2. CASE o # r
      BY <1>4, <1>5, <2>2, <3>2 DEF CronInv, DeliveriesAreStamped
    <3>3. QED
      BY <3>1, <3>2
  <2>3. QED
    BY <1>1, <2>1, <2>2 DEF DeliveriesAreStamped
<1>17. RunsAreLate'
  <2>1. ASSUME NEW j \in CronJobs \ excused, NEW o \in Runners, j \in About(o)', ~Stamping(o, j)',
               NEW m \in Minutes, Fired(j, m)'
        PROVE  \/ m < run'[o].tick
               \/ m = run'[o].tick /\ ~Decided(o, j)' /\ run'[o].rows[j].last = m
    <3>1. j # k /\ j \in About(o) /\ ~Stamping(o, j)
      BY <1>4, <1>5, <1>6, <1>11, <2>1
    <3>2. Fired(j, m)
      BY <1>9, <2>1, <3>1
    <3>3. ~Decided(o, j) => ~Decided(o, j)'
      BY <1>5, <1>6
    <3>4. run'[o].tick = run[o].tick /\ run'[o].rows = run[o].rows
      BY <1>4
    <3>5. \/ m < run[o].tick \/ (m = run[o].tick /\ ~Decided(o, j) /\ run[o].rows[j].last = m)
      BY <2>1, <3>1, <3>2 DEF CronInv, RunsAreLate
    <3>6. QED
      BY <3>3, <3>4, <3>5
  <2>2. QED
    BY <1>1, <2>1 DEF RunsAreLate
<1>18. DoublesNeedOverlap'
  <2>1. ASSUME NEW j \in CronJobs, NEW m \in Minutes, delivered'[j][m] > 1 PROVE j \in excused
    <3>1. CASE j = k /\ m = minute
      <4>1. delivered[k][minute] \in Nat
        BY <1>2, <1>7
      <4>2. k \notin excused => delivered[k][minute] = 0
        BY <1>10, <4>1 DEF Fired
      <4>3. k \notin excused => delivered'[k][minute] = 1
        BY <1>8, <4>2
      <4>4. QED
        BY <2>1, <3>1, <4>3
    <3>2. CASE j # k \/ m # minute
      BY <1>8, <2>1, <3>2 DEF CronInv, DoublesNeedOverlap
    <3>3. QED
      BY <3>1, <3>2
  <2>2. QED
    BY <1>1, <2>1 DEF DoublesNeedOverlap
<1>19. QED
  BY <1>12, <1>13, <1>14, <1>15, <1>16, <1>17, <1>18 DEF CronInv

\* A stamp takes the place of its run's word, and a failed one excuses the job.
LEMMA StampsHold == ASSUME CronInv, NEW r \in Runners, Stamps(r) PROVE CronInv'
<1> DEFINE k == CurrentJob(r)
           at == run[r].at
<1>1. run[r].pc = "stamp" /\ NextJob(r) /\ UNCHANGED <<clock, delivered, spent>>
  BY DEF Stamps
<1>2. \/ /\ job' = [job EXCEPT ![k].last = IF job[k].is = "listed" THEN at ELSE @] /\ excused' = excused
      \/ excused' = excused \cup {k} /\ job' = job
  BY DEF Stamps, JobRow
<1>3. k \in CronJobs /\ k \in About(r) /\ Stamping(r, k) /\ \A j : Stamping(r, j) => j = k
  BY <1>1, HeadIsAbout DEF CronInv, Stamping
<1>4. at \in Minutes /\ at <= ThisMinute /\ ThisMinute' = ThisMinute /\ Minutes \subseteq Nat
  BY <1>1, RunFields, MinuteNow DEF CronInv, CronShapes, RunsAreTidy, Tidy, ThisMinute
<1>  HIDE DEF k, at
<1>5. /\ run' \in [Runners -> RunStates] /\ \A o \in Runners \ {r} : run'[o] = run[o]
      /\ Tidy(r)' /\ run'[r].pc # "stamp"
      /\ \A j \in About(r)' : /\ j \in About(r) /\ j # k /\ ~Decided(r, j)'
                              /\ run'[r].tick = run[r].tick /\ run'[r].rows = run[r].rows
  BY <1>1, NextIsFewer DEF k
<1>6. \A o \in Runners \ {r} :
        /\ About(o)' = About(o) /\ Tidy(o)'
        /\ \A j : (Stamping(o, j)' <=> Stamping(o, j)) /\ (Decided(o, j)' <=> Decided(o, j))
  BY <1>1, <1>5, OthersStay DEF CronInv, RunsAreTidy
<1>7. \A j : ~Stamping(r, j)'
  BY <1>5 DEF Stamping
<1>8. /\ job' \in [CronJobs -> JobRows] /\ \A j \in CronJobs : job'[j].is = job[j].is
      /\ \A j \in CronJobs \ {k} : job'[j].last = job[j].last
      /\ k \notin excused' => job'[k].last = IF job[k].is = "listed" THEN at ELSE job[k].last
      /\ job'[k].last \in {job[k].last, at}
      /\ excused \subseteq excused' /\ excused' \subseteq CronJobs
  <2>1. job \in [CronJobs -> JobRows] /\ excused \subseteq CronJobs
    BY DEF CronInv, CronShapes
  <2>2. CASE job[k].is = "listed" /\ job' = [job EXCEPT ![k].last = at] /\ excused' = excused
    BY <1>3, <1>4, <2>1, <2>2 DEF JobRows
  <2>3. CASE job[k].is # "listed" /\ job' = [job EXCEPT ![k].last = job[k].last] /\ excused' = excused
    BY <1>3, <1>4, <2>1, <2>3 DEF JobRows
  <2>4. CASE excused' = excused \cup {k} /\ job' = job
    BY <1>3, <2>1, <2>4
  <2>5. QED
    BY <1>2, <1>3, <2>1, <2>2, <2>3, <2>4
<1>9. \A j \in CronJobs, m \in Minutes : Fired(j, m)' <=> Fired(j, m)
  BY <1>1 DEF Fired
<1>10. \A o \in Runners \ {r} : k \in About(o) => k \in excused
  BY <1>3 DEF CronInv, RunsAreAlone
<1>11. CronShapes'
  BY <1>1, <1>5, <1>8 DEF CronInv, CronShapes
<1>12. RunsAreTidy'
  BY <1>5, <1>6 DEF RunsAreTidy
<1>13. RunsAreAlone'
  <2>1. \A o \in Runners : About(o) \subseteq CronJobs
    BY RunFields DEF CronInv, CronShapes, About
  <2>2. \A o \in Runners : About(o)' \subseteq About(o)
    BY <1>5, <1>6
  <2>3. QED
    BY <1>8, <2>1, <2>2, AloneStays DEF CronInv
<1>14. StampsAreEarned'
  <2>1. Fired(k, at)
    BY <1>3 DEF CronInv, StampsAreEarned, at
  <2>2. \A j \in CronJobs : job'[j].last \in {job[j].last} \cup (IF j = k THEN {at} ELSE {})
    BY <1>8
  <2>3. \A j \in CronJobs : job'[j].last <= ThisMinute
    BY <1>4, <2>2 DEF CronInv, StampsAreEarned
  <2>4. ASSUME NEW j \in CronJobs, job'[j].last # -1 PROVE Fired(j, job'[j].last)
    BY <2>1, <2>2, <2>4 DEF CronInv, StampsAreEarned
  <2>5. \A j \in CronJobs : job'[j].last \in Minutes \cup {-1}
    BY <1>8, JobFields
  <2>6. \A o \in Runners, j \in CronJobs : Stamping(o, j)' => Fired(j, run'[o].at)
    BY <1>5, <1>6, <1>7 DEF CronInv, StampsAreEarned
  <2>7. \A j, m : Fired(j, m)' <=> Fired(j, m)
    BY <1>1 DEF Fired
  <2>8. \A j \in CronJobs, m \in Minutes : Fired(j, m) => m <= ThisMinute
    BY DEF CronInv, StampsAreEarned
  <2>9. QED
    BY <1>4, <2>3, <2>4, <2>6, <2>7, <2>8 DEF StampsAreEarned
<1>15. DeliveriesAreStamped'
  <2>1. ASSUME NEW j \in CronJobs \ excused', NEW m \in Minutes, Fired(j, m)
        PROVE  \/ job'[j].is = "gone" \/ m <= job'[j].last
               \/ \E o \in Runners : Stamping(o, j)' /\ m <= run'[o].at
    <3>1. j \notin excused
      BY <1>8, <2>1
    <3>2. \/ job[j].is = "gone" \/ m <= job[j].last
          \/ \E o \in Runners : Stamping(o, j) /\ m <= run[o].at
      BY <2>1, <3>1 DEF CronInv, DeliveriesAreStamped
    <3>3. CASE j # k
      BY <1>3, <1>5, <1>6, <1>8, <2>1, <3>2, <3>3
    <3>4. CASE j = k
      <4>1. \A o \in Runners \ {r} : ~Stamping(o, k)
        BY <1>10, <3>1, <3>4, StampsAreAbout DEF CronInv
      <4>2. job[k].last <= at
        BY <1>3, <3>1, <3>4 DEF CronInv, DeliveriesAreStamped, at
      <4>3. job[k].last \in Minutes \cup {-1} /\ job[k].is \in {"new", "listed", "gone"} /\ job[k].is # "new"
        BY <1>3, JobFields DEF CronInv, CronShapes, RunsAreAlone
      <4>4. job[k].is = "gone" \/ m <= at
        <5>1. job[k].is = "gone" \/ m <= job[k].last \/ m <= at
          BY <3>2, <3>4, <4>1 DEF at
        <5>2. \A a, b, c \in Int : a <= b /\ b <= c => a <= c
          OBVIOUS
        <5>3. m \in Int /\ at \in Int /\ job[k].last \in Int
          BY <1>4, <4>3
        <5>4. QED
          BY <4>2, <5>1, <5>2, <5>3, Zenon
      <4>5. QED
        BY <1>3, <1>8, <2>1, <3>4, <4>3, <4>4
    <3>5. QED
      BY <3>3, <3>4
  <2>2. ASSUME NEW j \in CronJobs \ excused', NEW o \in Runners, Stamping(o, j)'
        PROVE  job'[j].last <= run'[o].at
    <3>1. o # r /\ Stamping(o, j) /\ run'[o] = run[o] /\ j \notin excused
      BY <1>5, <1>6, <1>7, <1>8, <2>2
    <3>2. j # k
      BY <1>10, <3>1, StampsAreAbout DEF CronInv
    <3>3. QED
      BY <1>8, <3>1, <3>2 DEF CronInv, DeliveriesAreStamped
  <2>3. QED
    BY <1>9, <2>1, <2>2 DEF DeliveriesAreStamped
<1>16. RunsAreLate'
  <2>1. ASSUME NEW j \in CronJobs \ excused', NEW o \in Runners, j \in About(o)', ~Stamping(o, j)',
               NEW m \in Minutes, Fired(j, m)
        PROVE  \/ m < run'[o].tick
               \/ m = run'[o].tick /\ ~Decided(o, j)' /\ run'[o].rows[j].last = m
    <3>1. j \in About(o) /\ ~Stamping(o, j) /\ j \notin excused
      BY <1>3, <1>5, <1>6, <1>8, <2>1
    <3>2. \/ m < run[o].tick \/ (m = run[o].tick /\ ~Decided(o, j) /\ run[o].rows[j].last = m)
      BY <2>1, <3>1 DEF CronInv, RunsAreLate
    <3>3. run'[o].tick = run[o].tick /\ run'[o].rows = run[o].rows /\ (Decided(o, j)' => Decided(o, j))
      BY <1>5, <1>6, <2>1
    <3>4. QED
      BY <3>2, <3>3
  <2>2. QED
    BY <1>9, <2>1 DEF RunsAreLate
<1>17. DoublesNeedOverlap'
  BY <1>1, <1>8 DEF CronInv, DoublesNeedOverlap
<1>18. QED
  BY <1>11, <1>12, <1>13, <1>14, <1>15, <1>16, <1>17 DEF CronInv

LEMMA TickStarts == ASSUME CronInv, TakesTick PROVE CronInv'
<1> DEFINE r == "scheduler"
           s == [pc |-> "decide", queue |-> ListedJobs, rows |-> job, tick |-> ThisMinute, at |-> 0]
           listed == {j \in CronJobs : job[j].is = "listed"}
<1>1. r \in Runners /\ run[r].pc = "idle" /\ UNCHANGED <<clock, job, delivered, spent>>
  BY DEF TakesTick, Runners
<1>2. CronShapes /\ clock' \in 0 .. CronHorizon /\ clock <= clock' /\ job' \in [CronJobs -> JobRows]
  BY <1>1, CronAssumption DEF CronInv, CronShapes
<1>3. ASSUME UNCHANGED <<run, excused>> PROVE CronInv'
  BY <1>1, <1>2, <1>3, WorldStays
<1>4. /\ ListedJobs \in Seq(CronJobs) /\ IsInjective(ListedJobs)
      /\ {ListedJobs[i] : i \in DOMAIN ListedJobs} = listed
  BY <1>2, ListIsWhole
<1>5. ASSUME ListedJobs = <<>>, excused' = excused \cup Overlaps(listed), UNCHANGED run PROVE CronInv'
  <2>1. listed = {}
    BY <1>4, <1>5
  <2>2. Overlaps(listed) = {}
    BY <2>1 DEF Overlaps
  <2>3. QED
    BY <1>3, <1>5, <2>2
<1>6. ASSUME ListedJobs # <<>>, excused' = excused \cup Overlaps(listed), Set(r, s) PROVE CronInv'
  <2>1. ThisMinute \in Minutes /\ 0 \in Minutes /\ 0 <= ThisMinute /\ ThisMinute <= ThisMinute
    BY <1>2, MinuteNow, CronAssumption DEF Minutes
  <2>2. s \in RunStates /\ run \in [Runners -> RunStates] /\ job \in [CronJobs -> JobRows]
    BY <1>2, <1>4, <2>1 DEF RunStates, RunStages, CronShapes
  <2>3. /\ s.pc = "decide" /\ s.queue = ListedJobs /\ s.rows = job /\ s.tick = ThisMinute /\ s.at = 0
    OBVIOUS
  <2> HIDE DEF s
  <2>4. run' \in [Runners -> RunStates] /\ run'[r] = s /\ \A o \in Runners \ {r} : run'[o] = run[o]
    BY <1>1, <1>6, <2>2 DEF Set
  <2>5. ThisMinute' = ThisMinute
    BY <1>1 DEF ThisMinute
  <2>6. Tidy(r)'
    BY <1>4, <1>6, <2>1, <2>2, <2>3, <2>4, <2>5, CronAssumption DEF Tidy
  <2>7. About(r)' = listed /\ \A j : ~Decided(r, j)'
    BY <1>4, <2>3, <2>4 DEF About, Decided
  <2>8. /\ run'[r].pc # "stamp" /\ run'[r].tick = ThisMinute /\ run'[r].rows = job
        /\ excused' = excused \cup Overlaps(About(r)') /\ spent \subseteq spent'
    BY <1>1, <1>6, <2>3, <2>4, <2>7
  <2>9. QED
    BY <1>1, <2>4, <2>6, <2>7, <2>8, RunStarts
<1>7. QED
  BY <1>3, <1>5, <1>6 DEF TakesTick

LEMMA ClickStarts == ASSUME CronInv, NEW r \in Runners, NEW k \in CronJobs, RunsNow(r, k) PROVE CronInv'
<1> DEFINE s == [pc |-> "gate", queue |-> <<k>>, rows |-> <<>>, tick |-> ThisMinute, at |-> 0]
<1>1. /\ job[k].is = "listed" /\ r \in RunClicks \ spent /\ spent' = spent \cup {r}
      /\ UNCHANGED <<clock, job, delivered>>
  BY DEF RunsNow
<1>2. /\ CronShapes /\ ThisMinute \in Minutes /\ 0 \in Minutes /\ 0 <= ThisMinute /\ ThisMinute <= ThisMinute
      /\ run \in [Runners -> RunStates] /\ run[r].pc = "idle" /\ r # "scheduler"
      /\ ThisMinute' = ThisMinute
  BY <1>1, MinuteNow, CronAssumption DEF CronInv, CronShapes, RunsAreTidy, Tidy, Minutes, ThisMinute
<1>3. ASSUME UNCHANGED <<run, excused>> PROVE CronInv'
  <2>1. CronShapes' /\ \A o \in Runners : Tidy(o)' /\ About(o)' = About(o)
    BY <1>1, <1>3, OthersStay DEF CronInv, CronShapes, RunsAreTidy
  <2>2. \A o \in Runners, j \in CronJobs : (Stamping(o, j)' <=> Stamping(o, j)) /\ (Decided(o, j)' <=> Decided(o, j))
    BY <1>3 DEF Stamping, Decided, CurrentJob
  <2>3. \A j, m : Fired(j, m)' <=> Fired(j, m)
    BY <1>1 DEF Fired
  <2>4. RunsAreTidy' /\ RunsAreAlone'
    BY <1>1, <1>3, <2>1 DEF CronInv, RunsAreTidy, RunsAreAlone
  <2>5. StampsAreEarned' /\ DeliveriesAreStamped'
    BY <1>1, <1>2, <1>3, <2>2, <2>3 DEF CronInv, StampsAreEarned, DeliveriesAreStamped
  <2>6. RunsAreLate' /\ DoublesNeedOverlap'
    BY <1>1, <1>3, <2>1, <2>2, <2>3 DEF CronInv, RunsAreLate, DoublesNeedOverlap
  <2>7. QED
    BY <2>1, <2>4, <2>5, <2>6 DEF CronInv
<1>4. ASSUME job[k].last # ThisMinute, Set(r, s), excused' = excused \cup Overlaps({k}) PROVE CronInv'
  <2>1. s \in RunStates
    BY <1>2 DEF RunStates, RunStages
  <2>2. s.pc = "gate" /\ s.queue = <<k>> /\ s.tick = ThisMinute /\ s.at = 0
    OBVIOUS
  <2> HIDE DEF s
  <2>3. run' \in [Runners -> RunStates] /\ run'[r] = s /\ \A o \in Runners \ {r} : run'[o] = run[o]
    BY <1>2, <1>4, <2>1 DEF Set
  <2>4. <<k>> # <<>> /\ Len(<<k>>) = 1 /\ Head(<<k>>) = k /\ {<<k>>[i] : i \in DOMAIN <<k>>} = {k}
        /\ IsInjective(<<k>>)
    BY DEF IsInjective
  <2>5. Tidy(r)'
    <3>1. run'[r].queue # <<>> /\ IsInjective(run'[r].queue) /\ Len(run'[r].queue) <= 1
      <4>1. run'[r].queue = <<k>>
        BY <2>2, <2>3
      <4>2. 1 <= 1
        OBVIOUS
      <4>3. QED
        BY <2>4, <4>1, <4>2, Zenon
    <3>2. run'[r].tick <= ThisMinute' /\ run'[r].at <= ThisMinute' /\ run'[r].pc = "gate"
      BY <1>2, <2>2, <2>3
    <3>3. r # "scheduler" /\ r \notin RunClicks \ spent'
      BY <1>1, <1>2
    <3>4. QED
      BY <3>1, <3>2, <3>3 DEF Tidy
  <2>6. About(r)' = {k} /\ Decided(r, k)'
    BY <2>2, <2>3, <2>4 DEF About, Decided, CurrentJob
  <2>7. run'[r].pc # "stamp" /\ run'[r].tick = ThisMinute /\ spent \subseteq spent'
        /\ excused' = excused \cup Overlaps(About(r)')
    BY <1>1, <1>4, <2>2, <2>3, <2>6
  <2>8. QED
    BY <1>1, <1>2, <1>4, <2>3, <2>5, <2>6, <2>7, RunStarts
<1>5. QED
  BY <1>3, <1>4 DEF RunsNow

\* Whoever is not a run leaves the invariant alone.
LEMMA WorldMoves ==
  ASSUME CronInv, TickPasses \/ Edits \/ DeletesSpace \/ DisablesJobs \/ Brakes \/ CaptainGoes
  PROVE  CronInv'
<1>1. CronHorizon \in Nat /\ clock \in 0 .. CronHorizon /\ job \in [CronJobs -> JobRows]
  BY CronAssumption DEF CronInv, CronShapes
<1>2. UNCHANGED <<run, delivered, excused, spent>> /\ clock' \in 0 .. CronHorizon /\ clock <= clock'
  BY <1>1 DEF TickPasses, Edits, DeletesSpace, DisablesJobs, Brakes, CaptainGoes
<1>3. CASE job' = job
  BY <1>1, <1>2, <1>3, WorldStays
<1>4. CASE \E j \in CronJobs :
             \/ job[j].is = "new" /\ job' = [job EXCEPT ![j].is = "listed"]
             \/ job[j].is = "listed" /\ job' = [job EXCEPT ![j].on = ~@]
             \/ job[j].is = "listed" /\ job' = [job EXCEPT ![j].is = "gone"]
             \/ job[j].is = "listed" /\ \E due \in {Minutes, {0}} : job' = [job EXCEPT ![j].due = due]
  <2>1. PICK k \in CronJobs :
             \/ job[k].is = "new" /\ job' = [job EXCEPT ![k].is = "listed"]
             \/ job[k].is = "listed" /\ job' = [job EXCEPT ![k].on = ~@]
             \/ job[k].is = "listed" /\ job' = [job EXCEPT ![k].is = "gone"]
             \/ job[k].is = "listed" /\ \E due \in {Minutes, {0}} : job' = [job EXCEPT ![k].due = due]
    BY <1>4
  <2>2. \A row \in JobRows :
          /\ \A is \in {"listed", "gone"} :
               /\ [row EXCEPT !.is = is] \in JobRows /\ [row EXCEPT !.is = is].is = is
               /\ [row EXCEPT !.is = is].last = row.last
          /\ \A due \in {Minutes, {0}} :
               /\ [row EXCEPT !.due = due] \in JobRows /\ [row EXCEPT !.due = due].is = row.is
               /\ [row EXCEPT !.due = due].last = row.last
    BY DEF JobRows
  <2>3. \A row \in JobRows : /\ [row EXCEPT !.on = ~row.on] \in JobRows
                             /\ [row EXCEPT !.on = ~row.on].is = row.is
                             /\ [row EXCEPT !.on = ~row.on].last = row.last
    BY DEF JobRows
  <2>4. PICK row \in JobRows :
          /\ job' = [job EXCEPT ![k] = row] /\ row.last = job[k].last
          /\ row.is = "new" => job[k].is = "new"
          /\ job[k].is = "gone" => row.is = "gone"
    <3>1. job[k] \in JobRows
      BY <1>1
    <3>2. CASE job[k].is = "new" /\ job' = [job EXCEPT ![k].is = "listed"]
      BY <2>2, <3>1, <3>2
    <3>3. CASE job[k].is = "listed" /\ job' = [job EXCEPT ![k].on = ~@]
      <4>1. job' = [job EXCEPT ![k] = [job[k] EXCEPT !.on = ~job[k].on]]
        BY <1>1, <3>3
      <4>2. QED
        BY <2>3, <3>1, <3>3, <4>1, Zenon
    <3>4. CASE job[k].is = "listed" /\ job' = [job EXCEPT ![k].is = "gone"]
      BY <2>2, <3>1, <3>4
    <3>5. CASE job[k].is = "listed" /\ \E due \in {Minutes, {0}} : job' = [job EXCEPT ![k].due = due]
      BY <2>2, <3>1, <3>5
    <3>6. QED
      BY <2>1, <3>2, <3>3, <3>4, <3>5
  <2>5. job' \in [CronJobs -> JobRows] /\ \A j \in CronJobs : job'[j] = IF j = k THEN row ELSE job[j]
    BY <1>1, <2>4
  <2>6. QED
    BY <1>2, <2>4, <2>5, WorldStays
<1>5. CASE job' = [j \in CronJobs |-> [job[j] EXCEPT !.on = FALSE]]
  <2>1. \A row \in JobRows : /\ [row EXCEPT !.on = FALSE] \in JobRows
                             /\ [row EXCEPT !.on = FALSE].is = row.is
                             /\ [row EXCEPT !.on = FALSE].last = row.last
    BY DEF JobRows
  <2>2. job' \in [CronJobs -> JobRows] /\ \A j \in CronJobs : job'[j].is = job[j].is /\ job'[j].last = job[j].last
    BY <1>1, <1>5, <2>1
  <2>3. QED
    BY <1>2, <2>2, WorldStays
<1>6. QED
  <2>1. TickPasses \/ DeletesSpace \/ Brakes \/ CaptainGoes => job' = job
    BY DEF TickPasses, DeletesSpace, Brakes, CaptainGoes
  <2>2. QED
    BY <1>3, <1>4, <1>5, <2>1 DEF Edits, DisablesJobs

LEMMA CronSteps == ASSUME CronInv, [CronNext]_cronVars PROVE CronInv'
<1>1. ASSUME UNCHANGED cronVars PROVE CronInv'
  <2>1. /\ clock' \in 0 .. CronHorizon /\ clock <= clock' /\ job' \in [CronJobs -> JobRows]
        /\ UNCHANGED <<run, delivered, excused, spent, job>>
    BY <1>1, CronAssumption DEF cronVars, CronInv, CronShapes
  <2>2. QED
    BY <2>1, WorldStays
<1>2. QED
  BY <1>1, WorldMoves, TickStarts, DecidesLate, GatesMove, RevivesMove, PromptIsFirst, StampsHold, ClickStarts
     DEF CronNext

\* The runs of the scheduler and of "run now" never leave the inductive invariant.
THEOREM RunsAreSound == CronSpec => []CronInv
  BY CronStarts, CronSteps, PTL DEF CronSpec

\* However late a run delivers, a second prompt in one minute has an overlapping run or
\* a failed stamp behind it, and a stamp has a prompt behind it (cron.rs, run_job).
THEOREM DoublesAreExplained == CronSpec => [](DoublesNeedOverlap /\ StampMeansDelivered)
<1>1. CronInv => DoublesNeedOverlap /\ StampMeansDelivered
  BY DEF CronInv, StampsAreEarned, StampMeansDelivered, Fired
<1>2. QED
  BY <1>1, RunsAreSound, PTL

\* What the runs do not decide on: the switches, the bounds and the count of prompts.
CronMargins ==
  /\ tickDue \in BOOLEAN /\ brake \in BOOLEAN /\ astray \in BOOLEAN /\ spent \subseteq RunClicks
  /\ space \in {"live", "deleting", "deleted"} /\ captain \in {"none", "live", "exited"}
  /\ delivered \in [CronJobs -> [Minutes -> 0 .. 2]]
  /\ meddled \in 0 .. CronMeddling /\ cronFaults \in 0 .. CronFaults

LEMMA MarginsBegin == CronInit => CronMargins
<1>1. 0 \in 0 .. 2 /\ 0 \in 0 .. CronMeddling /\ 0 \in 0 .. CronFaults
  BY CronAssumption
<1>2. CronInit => delivered \in [CronJobs -> [Minutes -> 0 .. 2]]
  BY <1>1 DEF CronInit
<1>3. QED
  BY <1>1, <1>2 DEF CronInit, CronMargins

LEMMA MarginsRemain == ASSUME CronInv, CronMargins, [CronNext]_cronVars PROVE CronMargins'
<1> DEFINE Others == <<tickDue, brake, astray, spent, space, captain, delivered, meddled>>
<1>1. /\ CronMeddling \in Nat /\ CronFaults \in Nat
      /\ \A n \in 0 .. CronMeddling : n < CronMeddling => n + 1 \in 0 .. CronMeddling
      /\ \A n \in 0 .. CronFaults : n < CronFaults => n + 1 \in 0 .. CronFaults
  BY CronAssumption
<1>2. CASE TickPasses \/ UNCHANGED cronVars
  BY <1>2 DEF TickPasses, cronVars, CronMargins
<1>3. CASE Edits \/ DeletesSpace \/ Brakes \/ CaptainGoes
  BY <1>1, <1>3 DEF Edits, DeletesSpace, Brakes, CaptainGoes, Meddles, CronMargins
<1>4. CASE DisablesJobs
  BY <1>1, <1>4 DEF DisablesJobs, CronMargins
<1>5. CASE TakesTick
  BY <1>1, <1>5 DEF TakesTick, CronMargins
<1>6. ASSUME NEW r \in Runners, Decides(r) \/ Gates(r) \/ Revives(r) \/ Stamps(r) PROVE CronMargins'
  BY <1>1, <1>6 DEF Decides, Gates, Revives, Stamps, CronMargins
<1>7. ASSUME NEW r \in Runners, DeliversPrompt(r) PROVE CronMargins'
  <2> DEFINE k == CurrentJob(r)
             n == delivered[k][ThisMinute]
  <2>1. delivered' = [delivered EXCEPT ![k][ThisMinute] = IF @ = 2 THEN 2 ELSE @ + 1]
    BY <1>7 DEF DeliversPrompt
  <2>2. k \in CronJobs /\ ThisMinute \in Minutes
    BY <1>7, MinuteNow, HeadIsAbout DEF CronInv, DeliversPrompt
  <2> HIDE DEF k
  <2>3. \A m \in 0 .. 2 : (IF m = 2 THEN 2 ELSE m + 1) \in 0 .. 2
    OBVIOUS
  <2>4. delivered' \in [CronJobs -> [Minutes -> 0 .. 2]]
    BY <2>1, <2>2, <2>3 DEF CronMargins
  <2>5. QED
    BY <1>7, <2>4 DEF DeliversPrompt, CronMargins
<1>8. ASSUME NEW r \in Runners, NEW j \in CronJobs, RunsNow(r, j) PROVE CronMargins'
  BY <1>8 DEF RunsNow, CronMargins
<1>9. QED
  BY <1>2, <1>3, <1>4, <1>5, <1>6, <1>7, <1>8 DEF CronNext

\* The table, the runs and the history of scheduled prompts have their types (cron.rs).
THEOREM CronTypesHold == CronSpec => []CronTypeOK
<1>1. CronInv /\ CronMargins => CronTypeOK
  <2> SUFFICES ASSUME CronInv, CronMargins PROVE CronTypeOK
    OBVIOUS
  <2>1. clock \in 0 .. CronHorizon /\ excused \subseteq CronJobs /\ job \in [CronJobs -> JobRows]
    BY DEF CronInv, CronShapes
  <2>2. ASSUME NEW r \in Runners
        PROVE  /\ run[r].pc \in RunStages /\ (run[r].pc # "idle" => run[r].queue # <<>>)
               /\ run[r].tick \in 0 .. ThisMinute /\ run[r].at \in 0 .. ThisMinute
    <3>1. run[r] \in RunStates /\ Tidy(r)
      BY DEF CronInv, CronShapes, RunsAreTidy
    <3>2. /\ run[r].pc \in RunStages /\ run[r].tick \in Minutes /\ run[r].at \in Minutes
          /\ run[r].tick <= ThisMinute /\ run[r].at <= ThisMinute /\ (run[r].pc # "idle" => run[r].queue # <<>>)
      BY <3>1, RunFields DEF Tidy
    <3>3. ThisMinute \in Nat /\ Minutes \subseteq Nat
      BY MinuteNow DEF CronInv
    <3>4. \A m, n \in Nat : m <= n => m \in 0 .. n
      OBVIOUS
    <3>5. QED
      BY <3>2, <3>3, <3>4
  <2>3. QED
    BY <2>1, <2>2 DEF CronTypeOK, CronMargins, JobRows, RunStages
<1>2. QED
  BY <1>1, MarginsBegin, MarginsRemain, CronStarts, CronSteps, PTL DEF CronSpec
-----------------------------------------------------------------------------
(* Activity.                                                               *)

StepStates == {"running", "ok", "gone"}
RingRows == [seq : Seqs, phase : StepPhases]
TraceRows == [agent : Actors, status : {"active", "done"}, done : Nat, reply : Nat,
              steps : Seq(Actors \X Seqs)]

ActShapes ==
  /\ steps \in [Actors -> Seq(StepStates)] /\ Len(steps[Lead]) + Len(steps[Worker]) <= MaxSteps
  /\ ring \in [Actors -> Seq(RingRows)]
  /\ upserts \subseteq [by : Actors, rec : RingRows]
  /\ appends \subseteq [step : Actors \X Seqs, at : Nat]
  /\ traces \in Seq(TraceRows)
  /\ replies \in Nat /\ activityClock \in Nat /\ reserve \in Nat

\* The table holds phases of steps.
RowsAreSteps ==
  /\ DOMAIN stored = Actors
  /\ \A a \in Actors : /\ DOMAIN stored[a] \subseteq Seqs
                        /\ \A s \in DOMAIN stored[a] : stored[a][s] \in StepPhases

IsOne(r) == \A i, j \in DOMAIN r : r[i].seq = r[j].seq => i = j
IsTrue(r, done) == \A i \in DOMAIN r : r[i].seq \in DOMAIN done /\ r[i].phase = done[r[i].seq]

\* The ring has one entry for a step, and it says what the agent did last.
RingIsTrue ==
  \A a \in Actors : Len(ring[a]) <= RingCap /\ IsOne(ring[a]) /\ IsTrue(ring[a], steps[a])

\* A reply answers one trace, and no trace has more steps than it may.
TracesAreOwn ==
  /\ \A i \in DOMAIN traces :
       /\ Len(traces[i].steps) <= MaxSummary
       /\ traces[i].status = "done" <=> traces[i].reply # 0
       /\ traces[i].reply <= replies
  /\ \A i, j \in DOMAIN traces : traces[i].reply = traces[j].reply /\ traces[i].reply # 0 => i = j

\* The inductive invariant.
ActInv == ActShapes /\ RowsAreSteps /\ RingIsTrue /\ TracesAreOwn

LEMMA TailOf ==
  ASSUME NEW S, NEW q \in Seq(S), q # <<>>
  PROVE  /\ Tail(q) \in Seq(S) /\ Len(q) \in Nat /\ Len(q) > 0 /\ Len(Tail(q)) = Len(q) - 1
         /\ DOMAIN Tail(q) = 1 .. (Len(q) - 1)
         /\ \A i \in DOMAIN Tail(q) : i + 1 \in DOMAIN q /\ Tail(q)[i] = q[i + 1]
  OBVIOUS

\* What one step of an agent does to its ring: its entry is replaced where it is,
\* or pushes the oldest out.
LEMMA RingRecords ==
  ASSUME NEW r \in Seq(RingRows), NEW rec \in RingRows, IsOne(r), Len(r) <= RingCap
  PROVE  /\ Record(r, rec) \in Seq(RingRows)
         /\ Len(Record(r, rec)) <= RingCap
         /\ IsOne(Record(r, rec))
         /\ \A i \in DOMAIN Record(r, rec) :
              \/ Record(r, rec)[i] = rec
              \/ \E k \in DOMAIN r : Record(r, rec)[i] = r[k] /\ r[k].seq # rec.seq
<1>1. DOMAIN r = 1 .. Len(r) /\ Len(r) \in Nat /\ \A i \in DOMAIN r : r[i] \in RingRows
  OBVIOUS
<1>2. CASE InRing(r, rec.seq) # {}
  <2>  DEFINE R == [i \in DOMAIN r |-> IF r[i].seq = rec.seq THEN rec ELSE r[i]]
  <2>1. Record(r, rec) = R
    BY <1>2 DEF Record
  <2>2. R \in Seq(RingRows) /\ Len(R) = Len(r) /\ DOMAIN R = DOMAIN r
    BY <1>1
  <2>3. \A i \in DOMAIN r : R[i].seq = r[i].seq
    OBVIOUS
  <2>4. IsOne(R)
    BY <2>2, <2>3 DEF IsOne
  <2>5. \A i \in DOMAIN R : R[i] = rec \/ (R[i] = r[i] /\ r[i].seq # rec.seq)
    OBVIOUS
  <2>6. QED
    BY <2>1, <2>2, <2>4, <2>5
<1>3. CASE InRing(r, rec.seq) = {}
  <2>  DEFINE b == IF Len(r) >= RingCap THEN Tail(r) ELSE r
              R == Append(b, rec)
  <2>1. Record(r, rec) = R
    BY <1>3 DEF Record
  <2>2. \A k \in DOMAIN r : r[k].seq # rec.seq
    BY <1>3 DEF InRing
  <2>3. RingCap \in Nat /\ RingCap > 0
    BY ActivityAssumption
  <2>4. b \in Seq(RingRows) /\ Len(b) < RingCap /\ Len(b) \in Nat
    <3>1. CASE Len(r) >= RingCap
      <4>1. r # <<>> /\ b = Tail(r)
        BY <2>3, <3>1
      <4>2. QED
        BY <1>1, <2>3, <3>1, <4>1
    <3>2. CASE ~(Len(r) >= RingCap)
      BY <1>1, <2>3, <3>2
    <3>3. QED
      BY <3>1, <3>2
  <2>5. IsOne(b) /\ \A i \in DOMAIN b : \E k \in DOMAIN r : b[i] = r[k]
    <3>1. CASE Len(r) >= RingCap
      <4>1. r # <<>> /\ b = Tail(r) /\ Len(r) > 0
        BY <2>3, <3>1
      <4>2. /\ DOMAIN b = 1 .. (Len(r) - 1)
            /\ \A i \in DOMAIN b : i + 1 \in DOMAIN r /\ b[i] = r[i + 1]
        <5>  HIDE DEF b
        <5>1. QED
          BY <4>1, TailOf
      <4>3. \A i, j \in DOMAIN b : b[i].seq = b[j].seq => i + 1 = j + 1
        BY <4>2 DEF IsOne
      <4>4. \A i, j \in DOMAIN b : i + 1 = j + 1 => i = j
        BY <1>1, <4>2
      <4>5. QED
        BY <4>2, <4>3, <4>4 DEF IsOne
    <3>2. CASE ~(Len(r) >= RingCap)
      BY <3>2
    <3>3. QED
      BY <3>1, <3>2
  <2>  HIDE DEF b
  <2>6. /\ R \in Seq(RingRows) /\ Len(R) = Len(b) + 1 /\ DOMAIN R = 1 .. (Len(b) + 1)
        /\ DOMAIN b = 1 .. Len(b)
        /\ R[Len(b) + 1] = rec
        /\ \A i \in DOMAIN b : R[i] = b[i]
    BY <2>4
  <2>7. \A i \in DOMAIN R : i \in DOMAIN b \/ i = Len(b) + 1
    BY <2>4, <2>6
  <2>8. Len(R) <= RingCap
    BY <2>3, <2>4, <2>6
  <2>  HIDE DEF R
  <2>9. IsOne(R)
    BY <2>2, <2>5, <2>6, <2>7 DEF IsOne
  <2>10. \A i \in DOMAIN R : R[i] = rec \/ \E k \in DOMAIN r : R[i] = r[k] /\ r[k].seq # rec.seq
    BY <2>2, <2>5, <2>6, <2>7
  <2>11. QED
    BY <2>1, <2>6, <2>8, <2>9, <2>10
<1>4. QED
  BY <1>2, <1>3

\* An actor's step now stands at done, and the row rec of it is recorded.
StepRecorded(a, rec, done) ==
  /\ RecordActivity(a, rec) /\ steps' = [steps EXCEPT ![a] = done]
  /\ rec.seq \in DOMAIN done /\ rec.phase = done[rec.seq]
  /\ \A s \in DOMAIN steps[a] : s \in DOMAIN done /\ (s # rec.seq => done[s] = steps[a][s])

\* The ring of an agent that records stays true of what the agent did.
LEMMA RingStaysTrue ==
  ASSUME ActShapes, RingIsTrue, NEW a \in Actors, NEW rec \in RingRows, NEW done \in Seq(StepStates),
         StepRecorded(a, rec, done)
  PROVE  /\ ring' \in [Actors -> Seq(RingRows)]
         /\ upserts' \subseteq [by : Actors, rec : RingRows]
         /\ RingIsTrue'
<1>  USE DEF StepRecorded
<1>1. ring[a] \in Seq(RingRows) /\ IsOne(ring[a]) /\ Len(ring[a]) <= RingCap /\ IsTrue(ring[a], steps[a])
  BY DEF ActShapes, RingIsTrue
<1>2. ring' = [ring EXCEPT ![a] = Record(ring[a], rec)]
  BY DEF RecordActivity
<1>  DEFINE R == Record(ring[a], rec)
<1>3. /\ R \in Seq(RingRows) /\ Len(R) <= RingCap /\ IsOne(R)
      /\ \A i \in DOMAIN R : R[i] = rec \/ \E k \in DOMAIN ring[a] : R[i] = ring[a][k] /\ ring[a][k].seq # rec.seq
  BY <1>1, RingRecords
<1>  HIDE DEF R
<1>4. /\ ring' \in [Actors -> Seq(RingRows)] /\ ring'[a] = R
      /\ \A b \in Actors \ {a} : ring'[b] = ring[b]
  BY <1>2, <1>3 DEF ActShapes, R
<1>5. upserts' \subseteq [by : Actors, rec : RingRows]
  BY DEF RecordActivity, ActShapes
<1>6. steps'[a] = done /\ \A b \in Actors \ {a} : steps'[b] = steps[b]
  BY DEF ActShapes
<1>7. IsTrue(R, done)
  BY <1>1, <1>3 DEF IsTrue
<1>8. RingIsTrue'
  <2> SUFFICES ASSUME NEW b \in Actors
               PROVE  Len(ring'[b]) <= RingCap /\ IsOne(ring'[b]) /\ IsTrue(ring'[b], steps'[b])
    BY DEF RingIsTrue
  <2>1. CASE b = a
    BY <1>3, <1>4, <1>6, <1>7, <2>1
  <2>2. CASE b # a
    BY <1>4, <1>6, <2>2 DEF RingIsTrue
  <2>3. QED
    BY <2>1, <2>2
<1>9. QED
  BY <1>4, <1>5, <1>8

LEMMA ActorsAreTwo == Actors = {Lead, Worker} /\ Lead \in Actors /\ Worker \in Actors /\ Lead # Worker
  BY DEF Actors, Lead, Worker

LEMMA StepsStart == ASSUME ActInv, NEW a \in Actors, StartsStep(a) PROVE ActInv'
<1>  DEFINE s == Len(steps[a]) + 1
            done == Append(steps[a], "running")
            rec == [seq |-> s, phase |-> "running"]
<1>1. /\ Len(steps[Lead]) + Len(steps[Worker]) < MaxSteps
      /\ steps' = [steps EXCEPT ![a] = done] /\ RecordActivity(a, rec)
      /\ UNCHANGED <<stored, appends, traces, pushed, replies, activityClock, reserve>>
  BY DEF StartsStep
<1>1a. steps' = [steps EXCEPT ![a] = done]
  BY <1>1
<1>1b. RecordActivity(a, rec)
  BY <1>1
<1>2. ActShapes /\ RingIsTrue
  BY DEF ActInv
<1>3. steps[a] \in Seq(StepStates) /\ steps[Lead] \in Seq(StepStates) /\ steps[Worker] \in Seq(StepStates)
  BY <1>2, ActorsAreTwo DEF ActShapes
<1>4. /\ Len(steps[a]) \in Nat /\ Len(steps[Lead]) \in Nat /\ Len(steps[Worker]) \in Nat /\ MaxSteps \in Nat
  <2>1. \A q \in Seq(StepStates) : Len(q) \in Nat
    OBVIOUS
  <2>2. QED
    BY <1>3, <2>1, ActivityAssumption
<1>5. s \in Seqs
  <2>1. s \in Nat /\ 1 <= s
    BY <1>4
  <2>2. s <= MaxSteps
    <3>1. \A x, y, z \in Nat : x + y < z => x + 1 <= z /\ y + 1 <= z
      OBVIOUS
    <3>2. Len(steps[Lead]) + 1 <= MaxSteps /\ Len(steps[Worker]) + 1 <= MaxSteps
      BY <1>1, <1>4, <3>1
    <3>3. QED
      BY <3>2, ActorsAreTwo
  <2>3. QED
    BY <1>4, <2>1, <2>2 DEF Seqs
<1>6. rec \in RingRows /\ rec.seq = s /\ rec.phase = "running"
  BY <1>5 DEF RingRows, StepPhases
<1>7. /\ done \in Seq(StepStates) /\ Len(done) = Len(steps[a]) + 1 /\ s \in DOMAIN done /\ done[s] = "running"
      /\ \A q \in DOMAIN steps[a] : q \in DOMAIN done /\ done[q] = steps[a][q]
  BY <1>3, <1>4 DEF StepStates
<1>  HIDE DEF s, done, rec
<1>8. /\ ring' \in [Actors -> Seq(RingRows)] /\ upserts' \subseteq [by : Actors, rec : RingRows] /\ RingIsTrue'
  <2>1. StepRecorded(a, rec, done)
    BY <1>1a, <1>1b, <1>6, <1>7 DEF StepRecorded
  <2>2. QED
    BY <1>2, <1>6, <1>7, <2>1, RingStaysTrue
<1>9. steps' \in [Actors -> Seq(StepStates)] /\ steps'[a] = done /\ \A b \in Actors \ {a} : steps'[b] = steps[b]
  BY <1>1, <1>2, <1>7 DEF ActShapes
<1>10. Len(steps'[Lead]) + Len(steps'[Worker]) <= MaxSteps
  <2>1. CASE a = Lead
    BY <1>1, <1>4, <1>7, <1>9, <2>1, ActorsAreTwo
  <2>2. CASE a = Worker
    BY <1>1, <1>4, <1>7, <1>9, <2>2, ActorsAreTwo
  <2>3. QED
    BY <2>1, <2>2, ActorsAreTwo
<1>11. ActShapes'
  BY <1>1, <1>2, <1>8, <1>9, <1>10 DEF ActShapes
<1>12. RowsAreSteps' /\ TracesAreOwn'
  BY <1>1 DEF ActInv, RowsAreSteps, TracesAreOwn
<1>13. QED
  BY <1>8, <1>11, <1>12 DEF ActInv

LEMMA StepsEnd == ASSUME ActInv, NEW a \in Actors, NEW s \in Seqs, EndsStep(a, s) PROVE ActInv'
<1>  DEFINE done == [steps[a] EXCEPT ![s] = "ok"]
            rec == [seq |-> s, phase |-> "ok"]
<1>1. /\ s \in DOMAIN steps[a] /\ steps' = [steps EXCEPT ![a] = done] /\ RecordActivity(a, rec)
      /\ appends' = appends \cup {[step |-> <<a, s>>, at |-> activityClock + 1]}
      /\ activityClock' = activityClock + 1
      /\ UNCHANGED <<stored, traces, pushed, replies, reserve>>
  BY DEF EndsStep, ActInv, ActShapes
<1>2. ActShapes /\ RingIsTrue
  BY DEF ActInv
<1>3. steps[a] \in Seq(StepStates)
  BY <1>2 DEF ActShapes
<1>4. rec \in RingRows /\ rec.seq = s /\ rec.phase = "ok"
  BY DEF RingRows, StepPhases
<1>5. /\ done \in Seq(StepStates) /\ Len(done) = Len(steps[a]) /\ s \in DOMAIN done /\ done[s] = "ok"
      /\ \A q \in DOMAIN steps[a] : q \in DOMAIN done /\ (q # s => done[q] = steps[a][q])
  BY <1>1, <1>3 DEF StepStates
<1>  HIDE DEF done, rec
<1>6. /\ ring' \in [Actors -> Seq(RingRows)] /\ upserts' \subseteq [by : Actors, rec : RingRows] /\ RingIsTrue'
  <2>1. StepRecorded(a, rec, done)
    BY <1>1, <1>4, <1>5 DEF StepRecorded
  <2>2. QED
    BY <1>2, <1>4, <1>5, <2>1, RingStaysTrue
<1>7. steps' \in [Actors -> Seq(StepStates)] /\ \A b \in Actors : Len(steps'[b]) = Len(steps[b])
  BY <1>1, <1>2, <1>5 DEF ActShapes
<1>8. appends' \subseteq [step : Actors \X Seqs, at : Nat] /\ activityClock' \in Nat
  BY <1>1, <1>2 DEF ActShapes
<1>9. ActShapes'
  BY <1>1, <1>2, <1>6, <1>7, <1>8, ActorsAreTwo DEF ActShapes
<1>10. RowsAreSteps' /\ TracesAreOwn'
  BY <1>1 DEF ActInv, RowsAreSteps, TracesAreOwn
<1>11. QED
  BY <1>6, <1>9, <1>10 DEF ActInv

-----------------------------------------------------------------------------
(* Thought traces.                                                         *)

\* Of the traces in question there is a newest one.
LEMMA NewestExists ==
  ASSUME ActShapes, NEW among \in SUBSET DOMAIN traces, among # {}
  PROVE  NewestOf(among) \in among
<1>  DEFINE Back == {Len(traces) - i : i \in among}
<1>1. Len(traces) \in Nat /\ among \subseteq 1 .. Len(traces)
  BY DEF ActShapes
<1>2. Back \in SUBSET Nat /\ Back # {}
  BY <1>1
<1>3. PICK x \in Back : \A y \in Back : ~(y < x)
  BY <1>2, LeastNumber
<1>4. PICK i \in among : x = Len(traces) - i
  BY <1>3
<1>5. \A j \in among : ~(Len(traces) - j < Len(traces) - i)
  BY <1>3, <1>4
<1>6. \A j \in among : j <= i
  BY <1>1, <1>5
<1>7. QED
  BY <1>6 DEF NewestOf

\* A trace that takes a step is otherwise what it was.
LEMMA TraceGrows ==
  ASSUME NEW t \in TraceRows, NEW q \in Seq(Actors \X Seqs)
  PROVE  LET u == [t EXCEPT !.steps = q] IN
         u \in TraceRows /\ u.status = t.status /\ u.reply = t.reply /\ u.steps = q /\ u.agent = t.agent
  BY DEF TraceRows

LEMMA TraceFields ==
  ASSUME NEW t \in TraceRows
  PROVE  /\ t.status \in {"active", "done"} /\ t.reply \in Nat /\ t.done \in Nat
         /\ t.steps \in Seq(Actors \X Seqs) /\ t.agent \in Actors
  BY DEF TraceRows

\* A step that is merged leaves the others where they are until the trace is full.
LEMMA StepsMerge ==
  ASSUME NEW old \in Seq(Actors \X Seqs), NEW new \in Actors \X Seqs, Len(old) <= MaxSummary
  PROVE  /\ MergeSteps(old, new) \in Seq(Actors \X Seqs) /\ Len(MergeSteps(old, new)) <= MaxSummary
         /\ Len(old) < MaxSummary =>
              \A k \in DOMAIN old : \E n \in DOMAIN MergeSteps(old, new) : MergeSteps(old, new)[n] = old[k]
<1>1. MaxSummary \in Nat /\ MaxSummary > 0 /\ Len(old) \in Nat /\ DOMAIN old = 1 .. Len(old)
  BY ActivityAssumption
<1>2. CASE \E i \in DOMAIN old : old[i] = new
  <2>1. MergeSteps(old, new) = IF Len(old) > MaxSummary THEN Tail(old) ELSE old
    BY <1>2 DEF MergeSteps
  <2>2. ~(Len(old) > MaxSummary)
    BY <1>1
  <2>3. MergeSteps(old, new) = old
    BY <2>1, <2>2
  <2>4. QED
    BY <2>3
<1>3. CASE ~ \E i \in DOMAIN old : old[i] = new
  <2>  DEFINE all == Append(old, new)
  <2>1. all \in Seq(Actors \X Seqs) /\ Len(all) = Len(old) + 1 /\ DOMAIN all = 1 .. Len(all)
        /\ \A k \in DOMAIN old : k \in DOMAIN all /\ all[k] = old[k]
    BY <1>1
  <2>2. MergeSteps(old, new) = IF Len(all) > MaxSummary THEN Tail(all) ELSE all
    BY <1>3 DEF MergeSteps
  <2>  HIDE DEF all
  <2>3. CASE Len(all) > MaxSummary
    <3>1. all # <<>> /\ MergeSteps(old, new) = Tail(all) /\ ~(Len(old) < MaxSummary)
      BY <1>1, <2>1, <2>2, <2>3
    <3>2. Tail(all) \in Seq(Actors \X Seqs) /\ Len(Tail(all)) = Len(old)
      BY <1>1, <2>1, <3>1
    <3>3. QED
      BY <3>1, <3>2
  <2>4. CASE ~(Len(all) > MaxSummary)
    BY <1>1, <2>1, <2>2, <2>4
  <2>5. QED
    BY <2>3, <2>4
<1>4. QED
  BY <1>2, <1>3

\* What a step may do to the traces: an answer is added, kept, or missing.
TracesMove ==
  /\ traces' \in Seq(TraceRows) /\ Len(traces) <= Len(traces') /\ DOMAIN traces \subseteq DOMAIN traces'
  /\ replies' \in Nat /\ replies <= replies'
  /\ \A i \in DOMAIN traces' : Len(traces'[i].steps) <= MaxSummary
  /\ \A i \in DOMAIN traces : traces[i].status = "done" =>
       traces'[i].status = "done" /\ traces'[i].reply = traces[i].reply
  /\ \A i \in DOMAIN traces' :
       \/ traces'[i].status = "active" /\ traces'[i].reply = 0
       \/ i \in DOMAIN traces /\ traces'[i].status = "done" /\ traces[i].status = "done" /\ traces'[i].reply = traces[i].reply
       \/ i \in DOMAIN traces /\ traces'[i].status = "done" /\ traces'[i].reply = replies + 1 /\ replies' = replies + 1
  /\ \A i, j \in DOMAIN traces' :
       traces'[i].reply = replies + 1 /\ traces'[j].reply = replies + 1 => i = j

LEMMA TracesStayOwn ==
  ASSUME ActShapes, TracesAreOwn, TracesMove
  PROVE  TracesAreOwn'
<1>1. /\ replies \in Nat /\ replies' \in Nat /\ replies <= replies'
      /\ \A i \in DOMAIN traces : traces[i].reply \in Nat /\ traces[i].reply <= replies
      /\ \A i \in DOMAIN traces' : traces'[i].reply \in Nat
  <2>1. \A i \in DOMAIN traces : traces[i] \in TraceRows
    BY DEF ActShapes
  <2>2. \A i \in DOMAIN traces' : traces'[i] \in TraceRows
    BY DEF TracesMove
  <2>3. QED
    BY <2>1, <2>2, TraceFields DEF TracesMove, ActShapes, TracesAreOwn
<1>2. \A i \in DOMAIN traces : traces[i].reply # replies + 1
  BY <1>1
<1>3. \A i \in DOMAIN traces' : traces'[i].reply <= replies'
  <2> SUFFICES ASSUME NEW i \in DOMAIN traces' PROVE traces'[i].reply <= replies'
    OBVIOUS
  <2>1. \/ traces'[i].reply = 0 \/ (i \in DOMAIN traces /\ traces'[i].reply = traces[i].reply)
        \/ (traces'[i].reply = replies + 1 /\ replies' = replies + 1)
    BY DEF TracesMove
  <2>2. QED
    BY <1>1, <2>1
<1>4. \A i \in DOMAIN traces' : traces'[i].status = "done" <=> traces'[i].reply # 0
  <2> SUFFICES ASSUME NEW i \in DOMAIN traces' PROVE traces'[i].status = "done" <=> traces'[i].reply # 0
    OBVIOUS
  <2>1. replies + 1 # 0
    BY <1>1
  <2>2. QED
    BY <2>1 DEF TracesMove, TracesAreOwn
<1>5. ASSUME NEW i \in DOMAIN traces', NEW j \in DOMAIN traces',
             traces'[i].reply = traces'[j].reply, traces'[i].reply # 0
      PROVE  i = j
  <2>1. CASE traces'[i].reply = replies + 1
    BY <1>5, <2>1 DEF TracesMove
  <2>2. CASE traces'[i].reply # replies + 1
    <3>1. i \in DOMAIN traces /\ traces'[i].reply = traces[i].reply
      BY <1>5, <2>2 DEF TracesMove
    <3>2. j \in DOMAIN traces /\ traces'[j].reply = traces[j].reply
      BY <1>5, <2>2 DEF TracesMove
    <3>3. QED
      BY <1>5, <3>1, <3>2 DEF TracesAreOwn
  <2>3. QED
    BY <2>1, <2>2
<1>6. QED
  BY <1>3, <1>4, <1>5 DEF TracesMove, TracesAreOwn

\* No step takes one from a trace that is not full.
StepsRemain ==
  \A i \in DOMAIN traces : \A k \in DOMAIN traces[i].steps :
    Len(traces[i].steps) < MaxSummary =>
      \E n \in DOMAIN traces'[i].steps : traces'[i].steps[n] = traces[i].steps[k]

LEMMA TracesAlone ==
  ASSUME ActShapes, TracesAreOwn, UNCHANGED <<traces, replies>>
  PROVE  TracesMove /\ StepsRemain
<1>1. \A i \in DOMAIN traces : traces[i] \in TraceRows /\ traces[i].reply \in Nat /\ traces[i].status \in {"active", "done"}
  BY TraceFields DEF ActShapes
<1>2. \A i \in DOMAIN traces : traces[i].reply # replies + 1
  <2>1. replies \in Nat /\ \A i \in DOMAIN traces : traces[i].reply <= replies
    BY DEF ActShapes, TracesAreOwn
  <2>2. QED
    BY <1>1, <2>1
<1>3. StepsRemain
  BY DEF StepsRemain
<1>4. replies <= replies' /\ replies' \in Nat /\ Len(traces) <= Len(traces') /\ traces' \in Seq(TraceRows)
  BY DEF ActShapes
<1>5. \A i \in DOMAIN traces' : traces'[i].status = "active" => traces'[i].reply = 0
  BY DEF TracesAreOwn
<1>6. QED
  BY <1>1, <1>2, <1>3, <1>4, <1>5 DEF TracesMove, TracesAreOwn

LEMMA QuestionOpens == ASSUME ActInv, NEW a \in Actors, Asks(a) PROVE TracesMove /\ StepsRemain
<1>  DEFINE t == [agent |-> a, status |-> "active", done |-> 0, reply |-> 0, steps |-> <<>>]
<1>1. traces' = Append(traces, t) /\ replies' = replies
  BY DEF Asks
<1>2. t \in TraceRows /\ t.status = "active" /\ t.reply = 0 /\ t.steps = <<>>
  BY DEF TraceRows
<1>  HIDE DEF t
<1>3. ActShapes /\ TracesAreOwn /\ traces \in Seq(TraceRows) /\ replies \in Nat /\ MaxSummary \in Nat
  BY ActivityAssumption DEF ActInv, ActShapes
<1>4. /\ traces' \in Seq(TraceRows) /\ Len(traces') = Len(traces) + 1 /\ Len(traces) \in Nat
      /\ DOMAIN traces = 1 .. Len(traces) /\ DOMAIN traces' = 1 .. (Len(traces) + 1)
      /\ \A i \in DOMAIN traces : traces'[i] = traces[i]
      /\ traces'[Len(traces) + 1] = t
  BY <1>1, <1>2, <1>3
<1>5. /\ Len(traces) <= Len(traces') /\ DOMAIN traces \subseteq DOMAIN traces'
      /\ \A i \in DOMAIN traces' : i \in DOMAIN traces \/ i = Len(traces) + 1
  BY <1>4
<1>6. \A i \in DOMAIN traces : traces[i].reply \in Nat /\ traces[i].status \in {"active", "done"}
  BY <1>3, TraceFields
<1>7. \A i \in DOMAIN traces' : traces'[i].reply # replies + 1
  <2>1. \A i \in DOMAIN traces : traces[i].reply <= replies
    BY <1>3 DEF TracesAreOwn
  <2>2. 0 # replies + 1 /\ \A i \in DOMAIN traces : traces[i].reply # replies + 1
    BY <1>3, <1>6, <2>1
  <2>3. QED
    BY <1>2, <1>4, <1>5, <2>2
<1>8. \A i \in DOMAIN traces' : Len(traces'[i].steps) <= MaxSummary
  <2>1. Len(t.steps) <= MaxSummary
    BY <1>2, <1>3
  <2>2. QED
    BY <1>3, <1>4, <1>5, <2>1 DEF TracesAreOwn
<1>9. StepsRemain
  BY <1>4 DEF StepsRemain
<1>10. \A i \in DOMAIN traces : traces[i].status = "active" => traces[i].reply = 0
  BY <1>3, <1>6 DEF TracesAreOwn
<1>11. replies <= replies' /\ replies' \in Nat
  BY <1>1, <1>3
<1>12. \A i \in DOMAIN traces : traces[i].status = "done" => traces'[i].status = "done" /\ traces'[i].reply = traces[i].reply
  BY <1>4
<1>13. \A i \in DOMAIN traces' :
         \/ traces'[i].status = "active" /\ traces'[i].reply = 0
         \/ i \in DOMAIN traces /\ traces'[i].status = "done" /\ traces[i].status = "done" /\ traces'[i].reply = traces[i].reply
  BY <1>2, <1>4, <1>5, <1>6, <1>10
<1>14. QED
  BY <1>4, <1>5, <1>7, <1>8, <1>9, <1>11, <1>12, <1>13 DEF TracesMove

\* A reply closes at most one trace, and it is an open one.
LEMMA ReplyCloses == ASSUME ActInv, NEW a \in Actors, Replies(a) PROVE TracesMove /\ StepsRemain
<1>  DEFINE m == replies + 1
            n == activityClock + 1
<1>1. replies' = m /\ traces' = IF Active({a}) = {} THEN traces
                               ELSE [traces EXCEPT ![NewestOf(Active({a}))] =
                                       [@ EXCEPT !.status = "done", !.done = n, !.reply = m]]
  BY DEF Replies
<1>2. ActShapes /\ TracesAreOwn /\ traces \in Seq(TraceRows) /\ replies \in Nat /\ MaxSummary \in Nat
      /\ m \in Nat /\ n \in Nat /\ replies <= m /\ m # 0
  <2>1. ActShapes /\ TracesAreOwn /\ MaxSummary \in Nat
    BY ActivityAssumption DEF ActInv
  <2>2. traces \in Seq(TraceRows) /\ replies \in Nat /\ activityClock \in Nat
    BY <2>1 DEF ActShapes
  <2>3. QED
    BY <2>1, <2>2
<1>3. \A i \in DOMAIN traces : traces[i] \in TraceRows /\ traces[i].reply \in Nat
                               /\ traces[i].status \in {"active", "done"}
                               /\ traces[i].steps \in Seq(Actors \X Seqs)
  BY <1>2, TraceFields
<1>4. \A i \in DOMAIN traces :
        /\ traces[i].reply # m /\ Len(traces[i].steps) <= MaxSummary
        /\ traces[i].status = "active" => traces[i].reply = 0
  <2>1. \A i \in DOMAIN traces : traces[i].reply <= replies
    BY <1>2 DEF TracesAreOwn
  <2>2. \A i \in DOMAIN traces : traces[i].reply # m
    BY <1>2, <1>3, <2>1
  <2>3. QED
    BY <1>2, <1>3, <2>2 DEF TracesAreOwn
<1>5. CASE Active({a}) = {}
  <2>1. traces' = traces
    BY <1>1, <1>5
  <2>2. StepsRemain
    BY <2>1 DEF StepsRemain
  <2>3. Len(traces) <= Len(traces')
    BY <1>2, <2>1
  <2>4. QED
    BY <1>1, <1>2, <1>3, <1>4, <2>1, <2>2, <2>3 DEF TracesMove
<1>6. CASE Active({a}) # {}
  <2>  DEFINE k == NewestOf(Active({a}))
              u == [traces[k] EXCEPT !.status = "done", !.done = n, !.reply = m]
  <2>1. k \in DOMAIN traces /\ traces[k].status = "active"
    BY <1>2, <1>6, NewestExists DEF Active
  <2>2. /\ u \in TraceRows /\ u.status = "done" /\ u.reply = m /\ u.steps = traces[k].steps
    <3>1. traces[k] \in TraceRows /\ n \in Nat /\ m \in Nat
      BY <1>2, <1>3, <2>1
    <3>  HIDE DEF k, n, m
    <3>2. QED
      BY <3>1 DEF TraceRows
  <2>3. traces' = [traces EXCEPT ![k] = u]
    BY <1>1, <1>6
  <2>  HIDE DEF k, u
  <2>4. /\ traces' \in Seq(TraceRows) /\ Len(traces') = Len(traces) /\ DOMAIN traces' = DOMAIN traces
        /\ traces'[k] = u /\ \A i \in DOMAIN traces : i # k => traces'[i] = traces[i]
    BY <1>2, <2>1, <2>2, <2>3
  <2>5. Len(traces) <= Len(traces')
    BY <1>2, <2>4
  <2>6. \A i \in DOMAIN traces : traces'[i].steps = traces[i].steps
    BY <2>2, <2>4
  <2>7. StepsRemain
    BY <2>6 DEF StepsRemain
  <2>8. /\ \A i \in DOMAIN traces' : Len(traces'[i].steps) <= MaxSummary
        /\ \A i \in DOMAIN traces : traces[i].status = "done" =>
             traces'[i].status = "done" /\ traces'[i].reply = traces[i].reply
        /\ \A i \in DOMAIN traces' :
             \/ traces'[i].status = "active" /\ traces'[i].reply = 0
             \/ i \in DOMAIN traces /\ traces'[i].status = "done" /\ traces[i].status = "done" /\ traces'[i].reply = traces[i].reply
             \/ i \in DOMAIN traces /\ traces'[i].status = "done" /\ traces'[i].reply = m
        /\ \A i \in DOMAIN traces' : traces'[i].reply = m => i = k
    <3>1. \A i \in DOMAIN traces : traces[i].status = "done" => i # k
      BY <2>1
    <3>2. \A i \in DOMAIN traces : i # k => traces'[i].reply # m
      BY <1>4, <2>4
    <3>3. QED
      BY <1>3, <1>4, <2>2, <2>4, <2>6, <3>1, <3>2
  <2>9. QED
    <3>1. /\ replies' \in Nat /\ replies <= replies' /\ replies' = replies + 1
          /\ DOMAIN traces \subseteq DOMAIN traces'
      BY <1>1, <1>2, <2>4
    <3>2. \A i, j \in DOMAIN traces' :
            traces'[i].reply = replies + 1 /\ traces'[j].reply = replies + 1 => i = j
      BY <2>8
    <3>3. QED
      BY <2>4, <2>5, <2>7, <2>8, <3>1, <3>2 DEF TracesMove
<1>7. QED
  BY <1>5, <1>6

\* A late step goes to one trace, and only to its steps.
LEMMA StepReaches == ASSUME ActInv, NEW p \in appends, AppendsStep(p) PROVE TracesMove /\ StepsRemain
<1>1. ActShapes /\ TracesAreOwn /\ traces \in Seq(TraceRows) /\ replies \in Nat /\ MaxSummary \in Nat
      /\ DOMAIN traces = 1 .. Len(traces) /\ Len(traces) \in Nat
  <2>1. ActShapes /\ TracesAreOwn /\ MaxSummary \in Nat
    BY ActivityAssumption DEF ActInv
  <2>2. traces \in Seq(TraceRows) /\ replies \in Nat
    BY <2>1 DEF ActShapes
  <2>3. QED
    BY <2>1, <2>2
<1>2. p.step \in Actors \X Seqs /\ p.at \in Nat
  BY <1>1 DEF ActShapes
<1>3. PICK found : /\ traces' = [i \in DOMAIN traces |->
                         IF i \in found THEN [traces[i] EXCEPT !.steps = MergeSteps(@, p.step)] ELSE traces[i]]
                   /\ replies' = replies
  BY DEF AppendsStep
<1>4. \A i \in DOMAIN traces : traces[i] \in TraceRows /\ traces[i].reply \in Nat
                               /\ traces[i].status \in {"active", "done"}
                               /\ traces[i].steps \in Seq(Actors \X Seqs)
  BY <1>1, TraceFields
<1>5. \A i \in DOMAIN traces :
        /\ traces[i].reply <= replies /\ Len(traces[i].steps) <= MaxSummary
        /\ traces[i].status = "active" => traces[i].reply = 0
  BY <1>1, <1>4 DEF TracesAreOwn
<1>6. /\ DOMAIN traces' = DOMAIN traces /\ DOMAIN traces' = 1 .. Len(traces)
      /\ \A i \in DOMAIN traces :
           traces'[i] = IF i \in found THEN [traces[i] EXCEPT !.steps = MergeSteps(traces[i].steps, p.step)]
                        ELSE traces[i]
  BY <1>1, <1>3
<1>7. ASSUME NEW i \in DOMAIN traces
      PROVE  /\ traces'[i] \in TraceRows /\ traces'[i].status = traces[i].status
             /\ traces'[i].reply = traces[i].reply
             /\ Len(traces'[i].steps) <= MaxSummary
             /\ \A k \in DOMAIN traces[i].steps :
                  Len(traces[i].steps) < MaxSummary =>
                    \E n \in DOMAIN traces'[i].steps : traces'[i].steps[n] = traces[i].steps[k]
  <2>1. CASE i \in found
    <3>  DEFINE q == MergeSteps(traces[i].steps, p.step)
    <3>1. /\ q \in Seq(Actors \X Seqs) /\ Len(q) <= MaxSummary
          /\ Len(traces[i].steps) < MaxSummary =>
               \A k \in DOMAIN traces[i].steps : \E n \in DOMAIN q : q[n] = traces[i].steps[k]
      BY <1>2, <1>4, <1>5, StepsMerge
    <3>2. traces'[i] = [traces[i] EXCEPT !.steps = q]
      BY <1>6, <2>1
    <3>  HIDE DEF q
    <3>3. traces'[i] \in TraceRows /\ traces'[i].status = traces[i].status
          /\ traces'[i].reply = traces[i].reply /\ traces'[i].steps = q
      <4>1. traces[i] \in TraceRows /\ q \in Seq(Actors \X Seqs)
        BY <1>4, <3>1
      <4>2. QED
        BY <3>2, <4>1, TraceGrows
    <3>4. QED
      BY <3>1, <3>3
  <2>2. CASE i \notin found
    <3>1. traces'[i] = traces[i]
      BY <1>6, <2>2
    <3>2. QED
      BY <1>4, <1>5, <3>1
  <2>3. QED
    BY <2>1, <2>2
<1>8. traces' \in Seq(TraceRows) /\ Len(traces') = Len(traces)
  <2>1. traces' \in [1 .. Len(traces) -> TraceRows]
    BY <1>1, <1>3, <1>6, <1>7
  <2>2. QED
    BY <1>1, <2>1
<1>9. StepsRemain
  BY <1>7 DEF StepsRemain
<1>10. Len(traces) <= Len(traces') /\ replies <= replies' /\ replies' \in Nat
  BY <1>1, <1>3, <1>8
<1>11. \A i \in DOMAIN traces' : traces'[i].reply # replies + 1
  <2>1. \A i \in DOMAIN traces : traces[i].reply # replies + 1
    BY <1>1, <1>4, <1>5
  <2>2. QED
    BY <1>6, <1>7, <2>1
<1>12. \A i \in DOMAIN traces' :
         \/ traces'[i].status = "active" /\ traces'[i].reply = 0
         \/ i \in DOMAIN traces /\ traces'[i].status = "done" /\ traces[i].status = "done" /\ traces'[i].reply = traces[i].reply
  BY <1>4, <1>5, <1>6, <1>7
<1>13. QED
  BY <1>6, <1>7, <1>8, <1>9, <1>10, <1>11, <1>12 DEF TracesMove

-----------------------------------------------------------------------------
(* The invariant.                                                          *)

\* Of what a step of the model does to the traces, this is all.
LEMMA TracesGoOn == ASSUME ActInv, [ActNext]_actVars PROVE TracesMove /\ StepsRemain
<1>1. ActShapes /\ TracesAreOwn
  BY DEF ActInv
<1>2. CASE UNCHANGED <<traces, replies>>
  BY <1>1, <1>2, TracesAlone
<1>3. CASE Asks(Lead)
  BY <1>3, ActorsAreTwo, QuestionOpens
<1>4. CASE Replies(Lead)
  BY <1>4, ActorsAreTwo, ReplyCloses
<1>5. CASE \E p \in appends : AppendsStep(p)
  BY <1>5, StepReaches
<1>6. \/ UNCHANGED <<traces, replies>> \/ Asks(Lead) \/ Replies(Lead)
      \/ \E p \in appends : AppendsStep(p)
  BY DEF ActNext, actVars, StartsStep, EndsStep, Upsert, UpsertFails, AppendFails, ActRestart
<1>7. QED
  BY <1>2, <1>3, <1>4, <1>5, <1>6

\* A question, a reply and a late step leave the rings alone.
LEMMA OnlyTracesMove ==
  ASSUME ActInv, TracesMove,
         UNCHANGED <<steps, ring, stored, upserts, reserve>>,
         appends' \subseteq appends, activityClock' \in Nat
  PROVE  ActInv'
<1>1. TracesAreOwn'
  BY TracesStayOwn DEF ActInv
<1>2. ActShapes'
  BY DEF ActInv, ActShapes, TracesMove
<1>3. RowsAreSteps' /\ RingIsTrue'
  BY DEF ActInv, RowsAreSteps, RingIsTrue
<1>4. QED
  BY <1>1, <1>2, <1>3 DEF ActInv

\* A task has stored a step of the agent that began it.
LEMMA RowIsStored == ASSUME ActInv, NEW u \in upserts, Upsert(u) PROVE ActInv'
<1>1. ActShapes /\ RowsAreSteps
  BY DEF ActInv
<1>2. u.by \in Actors /\ u.rec.seq \in Seqs /\ u.rec.phase \in StepPhases
  BY <1>1 DEF ActShapes, RingRows
<1>3. /\ UNCHANGED <<steps, ring, appends, traces, replies, activityClock, reserve>>
      /\ upserts' \subseteq upserts
  BY DEF Upsert
<1>4. RowsAreSteps'
  <2>  DEFINE D == [s \in DOMAIN stored[u.by] \cup {u.rec.seq} |->
                      IF s = u.rec.seq THEN u.rec.phase ELSE stored[u.by][s]]
  <2>1. stored' = [stored EXCEPT ![u.by] = D]
    BY DEF Upsert
  <2>2. DOMAIN D \subseteq Seqs /\ \A s \in DOMAIN D : D[s] \in StepPhases
    BY <1>1, <1>2 DEF RowsAreSteps
  <2>3. \A b \in Actors : stored'[b] = D \/ stored'[b] = stored[b]
    <3>1. DOMAIN stored = Actors
      BY <1>1 DEF RowsAreSteps
    <3>2. QED
      BY <1>2, <2>1, <3>1
  <2>  HIDE DEF D
  <2>4. QED
    BY <1>1, <2>1, <2>2, <2>3 DEF RowsAreSteps
<1>5. ActShapes'
  BY <1>1, <1>3 DEF ActShapes
<1>6. RingIsTrue' /\ TracesAreOwn'
  BY <1>3 DEF ActInv, RingIsTrue, TracesAreOwn
<1>7. QED
  BY <1>4, <1>5, <1>6 DEF ActInv

\* A restart empties the rings, and the agents' steps are nobody's.
LEMMA RestartForgets == ASSUME ActInv, ActRestart PROVE ActInv'
<1>1. ActShapes
  BY DEF ActInv
<1>2. /\ ring' = [a \in Actors |-> <<>>] /\ upserts' = {} /\ appends' = {}
      /\ steps' = [a \in Actors |-> [s \in DOMAIN steps[a] |-> "gone"]]
      /\ reserve \in Nat /\ reserve > 0 /\ reserve' = reserve - 1
      /\ UNCHANGED <<stored, traces, replies, activityClock>>
  BY <1>1 DEF ActRestart, Mishap, ActShapes
<1>3. ASSUME NEW a \in Actors PROVE steps'[a] \in Seq(StepStates) /\ Len(steps'[a]) = Len(steps[a])
  <2>1. steps[a] \in Seq(StepStates) /\ Len(steps[a]) \in Nat /\ DOMAIN steps[a] = 1 .. Len(steps[a])
    BY <1>1 DEF ActShapes
  <2>2. steps'[a] = [s \in 1 .. Len(steps[a]) |-> "gone"]
    BY <1>2, <2>1
  <2>3. steps'[a] \in [1 .. Len(steps[a]) -> StepStates]
    BY <2>2 DEF StepStates
  <2>4. QED
    BY <2>1, <2>2, <2>3
<1>4. steps' \in [Actors -> Seq(StepStates)]
  BY <1>2, <1>3
<1>5. ring' \in [Actors -> Seq(RingRows)]
  BY <1>2
<1>6. ActShapes'
  BY <1>1, <1>2, <1>3, <1>4, <1>5, ActorsAreTwo DEF ActShapes
<1>7. RingIsTrue'
  BY <1>2, ActivityAssumption DEF RingIsTrue, IsOne, IsTrue
<1>8. RowsAreSteps' /\ TracesAreOwn'
  BY <1>2 DEF ActInv, RowsAreSteps, TracesAreOwn
<1>9. QED
  BY <1>6, <1>7, <1>8 DEF ActInv

LEMMA ActStarts == ActInit => ActInv
<1> SUFFICES ASSUME ActInit PROVE ActInv
  OBVIOUS
<1>1. /\ steps = [a \in Actors |-> <<>>] /\ ring = [a \in Actors |-> <<>>]
      /\ stored = [a \in Actors |-> [s \in {} |-> "ok"]]
      /\ upserts = {} /\ appends = {} /\ traces = <<>>
      /\ replies = 0 /\ activityClock = 0 /\ reserve = ActMishaps
  BY DEF ActInit
<1>2. ActShapes
  BY <1>1, ActorsAreTwo, ActivityAssumption DEF ActShapes
<1>3. RingIsTrue
  BY <1>1, ActivityAssumption DEF RingIsTrue, IsOne, IsTrue
<1>4. RowsAreSteps /\ TracesAreOwn
  BY <1>1 DEF RowsAreSteps, TracesAreOwn
<1>5. QED
  BY <1>2, <1>3, <1>4 DEF ActInv

LEMMA ActSteps == ASSUME ActInv, [ActNext]_actVars PROVE ActInv'
<1>1. ActShapes /\ RowsAreSteps /\ RingIsTrue /\ TracesAreOwn /\ TracesMove
  BY TracesGoOn DEF ActInv
<1>2. ASSUME NEW a \in Actors, StartsStep(a) PROVE ActInv'
  BY <1>2, StepsStart
<1>3. ASSUME NEW a \in Actors, NEW s \in Seqs, EndsStep(a, s) PROVE ActInv'
  BY <1>3, StepsEnd
<1>4. CASE Asks(Lead) \/ Replies(Lead)
  <2>1. activityClock \in Nat
    BY <1>1 DEF ActShapes
  <2>2. UNCHANGED <<steps, ring, stored, upserts, reserve>> /\ appends' \subseteq appends /\ activityClock' \in Nat
    BY <1>4, <2>1 DEF Asks, Replies
  <2>3. QED
    BY <1>1, <2>2, OnlyTracesMove
<1>5. ASSUME NEW u \in upserts, Upsert(u) PROVE ActInv'
  BY <1>5, RowIsStored
<1>6. ASSUME NEW u \in upserts, UpsertFails(u) PROVE ActInv'
  <2>1. /\ UNCHANGED <<steps, ring, stored, appends, traces, replies, activityClock>>
        /\ upserts' \subseteq upserts /\ reserve' \in Nat
    BY <1>1, <1>6 DEF UpsertFails, Mishap, ActShapes
  <2>2. ActShapes'
    BY <1>1, <2>1 DEF ActShapes
  <2>3. RowsAreSteps' /\ RingIsTrue' /\ TracesAreOwn'
    BY <1>1, <2>1 DEF RowsAreSteps, RingIsTrue, TracesAreOwn
  <2>4. QED
    BY <2>2, <2>3 DEF ActInv
<1>7. ASSUME NEW p \in appends, AppendsStep(p) PROVE ActInv'
  <2>1. activityClock \in Nat
    BY <1>1 DEF ActShapes
  <2>2. UNCHANGED <<steps, ring, stored, upserts, reserve>> /\ appends' \subseteq appends /\ activityClock' \in Nat
    BY <1>7, <2>1 DEF AppendsStep
  <2>3. QED
    BY <1>1, <2>2, OnlyTracesMove
<1>8. ASSUME NEW p \in appends, AppendFails(p) PROVE ActInv'
  <2>1. /\ UNCHANGED <<steps, ring, stored, upserts, traces, replies, activityClock>>
        /\ appends' \subseteq appends /\ reserve' \in Nat
    BY <1>1, <1>8 DEF AppendFails, Mishap, ActShapes
  <2>2. ActShapes'
    BY <1>1, <2>1 DEF ActShapes
  <2>3. RowsAreSteps' /\ RingIsTrue' /\ TracesAreOwn'
    BY <1>1, <2>1 DEF RowsAreSteps, RingIsTrue, TracesAreOwn
  <2>4. QED
    BY <2>2, <2>3 DEF ActInv
<1>9. CASE ActRestart
  BY <1>9, RestartForgets
<1>10. CASE UNCHANGED actVars
  BY <1>1, <1>10 DEF actVars, ActInv, ActShapes, RowsAreSteps, RingIsTrue, TracesAreOwn
<1>11. QED
  BY <1>2, <1>3, <1>4, <1>5, <1>6, <1>7, <1>8, <1>9, <1>10 DEF ActNext

\* What the page shows and the traces hold is sound at every moment
\* (swarm.rs, routes/rest.rs, store.rs).
THEOREM ActivityIsSound == ActSpec => []ActInv
<1>1. QED
  BY ActStarts, ActSteps, PTL DEF ActSpec

\* The page never shows a step as running that has ended while the ring holds it
\* (swarm.rs; routes/rest.rs, agent_activity).
THEOREM PageIsFresh == ActSpec => []ViewIsFresh
<1>1. ActInv => ViewIsFresh
  <2> SUFFICES ASSUME ActInv, NEW a \in Actors, NEW i \in DOMAIN ring[a]
               PROVE  AgentActivity(a)[ring[a][i].seq] = steps[a][ring[a][i].seq]
    BY DEF ViewIsFresh
  <2>  DEFINE r == ring[a]
              s == r[i].seq
              k == CHOOSE j \in InRing(r, s) : TRUE
  <2>1. IsTrue(r, steps[a])
    BY DEF ActInv, RingIsTrue
  <2>2. i \in InRing(r, s)
    BY DEF InRing
  <2>3. k \in DOMAIN r /\ r[k].seq = s
    BY <2>2 DEF InRing
  <2>4. AgentActivity(a)[s] = r[k].phase
    BY DEF AgentActivity
  <2>  HIDE DEF k
  <2>5. QED
    BY <2>1, <2>3, <2>4 DEF IsTrue
<1>2. QED
  BY <1>1, ActivityIsSound, PTL

\* A trace that was answered keeps its answer, and no reply answers two
\* (store.rs, complete_active_thought_trace).
THEOREM AnswersStand == ActSpec => AnsweredOnce
<1>1. ActInv /\ ActInv' /\ [ActNext]_actVars =>
        [\A i \in DOMAIN traces :
           /\ traces[i].status = "done" =>
                traces'[i].status = "done" /\ traces'[i].reply = traces[i].reply
           /\ traces'[i].reply # 0 =>
                \A j \in DOMAIN traces : traces'[j].reply = traces'[i].reply => i = j]_actVars
  <2> SUFFICES ASSUME ActInv, ActInv', [ActNext]_actVars, NEW i \in DOMAIN traces
               PROVE  /\ traces[i].status = "done" =>
                           traces'[i].status = "done" /\ traces'[i].reply = traces[i].reply
                      /\ traces'[i].reply # 0 =>
                           \A j \in DOMAIN traces : traces'[j].reply = traces'[i].reply => i = j
    OBVIOUS
  <2>1. TracesMove
    BY TracesGoOn
  <2>2. DOMAIN traces \subseteq DOMAIN traces' /\ TracesAreOwn'
    BY <2>1 DEF TracesMove, ActInv
  <2>3. QED
    BY <2>1, <2>2 DEF TracesMove, TracesAreOwn
<1>2. QED
  BY <1>1, ActivityIsSound, PTL DEF ActSpec, AnsweredOnce

\* A step that reached a trace stays in it as long as the trace is below its limit
\* (store.rs, append_thought_trace_event).
THEOREM StepsStay == ActSpec => StepsAreKept
<1>1. ActInv /\ [ActNext]_actVars =>
        [\A i \in DOMAIN traces : \A k \in DOMAIN traces[i].steps :
           Len(traces[i].steps) < MaxSummary =>
             \E n \in DOMAIN traces'[i].steps : traces'[i].steps[n] = traces[i].steps[k]]_actVars
  BY TracesGoOn DEF StepsRemain
<1>2. QED
  BY <1>1, ActivityIsSound, PTL DEF ActSpec, StepsAreKept

\* The page's ring, table and traces have their types (swarm.rs, store.rs).
THEOREM ActivityTypesHold == ActSpec => []ActTypeOK
<1>1. ActInv => ActTypeOK
  <2> SUFFICES ASSUME ActInv PROVE ActTypeOK
    OBVIOUS
  <2>1. ASSUME NEW a \in Actors
        PROVE  /\ Len(steps[a]) <= MaxSteps /\ Len(ring[a]) <= RingCap
               /\ \A i, j \in DOMAIN ring[a] : ring[a][i].seq = ring[a][j].seq => i = j
               /\ DOMAIN stored[a] \subseteq Seqs
               /\ \A s \in DOMAIN stored[a] : stored[a][s] \in StepPhases
    <3>1. Len(steps[a]) <= MaxSteps
      <4>1. /\ steps[Lead] \in Seq(StepStates) /\ steps[Worker] \in Seq(StepStates)
            /\ Len(steps[Lead]) + Len(steps[Worker]) <= MaxSteps
        BY ActorsAreTwo DEF ActInv, ActShapes
      <4>2. MaxSteps \in Nat
        BY ActivityAssumption
      <4>3. Len(steps[Lead]) \in Nat /\ Len(steps[Worker]) \in Nat
        BY <4>1
      <4>4. \A l, w, m \in Nat : l + w <= m => l <= m /\ w <= m
        OBVIOUS
      <4>5. Len(steps[Lead]) <= MaxSteps /\ Len(steps[Worker]) <= MaxSteps
        BY <4>1, <4>2, <4>3, <4>4
      <4>6. QED
        BY <4>5, ActorsAreTwo
    <3>2. Len(ring[a]) <= RingCap /\ \A i, j \in DOMAIN ring[a] : ring[a][i].seq = ring[a][j].seq => i = j
      BY DEF ActInv, RingIsTrue, IsOne
    <3>3. QED
      BY <3>1, <3>2 DEF ActInv, RowsAreSteps
  <2>2. QED
    BY <2>1 DEF ActInv, TracesAreOwn, ActTypeOK
<1>2. QED
  BY <1>1, ActivityIsSound, PTL
-----------------------------------------------------------------------------
(* Schedules: the calendar.                                                 *)

LEMMA DivMod ==
  ASSUME NEW x \in Int, NEW d \in Nat \ {0}
  PROVE  /\ x \div d \in Int /\ d * (x \div d) \in Int
         /\ d * (x \div d) <= x /\ x < d * (x \div d) + d
<1>1. x \div d \in Int /\ d * (x \div d) \in Int
  OBVIOUS
<1>2. d * (x \div d) <= x
  OBVIOUS
<1>3. x < d * (x \div d) + d
  OBVIOUS
<1>4. QED
  BY <1>1, <1>2, <1>3

LEMMA MulGrows ==
  ASSUME NEW d \in Nat \ {0}, NEW a \in Int, NEW b \in Int, a < b
  PROVE  d * a + d <= d * b
  OBVIOUS

\* The quotient is the only number whose multiple is within d below x.
LEMMA QuotientIs ==
  ASSUME NEW x \in Int, NEW q \in Int, NEW d \in Nat \ {0}, d * q <= x, x < d * q + d
  PROVE  x \div d = q
<1>1. d * q \in Int
  OBVIOUS
<1>2. CASE q < x \div d
  <2>1. d * q + d <= d * (x \div d)
    BY <1>2, DivMod, MulGrows
  <2>2. QED
    BY <1>1, <2>1, DivMod
<1>3. CASE x \div d < q
  <2>1. d * (x \div d) + d <= d * q
    BY <1>3, DivMod, MulGrows
  <2>2. QED
    BY <1>1, <2>1, DivMod
<1>4. QED
  BY <1>2, <1>3, DivMod

\* The calendar counts eras of 400 years that begin with a first of March: the era, the
\* day of the era, the year of the era, the day of the year and the month after March.
LastOfEra == 146096
EraDays == {d \in Nat : d <= LastOfEra}
EraYears == {y \in Nat : y <= 399}
YearDays == {d \in Nat : d <= 365}
EraOf(day) == (day + 719468) \div 146097
DayOfEra(day) == day + 719468 - EraOf(day) * 146097
YearOfEra(doe) == (doe - doe \div 1460 + doe \div 36524 - doe \div 146096) \div 365
YearStart(y) == 365 * y + y \div 4 - y \div 100 + y \div 400
MonthIndex(doy) == (5 * doy + 2) \div 153
MonthOf(doy) == IF MonthIndex(doy) < 10 THEN MonthIndex(doy) + 3 ELSE MonthIndex(doy) - 9
DomOf(doy) == doy - (153 * MonthIndex(doy) + 2) \div 5 + 1
DateOf(era, yoe, doy) ==
  [year |-> yoe + era * 400 + (IF MonthOf(doy) <= 2 THEN 1 ELSE 0), month |-> MonthOf(doy), dom |-> DomOf(doy)]

\* The arithmetic of an era, with every number written out.
LEMMA EraQuotient ==
  ASSUME NEW x \in Int, NEW q \in Int, q = x \div 146097
  PROVE  /\ 0 <= x - q * 146097 /\ x - q * 146097 <= 146096
         /\ x - q * 146097 # 146096 => (x + 1) \div 146097 = q
         /\ x - q * 146097 = 146096 => (x + 1) \div 146097 = q + 1
  <1>1. 0 <= x - q * 146097 /\ x - q * 146097 <= 146096
    BY SMTT(60)
  <1>2. ASSUME x - q * 146097 < 146096
        PROVE  (x + 1) \div 146097 = q
    BY <1>2, SMTT(60)
  <1>3. ASSUME x - q * 146097 = 146096
        PROVE  (x + 1) \div 146097 = q + 1
    BY <1>3, SMTT(60)
  <1>4. QED
    BY <1>1, <1>2, <1>3, SMTT(60)

LEMMA YearQuotient ==
  ASSUME NEW doe \in Int, 0 <= doe, doe <= 146096, NEW y \in Int,
         y = (doe - doe \div 1460 + doe \div 36524 - doe \div 146096) \div 365
  PROVE  /\ 0 <= y /\ y <= 399
         /\ 365 * y + y \div 4 - y \div 100 + y \div 400 <= doe
         /\ doe < 365 * (y + 1) + (y + 1) \div 4 - (y + 1) \div 100 + (y + 1) \div 400
  <1>1. 0 <= y /\ y <= 399
    BY SMTT(60)
  <1>2. 365 * y + y \div 4 - y \div 100 + y \div 400 <= doe
    BY SMTT(60)
  <1>3. doe < 365 * (y + 1) + (y + 1) \div 4 - (y + 1) \div 100 + (y + 1) \div 400
    BY SMTT(60)
  <1>4. QED
    BY <1>1, <1>2, <1>3, SMTT(60)

LEMMA YearQuotientStays ==
  ASSUME NEW doe \in Int, 0 <= doe, doe < 146096, NEW y \in Int,
         y = (doe - doe \div 1460 + doe \div 36524 - doe \div 146096) \div 365,
         doe + 1 < 365 * (y + 1) + (y + 1) \div 4 - (y + 1) \div 100 + (y + 1) \div 400
  PROVE  (doe + 1 - (doe + 1) \div 1460 + (doe + 1) \div 36524 - (doe + 1) \div 146096) \div 365 = y
  BY SMTT(60)

LEMMA YearQuotientMoves ==
  ASSUME NEW doe \in Int, 0 <= doe, doe < 146096, NEW y \in Int,
         y = (doe - doe \div 1460 + doe \div 36524 - doe \div 146096) \div 365,
         doe + 1 = 365 * (y + 1) + (y + 1) \div 4 - (y + 1) \div 100 + (y + 1) \div 400
  PROVE  (doe + 1 - (doe + 1) \div 1460 + (doe + 1) \div 36524 - (doe + 1) \div 146096) \div 365 = y + 1
  BY SMTT(60)

\* A day is a day of an era, and the next day is the next of it or the first of the next.
LEMMA EraSplits ==
  ASSUME NEW day \in Int
  PROVE  /\ EraOf(day) \in Int /\ DayOfEra(day) \in EraDays /\ DayOfEra(day) \in Nat
         /\ DayOfEra(day) # LastOfEra =>
              EraOf(day + 1) = EraOf(day) /\ DayOfEra(day + 1) = DayOfEra(day) + 1
         /\ DayOfEra(day) = LastOfEra => EraOf(day + 1) = EraOf(day) + 1 /\ DayOfEra(day + 1) = 0
  <1> DEFINE x == day + 719468
             q == x \div 146097
  <1>1. x \in Int /\ q \in Int /\ day + 1 + 719468 = x + 1
    BY SMTT(60)
  <1>2. EraOf(day) = q /\ DayOfEra(day) = x - q * 146097
    BY SMTT(60) DEF EraOf, DayOfEra
  <1>3. EraOf(day + 1) = (x + 1) \div 146097 /\ DayOfEra(day + 1) = x + 1 - EraOf(day + 1) * 146097
    BY <1>1, SMTT(60) DEF EraOf, DayOfEra
  <1> HIDE DEF x
  <1>4. /\ 0 <= x - q * 146097 /\ x - q * 146097 <= 146096
        /\ x - q * 146097 # 146096 => (x + 1) \div 146097 = q
        /\ x - q * 146097 = 146096 => (x + 1) \div 146097 = q + 1
    BY <1>1, EraQuotient, SMTT(60)
  <1> HIDE DEF q
  <1> DEFINE r == x - q * 146097
  <1>5. r \in Int /\ r = x - q * 146097
    BY <1>1, SMTT(60)
  <1>6. x + 1 - q * 146097 = r + 1
    BY <1>1, SMTT(60)
  <1> HIDE DEF r
  <1>7. 0 <= r /\ r <= 146096 /\ DayOfEra(day) = r
    BY <1>2, <1>4, <1>5, SMTT(60)
  <1>8. EraOf(day) \in Int /\ DayOfEra(day) \in EraDays /\ DayOfEra(day) \in Nat
    BY <1>1, <1>2, <1>5, <1>7, SMTT(60) DEF EraDays, LastOfEra
  <1>9. ASSUME DayOfEra(day) # LastOfEra
        PROVE  EraOf(day + 1) = EraOf(day) /\ DayOfEra(day + 1) = DayOfEra(day) + 1
    <2>1. r # 146096
      BY <1>9, <1>7, SMTT(60) DEF LastOfEra
    <2>2. EraOf(day + 1) = q
      BY <2>1, <1>3, <1>4, <1>5, SMTT(60)
    <2>3. QED
      BY <2>2, <1>2, <1>3, <1>6, <1>7, SMTT(60)
  <1>10. ASSUME DayOfEra(day) = LastOfEra
        PROVE  EraOf(day + 1) = EraOf(day) + 1 /\ DayOfEra(day + 1) = 0
    <2>1. r = 146096
      BY <1>10, <1>7, SMTT(60) DEF LastOfEra
    <2>2. EraOf(day + 1) = q + 1
      BY <2>1, <1>3, <1>4, <1>5, SMTT(60)
    <2>3. x + 1 - (q + 1) * 146097 = x + 1 - q * 146097 - 146097
      BY <1>1, SMTT(60)
    <2>4. QED
      BY <2>1, <2>2, <2>3, <1>1, <1>2, <1>3, <1>6, SMTT(60)
  <1>11. QED
    BY <1>8, <1>9, <1>10

\* The year of a day of an era is the one the day is in.
LEMMA YearHasDay ==
  ASSUME NEW doe \in EraDays
  PROVE  /\ YearOfEra(doe) \in EraYears
         /\ YearStart(YearOfEra(doe)) <= doe /\ doe < YearStart(YearOfEra(doe) + 1)
  <1> DEFINE y == (doe - doe \div 1460 + doe \div 36524 - doe \div 146096) \div 365
  <1>1. doe \in Int /\ 0 <= doe /\ doe <= 146096
    BY SMTT(60) DEF EraDays, LastOfEra
  <1>2. doe \in Int /\ 0 <= doe /\ doe <= 146096 /\ y \in Int
    BY <1>1, SMTT(60)
  <1>3. /\ 0 <= y /\ y <= 399
        /\ 365 * y + y \div 4 - y \div 100 + y \div 400 <= doe
        /\ doe < 365 * (y + 1) + (y + 1) \div 4 - (y + 1) \div 100 + (y + 1) \div 400
    BY <1>2, YearQuotient, SMTT(60)
  <1>4. YearOfEra(doe) = y
    BY SMTT(60) DEF YearOfEra
  <1> HIDE DEF y
  <1>5. QED
    BY <1>2, <1>3, <1>4, SMTT(60) DEF YearStart, EraYears

\* The next day is of the same year until the year has had its days.
LEMMA YearEnds ==
  ASSUME NEW doe \in EraDays, doe # LastOfEra
  PROVE  /\ doe + 1 < YearStart(YearOfEra(doe) + 1) => YearOfEra(doe + 1) = YearOfEra(doe)
         /\ doe + 1 = YearStart(YearOfEra(doe) + 1) => YearOfEra(doe + 1) = YearOfEra(doe) + 1
  <1> DEFINE y == (doe - doe \div 1460 + doe \div 36524 - doe \div 146096) \div 365
             z == (doe + 1 - (doe + 1) \div 1460 + (doe + 1) \div 36524 - (doe + 1) \div 146096) \div 365
  <1>1. doe \in Int /\ 0 <= doe /\ doe < 146096
    BY SMTT(60) DEF EraDays, LastOfEra
  <1>2. doe \in Int /\ 0 <= doe /\ doe < 146096 /\ y \in Int
    BY <1>1, SMTT(60)
  <1>3. YearOfEra(doe) = y
    BY SMTT(60) DEF YearOfEra
  <1>4. YearOfEra(doe + 1) = z
    BY <1>1, SMTT(60) DEF YearOfEra
  <1>5. YearOfEra(doe) = y /\ YearOfEra(doe + 1) = z
    BY <1>3, <1>4
  <1>6. YearStart(y + 1) = 365 * (y + 1) + (y + 1) \div 4 - (y + 1) \div 100 + (y + 1) \div 400
    BY SMTT(60) DEF YearStart
  <1>7. doe + 1 < YearStart(y + 1) => z = y
    BY <1>2, <1>6, YearQuotientStays, SMTT(60)
  <1>8. doe + 1 = YearStart(y + 1) => z = y + 1
    BY <1>2, <1>6, YearQuotientMoves, SMTT(60)
  <1>9. QED
    BY <1>5, <1>7, <1>8, SMTT(60)

\* A year that counts from March ends with the February of the next: it is as long as
\* that one's leap says.
LEMMA YearLength ==
  ASSUME NEW y \in EraYears, NEW era \in Int
  PROVE  /\ YearStart(y) \in Int /\ YearStart(y) = 365 * y + y \div 4 - y \div 100
         /\ YearStart(y + 1) = YearStart(y) + (IF Leap(y + era * 400 + 1) THEN 366 ELSE 365)
  <1>1. YearStart(y) \in Int /\ YearStart(y) = 365 * y + y \div 4 - y \div 100
    BY DEF YearStart, EraYears
  <1>2. (y + era * 400 + 1) % 4 = (y + 1) % 4 /\ (y + era * 400 + 1) % 100 = (y + 1) % 100
        /\ (y + era * 400 + 1) % 400 = (y + 1) % 400
    BY DEF EraYears
  <1>3. Leap(y + era * 400 + 1) <=> Leap(y + 1)
    BY <1>2 DEF Leap
  <1>4. YearStart(y + 1) = YearStart(y) + (IF Leap(y + 1) THEN 366 ELSE 365)
    BY SMTT(60) DEF YearStart, Leap, EraYears
  <1>5. QED
    BY <1>1, <1>3, <1>4

\* The months but February have the lengths of the calendar.
LEMMA MonthGoesOn ==
  ASSUME NEW d \in YearDays, d # 365, MonthOf(d) # 2
  PROVE  /\ MonthOf(d) \in 1 .. 12 /\ DomOf(d) \in Int
         /\ DomOf(d) < (IF MonthOf(d) \in {4, 6, 9, 11} THEN 30 ELSE 31)
              => MonthOf(d + 1) = MonthOf(d) /\ DomOf(d + 1) = DomOf(d) + 1
         /\ ~(DomOf(d) < (IF MonthOf(d) \in {4, 6, 9, 11} THEN 30 ELSE 31))
              => MonthOf(d + 1) = (IF MonthOf(d) = 12 THEN 1 ELSE MonthOf(d) + 1) /\ DomOf(d + 1) = 1
  BY SMTT(60) DEF MonthOf, DomOf, MonthIndex, YearDays

\* February takes what is left of the year.
LEMMA FebruaryGoesOn ==
  ASSUME NEW d \in YearDays, MonthOf(d) = 2
  PROVE  /\ DomOf(d) = d - 336
         /\ d < 365 => MonthOf(d + 1) = 2
  BY SMTT(60) DEF MonthOf, DomOf, MonthIndex, YearDays

LEMMA LastDays ==
  ASSUME NEW d \in {364, 365}
  PROVE  MonthOf(d) = 2
  BY SMTT(60) DEF MonthOf, DomOf, MonthIndex

LEMMA FirstDay == MonthOf(0) = 3 /\ DomOf(0) = 1
  BY DEF MonthOf, DomOf, MonthIndex

LEMMA SameMonth ==
  ASSUME NEW y, NEW m, NEW d, d < MonthLen(y, m)
  PROVE  Tomorrow([year |-> y, month |-> m, dom |-> d]) = [year |-> y, month |-> m, dom |-> d + 1]
  <1> DEFINE r == [year |-> y, month |-> m, dom |-> d]
  <1>1. r.year = y /\ r.month = m /\ r.dom = d
    OBVIOUS
  <1>2. [r EXCEPT !.dom = r.dom + 1] = [year |-> y, month |-> m, dom |-> d + 1]
    OBVIOUS
  <1> HIDE DEF r
  <1>3. Tomorrow(r) = [r EXCEPT !.dom = r.dom + 1]
    BY <1>1, Zenon DEF Tomorrow
  <1>4. QED
    BY <1>2, <1>3 DEF r

LEMMA NextMonth ==
  ASSUME NEW y, NEW m, NEW d, ~(d < MonthLen(y, m)), m < 12
  PROVE  Tomorrow([year |-> y, month |-> m, dom |-> d]) = [year |-> y, month |-> m + 1, dom |-> 1]
  <1> DEFINE r == [year |-> y, month |-> m, dom |-> d]
  <1>1. r.year = y /\ r.month = m /\ r.dom = d
    OBVIOUS
  <1> DEFINE k == m + 1
  <1>2. [r EXCEPT !.month = k] = [year |-> y, month |-> k, dom |-> d]
    OBVIOUS
  <1>3. [[year |-> y, month |-> k, dom |-> d] EXCEPT !.dom = 1] = [year |-> y, month |-> k, dom |-> 1]
    OBVIOUS
  <1> HIDE DEF r
  <1>4. Tomorrow(r) = [r EXCEPT !.month = r.month + 1, !.dom = 1]
    BY <1>1, Zenon DEF Tomorrow
  <1>5. [r EXCEPT !.month = r.month + 1, !.dom = 1] = [[r EXCEPT !.month = k] EXCEPT !.dom = 1]
    BY <1>1, Zenon
  <1>6. QED
    BY <1>2, <1>3, <1>4, <1>5 DEF r

LEMMA NextYear ==
  ASSUME NEW y, NEW m, NEW d, ~(d < MonthLen(y, m)), ~(m < 12)
  PROVE  Tomorrow([year |-> y, month |-> m, dom |-> d]) = [year |-> y + 1, month |-> 1, dom |-> 1]
  <1> DEFINE r == [year |-> y, month |-> m, dom |-> d]
  <1>1. r.year = y /\ r.month = m /\ r.dom = d
    OBVIOUS
  <1> HIDE DEF r
  <1>2. Tomorrow(r) = [year |-> r.year + 1, month |-> 1, dom |-> 1]
    BY <1>1, Zenon DEF Tomorrow
  <1>3. QED
    BY <1>1, <1>2 DEF r

\* A day of a year that counts from March, and the day after.
LEMMA DateOfTomorrow ==
  ASSUME NEW era \in Int, NEW yoe \in EraYears, NEW d \in YearDays,
         d < 364 + (IF Leap(yoe + era * 400 + 1) THEN 1 ELSE 0)
  PROVE  DateOf(era, yoe, d + 1) = Tomorrow(DateOf(era, yoe, d))
  <1> DEFINE year == yoe + era * 400
             leap == Leap(year + 1)
             m == MonthOf(d)
             dom == DomOf(d)
             here == year + (IF m <= 2 THEN 1 ELSE 0)
  <1>1. year \in Int /\ here \in Int
    BY DEF EraYears
  <1>2. d \in YearDays /\ d \in Nat /\ d < 365
    BY DEF YearDays
  <1>3. DateOf(era, yoe, d) = [year |-> here, month |-> m, dom |-> dom]
    BY DEF DateOf
  <1>4. CASE m = 2
    <2>1. dom = d - 336 /\ MonthOf(d + 1) = 2 /\ DomOf(d + 1) = d + 1 - 336
      <3>1. d + 1 \in YearDays
        BY <1>2 DEF YearDays
      <3>2. QED
        BY <1>2, <1>4, <3>1, FebruaryGoesOn
    <2>2. MonthLen(here, m) = IF leap THEN 29 ELSE 28
      BY <1>4 DEF MonthLen
    <2>3. dom < MonthLen(here, m)
      <3>1. dom \in Int /\ dom = d - 336 /\ d < 364 + (IF leap THEN 1 ELSE 0)
        BY <1>2, <2>1
      <3>2. CASE leap
        BY <1>2, <2>2, <3>1, <3>2
      <3>3. CASE ~leap
        BY <1>2, <2>2, <3>1, <3>3
      <3>4. QED
        BY <3>2, <3>3
    <2>4. here = year + 1
      BY <1>4
    <2>5. m <= 2
      BY <1>4
    <2>6. DateOf(era, yoe, d + 1) = [year |-> year + 1, month |-> 2, dom |-> dom + 1]
      <3>1. DomOf(d + 1) = dom + 1
        BY <1>2, <2>1
      <3>2. year + 1 = yoe + era * 400 + 1
        OBVIOUS
      <3>3. QED
        BY <2>1, <3>1, <3>2 DEF DateOf
    <2>7. Tomorrow(DateOf(era, yoe, d)) = [year |-> here, month |-> m, dom |-> dom + 1]
      <3> HIDE DEF m, here, dom
      <3>1. QED
        BY <1>3, <2>3, SameMonth, Zenon
    <2>8. QED
      BY <1>4, <2>6, <2>7
  <1>5. CASE m # 2
    <2> DEFINE len == IF m \in {4, 6, 9, 11} THEN 30 ELSE 31
    <2>1. MonthLen(here, m) = len
      BY <1>5 DEF MonthLen
    <2>2. /\ m \in 1 .. 12 /\ dom \in Int
          /\ dom < len => MonthOf(d + 1) = m /\ DomOf(d + 1) = dom + 1
          /\ ~(dom < len) => MonthOf(d + 1) = (IF m = 12 THEN 1 ELSE m + 1) /\ DomOf(d + 1) = 1
      BY <1>2, <1>5, MonthGoesOn
    <2>3. len = (IF m \in {4, 6, 9, 11} THEN 30 ELSE 31)
      OBVIOUS
    <2> HIDE DEF m, dom, here, len
    <2>4. CASE dom < len
      <3>1. DateOf(era, yoe, d + 1) = [year |-> here, month |-> m, dom |-> dom + 1]
        BY <2>2, <2>4 DEF DateOf, here
      <3>2. Tomorrow(DateOf(era, yoe, d)) = [year |-> here, month |-> m, dom |-> dom + 1]
        BY <1>3, <2>1, <2>4, SameMonth, Zenon
      <3>3. QED
        BY <3>1, <3>2
    <2>5. CASE ~(dom < len) /\ m = 12
      <3>1. DateOf(era, yoe, d + 1) = [year |-> year + 1, month |-> 1, dom |-> 1]
        BY <2>2, <2>5 DEF DateOf
      <3>2. Tomorrow(DateOf(era, yoe, d)) = [year |-> here + 1, month |-> 1, dom |-> 1]
        <4>1. ~(m < 12)
          BY <2>5
        <4>2. ~(dom < MonthLen(here, m))
          BY <2>1, <2>5, Zenon
        <4>3. QED
          BY <1>3, <4>1, <4>2, NextYear, Zenon
      <3>3. QED
        <4>1. here = year + 1 - 1 /\ here + 1 = year + 1
          BY <1>1, <2>5 DEF here
        <4>2. QED
          BY <3>1, <3>2, <4>1
    <2>6. CASE ~(dom < len) /\ m # 12
      <3>1. m < 12 /\ (m + 1 # 2 \/ m = 1)
        BY <2>2, <2>6
      <3>2. DateOf(era, yoe, d + 1) = [year |-> year + (IF m + 1 <= 2 THEN 1 ELSE 0), month |-> m + 1, dom |-> 1]
        BY <2>2, <2>6 DEF DateOf
      <3>3. m < 12
        BY <2>2, <2>6
      <3>4. Tomorrow(DateOf(era, yoe, d)) = [year |-> here, month |-> m + 1, dom |-> 1]
        <4>1. ~(dom < MonthLen(here, m))
          BY <2>1, <2>6, Zenon
        <4>2. QED
          BY <1>3, <3>3, <4>1, NextMonth, Zenon
      <3>5. (IF m + 1 <= 2 THEN 1 ELSE 0) = (IF m <= 2 THEN 1 ELSE 0)
        BY <1>5, <2>2
      <3>6. QED
        BY <3>2, <3>4, <3>5 DEF here
    <2>7. QED
      BY <2>4, <2>5, <2>6
  <1>6. QED
    BY <1>4, <1>5

\* The last day of February, and the first of March.
LEMMA DateOfNewYear ==
  ASSUME NEW era \in Int, NEW yoe \in EraYears, NEW d \in YearDays, NEW e \in Int, NEW y \in Int,
         d = 364 + (IF Leap(yoe + era * 400 + 1) THEN 1 ELSE 0), y + e * 400 = yoe + era * 400 + 1
  PROVE  DateOf(e, y, 0) = Tomorrow(DateOf(era, yoe, d))
  <1> DEFINE year == yoe + era * 400
             leap == Leap(year + 1)
  <1>1. MonthOf(d) = 2 /\ year \in Int
    <2>1. d \in {364, 365}
      OBVIOUS
    <2>2. QED
      BY <2>1, LastDays DEF EraYears
  <1>2. DomOf(d) = IF leap THEN 29 ELSE 28
    BY <1>1, FebruaryGoesOn
  <1>3. DateOf(era, yoe, d) = [year |-> year + 1, month |-> 2, dom |-> IF leap THEN 29 ELSE 28]
    BY <1>1, <1>2 DEF DateOf
  <1>4. MonthLen(year + 1, 2) = IF leap THEN 29 ELSE 28
    BY DEF MonthLen
  <1> DEFINE dom == IF leap THEN 29 ELSE 28
  <1>5. ~(dom < dom)
    OBVIOUS
  <1> HIDE DEF dom
  <1>6. Tomorrow(DateOf(era, yoe, d)) = [year |-> year + 1, month |-> 3, dom |-> 1]
    <2>1. DateOf(era, yoe, d) = [year |-> year + 1, month |-> 2, dom |-> dom] /\ MonthLen(year + 1, 2) = dom
      BY <1>3, <1>4 DEF dom
    <2>2. QED
      <3>1. ~(dom < MonthLen(year + 1, 2)) /\ 2 < 12
        BY <2>1, <1>5
      <3>2. Tomorrow([year |-> year + 1, month |-> 2, dom |-> dom]) = [year |-> year + 1, month |-> 2 + 1, dom |-> 1]
        BY <3>1, NextMonth
      <3>3. QED
        BY <2>1, <3>2
  <1>7. DateOf(e, y, 0) = [year |-> year + 1, month |-> 3, dom |-> 1]
    BY FirstDay DEF DateOf
  <1>8. QED
    BY <1>6, <1>7

\* civil_from_days, in those terms.
LEMMA CivilIs ==
  ASSUME NEW day \in Int
  PROVE  Civil(day) = DateOf(EraOf(day), YearOfEra(DayOfEra(day)),
                             DayOfEra(day) - YearStart(YearOfEra(DayOfEra(day))))
  <1> DEFINE y == YearOfEra(DayOfEra(day))
  <1>1. y \in EraYears
    BY EraSplits, YearHasDay
  <1>2. YearStart(y) = 365 * y + y \div 4 - y \div 100
    BY <1>1, YearLength
  <1>3. Civil(day) = DateOf(EraOf(day), y, DayOfEra(day) - (365 * y + y \div 4 - y \div 100))
    BY SMTT(60) DEF Civil, DateOf, EraOf, DayOfEra, YearOfEra, MonthOf, DomOf, MonthIndex
  <1>4. QED
    BY <1>2, <1>3

\* Every day but the first is the day after the one before.
LEMMA CivilTomorrow ==
  ASSUME NEW day \in Int
  PROVE  Civil(day + 1) = Tomorrow(Civil(day))
  <1> DEFINE era == EraOf(day)
             doe == DayOfEra(day)
             y == YearOfEra(doe)
             d == doe - YearStart(y)
  <1>1. era \in Int /\ doe \in EraDays /\ doe \in Nat
    BY EraSplits
  <1>2. y \in EraYears /\ y \in Nat /\ YearStart(y) <= doe /\ doe < YearStart(y + 1)
    BY <1>1, YearHasDay DEF EraYears
  <1>3. YearStart(y) \in Int /\ YearStart(y + 1) = YearStart(y) + (IF Leap(y + era * 400 + 1) THEN 366 ELSE 365)
    BY <1>1, <1>2, YearLength
  <1>4. d \in YearDays /\ d <= 364 + (IF Leap(y + era * 400 + 1) THEN 1 ELSE 0)
    BY <1>1, <1>2, <1>3 DEF YearDays
  <1>5. Civil(day) = DateOf(era, y, d)
    BY CivilIs
  <1>6. Civil(day + 1) = DateOf(EraOf(day + 1), YearOfEra(DayOfEra(day + 1)),
                                DayOfEra(day + 1) - YearStart(YearOfEra(DayOfEra(day + 1))))
    <2>1. day + 1 \in Int
      OBVIOUS
    <2>2. QED
      BY <2>1, CivilIs
  <1>7. DayOfEra(day) = doe /\ EraOf(day) = era
    OBVIOUS
  <1>8. d = doe - YearStart(y) /\ YearOfEra(doe) = y
    OBVIOUS
  <1>9. doe + 1 \in Int /\ d \in Int
    BY <1>1, <1>3
  <1> HIDE DEF era, doe, y, d
  <1>10. CASE doe # LastOfEra
    <2>1. EraOf(day + 1) = era /\ DayOfEra(day + 1) = doe + 1
      BY <1>10, <1>7, EraSplits
    <2>2. Civil(day + 1) = DateOf(era, YearOfEra(doe + 1), (doe + 1) - YearStart(YearOfEra(doe + 1)))
      BY <1>6, <2>1, Zenon
    <2>3. CASE doe + 1 < YearStart(y + 1)
      <3>1. YearOfEra(doe + 1) = y
        BY <1>1, <1>10, <2>3, YearEnds, <1>8
      <3>2. (doe + 1) - YearStart(y) = d + 1
        BY <1>1, <1>3, <1>8
      <3>3. d < 364 + (IF Leap(y + era * 400 + 1) THEN 1 ELSE 0)
        BY <1>1, <1>3, <1>8, <2>3
      <3>4. QED
        <4>1. DateOf(era, y, d + 1) = Tomorrow(DateOf(era, y, d))
          BY <1>1, <1>2, <1>4, <3>3, DateOfTomorrow
        <4>2. QED
          BY <1>5, <2>2, <3>1, <3>2, <4>1
    <2>4. CASE doe + 1 = YearStart(y + 1)
      <3>1. YearOfEra(doe + 1) = y + 1
        BY <1>1, <1>10, <2>4, YearEnds, <1>8
      <3>2. (doe + 1) - YearStart(y + 1) = 0
        BY <1>1, <2>4
      <3>3. d = 364 + (IF Leap(y + era * 400 + 1) THEN 1 ELSE 0)
        BY <1>1, <1>3, <1>8, <2>4
      <3>4. y + 1 \in Int /\ y + 1 + era * 400 = y + era * 400 + 1
        BY <1>1, <1>2
      <3>5. QED
        <4>1. DateOf(era, y + 1, 0) = Tomorrow(DateOf(era, y, d))
          BY <1>1, <1>2, <1>4, <3>3, <3>4, DateOfNewYear
        <4>2. QED
          BY <1>5, <2>2, <3>1, <3>2, <4>1
    <2>5. YearStart(y + 1) \in Int
      BY <1>3
    <2>6. QED
      BY <1>1, <1>2, <2>3, <2>4, <2>5
  <1>11. CASE doe = LastOfEra
    <2>1. EraOf(day + 1) = era + 1 /\ DayOfEra(day + 1) = 0
      BY <1>11, <1>7, EraSplits
    <2>2. y = 399 /\ d = 365 /\ YearOfEra(0) = 0 /\ YearStart(0) = 0
      BY <1>11, <1>8, SMTT(60) DEF YearOfEra, YearStart, LastOfEra
    <2>3. Civil(day + 1) = DateOf(era + 1, 0, 0)
      BY <1>6, <2>1, <2>2
    <2>4. d = 364 + (IF Leap(y + era * 400 + 1) THEN 1 ELSE 0)
      BY <1>4, <2>2
    <2>5. era + 1 \in Int /\ 0 + (era + 1) * 400 = y + era * 400 + 1
      BY <1>1, <2>2
    <2>6. QED
      <3>1. DateOf(era + 1, 0, 0) = Tomorrow(DateOf(era, y, d))
        BY <1>1, <1>2, <1>4, <2>4, <2>5, DateOfNewYear
      <3>2. QED
        BY <1>5, <2>3, <3>1
  <1>12. QED
    BY <1>1, <1>10, <1>11

LEMMA CivilBegins == Civil(0) = [year |-> 1970, month |-> 1, dom |-> 1]
  BY SMTT(60) DEF Civil

-----------------------------------------------------------------------------
(* Schedules: the next run.                                                 *)

\* The clock: a day has minutes.
LEMMA DayHasMinutes == DayLen \in Nat \ {0} /\ Window * DayLen \in Nat
<1>1. HourLen \in Nat \ {0} /\ Hours \in Nat \ {0} /\ Window \in Nat \ {0}
  BY ScheduleAssumption
<1>2. \A x, y \in Nat \ {0} : x * y \in Nat \ {0}
  OBVIOUS
<1>3. DayLen \in Nat \ {0}
  BY <1>1, <1>2 DEF DayLen
<1>4. QED
  BY <1>1, <1>2, <1>3

\* The next local midnight after a minute.
Midnight(t, east) == ((t + east) \div DayLen + 1) * DayLen - east

LEMMA MidnightIsNext ==
  ASSUME NEW t \in Int, NEW east \in Int
  PROVE  /\ Midnight(t, east) \in Int /\ t < Midnight(t, east) /\ Midnight(t, east) <= t + DayLen
         /\ \A u \in Int : t <= u /\ u < Midnight(t, east) => (u + east) \div DayLen = (t + east) \div DayLen
<1> DEFINE d == DayLen
           q == (t + east) \div d
           p == d * q
<1>1. d \in Nat \ {0}
  BY DayHasMinutes
<1>2. t + east \in Int
  OBVIOUS
<1>3. q \in Int /\ p \in Int /\ p <= t + east /\ t + east < p + d
  BY <1>1, <1>2, DivMod
<1>4. Midnight(t, east) = p + d - east
  <2>1. Midnight(t, east) = (q + 1) * d - east
    BY DEF Midnight
  <2>2. (q + 1) * d = p + d
    BY <1>1, <1>3
  <2>3. QED
    BY <1>1, <1>3, <2>1, <2>2
<1> DEFINE P(u) == (u + east) \div d = q
<1>5. ASSUME NEW u \in Int, t <= u, u < p + d - east
      PROVE  P(u)
  <2>1. u + east \in Int /\ p <= u + east /\ u + east < p + d
    BY <1>1, <1>3, <1>5
  <2> DEFINE v == u + east
  <2> HIDE DEF v
  <2>2. v \in Int /\ d * q <= v /\ v < d * q + d
    BY <2>1 DEF v
  <2> HIDE DEF q, d
  <2>3. v \div d = q
    BY <1>1, <1>3, <2>2, QuotientIs
  <2>4. QED
    BY <2>3 DEF v
<1> HIDE DEF p, P
<1>6. \A u \in Int : t <= u /\ u < Midnight(t, east) => P(u)
  BY <1>4, <1>5
<1>7. Midnight(t, east) \in Int /\ t < Midnight(t, east) /\ Midnight(t, east) <= t + d
  BY <1>1, <1>3, <1>4
<1>8. QED
  BY <1>6, <1>7 DEF P

\* Two minutes of a day have the same date.
LEMMA DayHasOneDate ==
  ASSUME NEW e, NEW t, NEW u, t \div DayLen = u \div DayLen
  PROVE  DateMatches(e, Fields(t)) <=> DateMatches(e, Fields(u))
<1>1. Fields(t).dom = Fields(u).dom /\ Fields(t).month = Fields(u).month /\ Fields(t).dow = Fields(u).dow
  BY DEF Fields
<1>2. QED
  BY <1>1 DEF DateMatches

\* Some whole number of a set of them that is bounded from below is the least.
LEMMA LeastWhole ==
  ASSUME NEW T \in SUBSET Int, NEW b \in Int, \A x \in T : b <= x, T # {}
  PROVE  \E x \in T : \A y \in T : x <= y
<1> DEFINE N == {n \in Nat : b + n \in T}
<1>1. PICK x \in T : TRUE
  OBVIOUS
<1>2. x - b \in Nat /\ b + (x - b) = x
  OBVIOUS
<1>3. N \in SUBSET Nat /\ N # {}
  BY <1>1, <1>2
<1>4. PICK n \in N : \A m \in N : ~(m < n)
  BY <1>3, LeastNumber
<1>5. ASSUME NEW y \in T PROVE b + n <= y
  <2>1. y - b \in Nat /\ b + (y - b) = y
    BY <1>5
  <2>2. y - b \in N
    BY <2>1
  <2>3. n \in Nat /\ ~(y - b < n)
    BY <1>4, <2>2
  <2>4. QED
    BY <2>1, <2>3
<1>6. QED
  BY <1>4, <1>5

\* What next_after computes, without its recursion: the first of the minutes it looks
\* at that the scheduler fires in.
SearchSpan(from) == from + 1 .. from + 1 + Window * DayLen
FiresAt(e, east, t) == Matches(e, Fields(t + east))
HitsFrom(e, from, east, t) == {u \in SearchSpan(from) : t <= u /\ FiresAt(e, east, u)}
FirstHit(e, from, east, t) ==
  IF HitsFrom(e, from, east, t) = {} THEN NoRun
  ELSE CHOOSE u \in HitsFrom(e, from, east, t) : \A v \in HitsFrom(e, from, east, t) : u <= v

\* The equation next_after's walk solves, for a function h on the minutes it can reach.
Reach(from) == from + 1 .. from + 1 + Window * DayLen + DayLen
WalkFrom(e, from, east, h, t) ==
  IF t > from + 1 + Window * DayLen THEN NoRun
  ELSE IF ~DateMatches(e, Fields(t + east)) THEN h[Midnight(t, east)]
  ELSE IF TimeMatches(e, Fields(t + east)) THEN t
  ELSE h[t + 1]
Walks(e, from, east, h) == h = [t \in Reach(from) |-> WalkFrom(e, from, east, h, t)]

LEMMA NextAfterIs ==
  ASSUME NEW e, NEW from, NEW east, IsValid(e)
  PROVE  NextAfter(e, from, east) = (CHOOSE h : Walks(e, from, east, h))[from + 1]
  BY Zenon DEF NextAfter, Walks, WalkFrom, Reach, Midnight

LEMMA StepsOfWalk ==
  ASSUME NEW from \in Int, NEW east \in Int, NEW t \in Reach(from), ~(t > from + 1 + Window * DayLen)
  PROVE  /\ t \in Int /\ t \in SearchSpan(from) /\ t + 1 \in Reach(from) /\ t < t + 1
         /\ Midnight(t, east) \in Reach(from) /\ t < Midnight(t, east)
<1> DEFINE w == Window * DayLen
           d == DayLen
           m == Midnight(t, east)
<1>1. d \in Nat \ {0} /\ w \in Nat
  BY DayHasMinutes
<1>2. t \in from + 1 .. from + 1 + w + d /\ ~(t > from + 1 + w)
  BY DEF Reach
<1>3. t \in Int
  BY <1>2
<1>4. m \in Int /\ t < m /\ m <= t + d
  BY <1>3, MidnightIsNext
<1>5. Reach(from) = from + 1 .. from + 1 + w + d /\ SearchSpan(from) = from + 1 .. from + 1 + w
  BY DEF Reach, SearchSpan
<1> HIDE DEF w, d, m
<1>6. t \in from + 1 .. from + 1 + w /\ t + 1 \in from + 1 .. from + 1 + w + d /\ t < t + 1
  BY <1>1, <1>2, <1>3
<1>7. m \in from + 1 .. from + 1 + w + d
  BY <1>1, <1>2, <1>3, <1>4
<1>8. QED
  BY <1>3, <1>4, <1>5, <1>6, <1>7 DEF m

\* Leaving a day that does not match loses no minute that fires.
LEMMA HitsAfterMidnight ==
  ASSUME NEW e, NEW from \in Int, NEW east \in Int, NEW t \in SearchSpan(from),
         ~DateMatches(e, Fields(t + east))
  PROVE  HitsFrom(e, from, east, t) = HitsFrom(e, from, east, Midnight(t, east))
<1> DEFINE m == Midnight(t, east)
<1>1. t \in Int /\ \A u \in SearchSpan(from) : u \in Int
  BY DayHasMinutes DEF SearchSpan
<1>2. /\ m \in Int /\ t < m
      /\ \A u \in Int : t <= u /\ u < m => (u + east) \div DayLen = (t + east) \div DayLen
  BY <1>1, MidnightIsNext
<1> HIDE DEF m
<1>3. ASSUME NEW u \in SearchSpan(from), t <= u, FiresAt(e, east, u)
      PROVE  m <= u
  <2>1. u \in Int
    BY <1>1
  <2>2. CASE u < m
    <3>1. (u + east) \div DayLen = (t + east) \div DayLen
      BY <1>2, <1>3, <2>1, <2>2
    <3>2. DateMatches(e, Fields(u + east)) <=> DateMatches(e, Fields(t + east))
      BY <3>1, DayHasOneDate
    <3>3. DateMatches(e, Fields(u + east))
      BY <1>3 DEF FiresAt, Matches
    <3>4. QED
      BY <3>2, <3>3
  <2>3. QED
    BY <1>2, <2>1, <2>2
<1>4. ASSUME NEW u \in SearchSpan(from), m <= u
      PROVE  t <= u
  BY <1>1, <1>2, <1>4
<1>5. \A u \in SearchSpan(from) : (t <= u /\ FiresAt(e, east, u)) <=> (m <= u /\ FiresAt(e, east, u))
  BY <1>3, <1>4
<1>6. QED
  BY <1>5 DEF HitsFrom, m

\* Nor does passing a minute that does not fire.
LEMMA HitsAfterMinute ==
  ASSUME NEW e, NEW from \in Int, NEW east \in Int, NEW t \in SearchSpan(from), ~FiresAt(e, east, t)
  PROVE  HitsFrom(e, from, east, t) = HitsFrom(e, from, east, t + 1)
<1>1. t \in Int /\ \A u \in SearchSpan(from) : u \in Int
  BY DayHasMinutes DEF SearchSpan
<1>2. ASSUME NEW u \in SearchSpan(from)
      PROVE  (t <= u /\ FiresAt(e, east, u)) <=> (t + 1 <= u /\ FiresAt(e, east, u))
  <2>1. CASE u = t
    BY <1>1, <2>1
  <2>2. CASE u # t
    <3>1. u \in Int /\ t \in Int
      BY <1>1
    <3>2. t <= u <=> t + 1 <= u
      BY <2>2, <3>1
    <3>3. QED
      BY <3>2
  <2>3. QED
    BY <2>1, <2>2
<1>3. QED
  BY <1>2 DEF HitsFrom

LEMMA HitIsFirst ==
  ASSUME NEW e, NEW from \in Int, NEW east \in Int, NEW t \in SearchSpan(from), FiresAt(e, east, t)
  PROVE  FirstHit(e, from, east, t) = t
<1> DEFINE H == HitsFrom(e, from, east, t)
<1>1. t \in Int /\ \A u \in SearchSpan(from) : u \in Int
  BY DayHasMinutes DEF SearchSpan
<1>2. t \in H /\ \A v \in H : t <= v
  BY <1>1 DEF HitsFrom
<1>3. \A u \in H : u \in Int
  BY <1>1 DEF HitsFrom
<1> HIDE DEF H
<1>4. ASSUME NEW u \in H, \A v \in H : u <= v
      PROVE  u = t
  <2>1. u <= t /\ t <= u /\ u \in Int
    BY <1>2, <1>3, <1>4
  <2>2. QED
    BY <1>1, <2>1
<1>5. (CHOOSE u \in H : \A v \in H : u <= v) = t
  BY <1>2, <1>4
<1>6. QED
  BY <1>2, <1>5 DEF FirstHit, H

LEMMA FirstHitWalks ==
  ASSUME NEW e, NEW from \in Int, NEW east \in Int
  PROVE  Walks(e, from, east, [t \in Reach(from) |-> FirstHit(e, from, east, t)])
<1> DEFINE g == [t \in Reach(from) |-> FirstHit(e, from, east, t)]
           F(t) == FirstHit(e, from, east, t)
<1>1. \A t \in Reach(from) : g[t] = F(t)
  OBVIOUS
<1>2. ASSUME NEW t \in Reach(from)
      PROVE  F(t) = WalkFrom(e, from, east, g, t)
  <2>1. CASE t > from + 1 + Window * DayLen
    <3> DEFINE w == Window * DayLen
    <3>1. w \in Nat /\ \A u \in SearchSpan(from) : u \in from + 1 .. from + 1 + w
      BY DayHasMinutes DEF SearchSpan
    <3>2. t \in Int
      BY DayHasMinutes DEF Reach
    <3>3. t > from + 1 + w
      BY <2>1
    <3> HIDE DEF w
    <3>4. \A u \in SearchSpan(from) : ~(t <= u)
      BY <3>1, <3>2, <3>3
    <3>5. HitsFrom(e, from, east, t) = {}
      BY <3>4 DEF HitsFrom
    <3>6. QED
      BY <2>1, <3>5 DEF FirstHit, WalkFrom
  <2>2. CASE ~(t > from + 1 + Window * DayLen)
    <3>1. /\ t \in SearchSpan(from) /\ t + 1 \in Reach(from) /\ Midnight(t, east) \in Reach(from)
      BY <2>2, StepsOfWalk
    <3>2. g[t + 1] = F(t + 1) /\ g[Midnight(t, east)] = F(Midnight(t, east))
      BY <1>1, <3>1
    <3> HIDE DEF g
    <3>3. CASE ~DateMatches(e, Fields(t + east))
      <4>1. HitsFrom(e, from, east, t) = HitsFrom(e, from, east, Midnight(t, east))
        BY <3>1, <3>3, HitsAfterMidnight
      <4>2. F(t) = F(Midnight(t, east))
        BY <4>1 DEF FirstHit
      <4>3. WalkFrom(e, from, east, g, t) = g[Midnight(t, east)]
        BY <2>2, <3>3 DEF WalkFrom
      <4>4. QED
        BY <3>2, <4>2, <4>3
    <3>4. CASE DateMatches(e, Fields(t + east)) /\ TimeMatches(e, Fields(t + east))
      <4>1. FiresAt(e, east, t)
        BY <3>4 DEF FiresAt, Matches
      <4>2. F(t) = t
        BY <3>1, <4>1, HitIsFirst
      <4>3. WalkFrom(e, from, east, g, t) = t
        BY <2>2, <3>4 DEF WalkFrom
      <4>4. QED
        BY <4>2, <4>3
    <3>5. CASE DateMatches(e, Fields(t + east)) /\ ~TimeMatches(e, Fields(t + east))
      <4>1. ~FiresAt(e, east, t)
        BY <3>5 DEF FiresAt, Matches
      <4>2. HitsFrom(e, from, east, t) = HitsFrom(e, from, east, t + 1)
        BY <3>1, <4>1, HitsAfterMinute
      <4>3. F(t) = F(t + 1)
        BY <4>2 DEF FirstHit
      <4>4. WalkFrom(e, from, east, g, t) = g[t + 1]
        BY <2>2, <3>5 DEF WalkFrom
      <4>5. QED
        BY <3>2, <4>3, <4>4
    <3>6. QED
      BY <3>3, <3>4, <3>5
  <2>3. QED
    BY <2>1, <2>2
<1> HIDE DEF F
<1>3. g = [t \in Reach(from) |-> F(t)]
  BY DEF F
<1>4. [t \in Reach(from) |-> F(t)] = [t \in Reach(from) |-> WalkFrom(e, from, east, g, t)]
  BY <1>2
<1>5. QED
  BY <1>3, <1>4 DEF Walks

\* A walk goes forward only, so its equation has one solution.
LEMMA WalkIsOne ==
  ASSUME NEW e, NEW from \in Int, NEW east \in Int, NEW g, NEW h,
         Walks(e, from, east, g), Walks(e, from, east, h)
  PROVE  \A t \in Reach(from) : g[t] = h[t]
<1> DEFINE last == from + 1 + Window * DayLen + DayLen
           Bad == {n \in Nat : last - n \in Reach(from) /\ g[last - n] # h[last - n]}
<1>1. last \in Int /\ \A t \in Reach(from) : t \in Int /\ t <= last
  <2> DEFINE w == Window * DayLen
             d == DayLen
  <2>1. w \in Nat /\ d \in Nat
    BY DayHasMinutes
  <2>2. last = from + 1 + w + d /\ Reach(from) = from + 1 .. from + 1 + w + d
    BY DEF Reach
  <2> HIDE DEF w, d, last
  <2>3. QED
    BY <2>1, <2>2
<1> HIDE DEF last
<1>2. \A t \in Reach(from) : g[t] = WalkFrom(e, from, east, g, t) /\ h[t] = WalkFrom(e, from, east, h, t)
  BY DEF Walks
<1>3. ASSUME NEW t \in Reach(from), g[t] # h[t]
      PROVE  \E u \in Reach(from) : t < u /\ g[u] # h[u]
  <2>1. ~(t > from + 1 + Window * DayLen)
    BY <1>2, <1>3 DEF WalkFrom
  <2>2. /\ t + 1 \in Reach(from) /\ t < t + 1
        /\ Midnight(t, east) \in Reach(from) /\ t < Midnight(t, east)
    BY <2>1, StepsOfWalk
  <2>3. g[Midnight(t, east)] # h[Midnight(t, east)] \/ g[t + 1] # h[t + 1]
    BY <1>2, <1>3 DEF WalkFrom
  <2>4. QED
    BY <2>2, <2>3
<1>4. CASE Bad # {}
  <2>1. Bad \in SUBSET Nat
    OBVIOUS
  <2>2. PICK n \in Bad : \A m \in Bad : ~(m < n)
    BY <1>4, <2>1, LeastNumber
  <2>3. n \in Nat /\ last - n \in Reach(from) /\ g[last - n] # h[last - n]
    BY <2>2
  <2>4. PICK u \in Reach(from) : last - n < u /\ g[u] # h[u]
    BY <1>3, <2>3
  <2>5. u \in Int /\ u <= last
    BY <1>1, <2>4
  <2>6. last - u \in Nat /\ last - (last - u) = u /\ last - u < n
    BY <1>1, <2>3, <2>4, <2>5
  <2>7. last - u \in Bad
    BY <2>4, <2>6
  <2>8. QED
    BY <2>2, <2>6, <2>7
<1>5. CASE Bad = {}
  <2>1. SUFFICES ASSUME NEW t \in Reach(from), g[t] # h[t] PROVE FALSE
    OBVIOUS
  <2>2. last - t \in Nat /\ last - (last - t) = t
    BY <1>1
  <2>3. last - t \in Bad
    BY <2>1, <2>2
  <2>4. QED
    BY <1>5, <2>3
<1>6. QED
  BY <1>4, <1>5

LEMMA NextAfterIsFirst ==
  ASSUME NEW e, NEW from \in Int, NEW east \in Int, IsValid(e)
  PROVE  NextAfter(e, from, east) = FirstHit(e, from, east, from + 1)
<1> DEFINE g == [t \in Reach(from) |-> FirstHit(e, from, east, t)]
           h == CHOOSE k : Walks(e, from, east, k)
<1>1. Walks(e, from, east, g)
  BY FirstHitWalks
<1> HIDE DEF g
<1>2. Walks(e, from, east, h)
  BY <1>1
<1>3. NextAfter(e, from, east) = h[from + 1]
  BY NextAfterIs
<1> HIDE DEF h
<1>4. from + 1 \in Reach(from)
  <2> DEFINE w == Window * DayLen
             d == DayLen
  <2>1. w \in Nat /\ d \in Nat
    BY DayHasMinutes
  <2>2. Reach(from) = from + 1 .. from + 1 + w + d
    BY DEF Reach
  <2> HIDE DEF w, d
  <2>3. QED
    BY <2>1, <2>2
<1>5. g[from + 1] = h[from + 1]
  BY <1>1, <1>2, <1>4, WalkIsOne
<1>6. g[from + 1] = FirstHit(e, from, east, from + 1)
  BY <1>4 DEF g
<1>7. QED
  BY <1>3, <1>5, <1>6

-----------------------------------------------------------------------------
(* Schedules: what is accepted, and the walk.                               *)

\* A minute, an expression and an offset.
ScheduleShapes == now \in Int /\ expr \in Exprs /\ offset \in Offsets

\* A part that is accepted matches some value of its field.
LEMMA PartFires ==
  ASSUME NEW p \in CronParts, NEW min \in Nat, NEW max \in Nat, min <= max, PartValid(p, min, max)
  PROVE  \E v \in min .. max : PartMatches(p, v, min, max)
<1>1. CASE p.is = "star"
  <2>1. PartMatches(p, min, min, max)
    BY <1>1 DEF PartMatches
  <2>2. QED
    BY <2>1
<1>2. CASE p.is = "step"
  <2>1. p.n \in Nat /\ p.n # 0
    BY <1>2 DEF PartValid, CronParts
  <2>2. \A n \in Nat : n # 0 => 0 % n = 0
    OBVIOUS
  <2>3. (IF min < min THEN 0 ELSE min - min) = 0
    OBVIOUS
  <2>4. PartMatches(p, min, min, max)
    BY <1>2, <2>1, <2>2, <2>3 DEF PartMatches
  <2>5. QED
    BY <2>4
<1>3. CASE p.is = "range"
  <2>1. p.a \in min .. max /\ p.b \in min .. max /\ p.a <= p.b
    BY <1>3 DEF PartValid
  <2>2. PartMatches(p, p.a, min, max)
    BY <1>3, <2>1 DEF PartMatches
  <2>3. QED
    BY <2>1, <2>2
<1>4. CASE p.is = "one"
  <2>1. p.n \in min .. max
    BY <1>4 DEF PartValid
  <2>2. PartMatches(p, p.n, min, max)
    BY <1>4 DEF PartMatches
  <2>3. QED
    BY <2>1, <2>2
<1>5. p.is \in {"star", "step", "range", "one"}
  BY DEF CronParts
<1>6. QED
  BY <1>1, <1>2, <1>3, <1>4, <1>5

LEMMA FieldFires ==
  ASSUME NEW parts \in SUBSET CronParts, NEW min \in Nat, NEW max \in Nat, min <= max,
         FieldValid(parts, min, max)
  PROVE  \E v \in min .. max : FieldMatches(parts, v, min, max)
<1>1. PICK p \in parts : PartValid(p, min, max)
  BY DEF FieldValid
<1>2. PICK v \in min .. max : PartMatches(p, v, min, max)
  BY <1>1, PartFires
<1>3. QED
  BY <1>2 DEF FieldMatches

\* A Sunday is 0 and 7: a field that matches one of 0 to 7 matches some day.
LEMMA WeekdayFires ==
  ASSUME NEW parts \in SUBSET CronParts, FieldValid(parts, 0, 7)
  PROVE  \E w \in 0 .. 6 : FieldMatches(parts, w, 0, 6) \/ (w = 0 /\ FieldMatches(parts, 7, 0, 7))
<1>1. PICK v \in 0 .. 7 : FieldMatches(parts, v, 0, 7)
  BY FieldFires
<1>2. CASE v = 7
  BY <1>1, <1>2
<1>3. CASE v # 7
  <2>1. v \in 0 .. 6
    BY <1>3
  <2>2. PICK p \in parts : PartMatches(p, v, 0, 7)
    BY <1>1 DEF FieldMatches
  <2>3. v <= 6
    BY <2>1
  <2>4. PartMatches(p, v, 0, 6)
    <3>1. CASE p.is = "star"
      BY <3>1 DEF PartMatches
    <3>2. CASE p.is = "step"
      BY <2>2, <3>2 DEF PartMatches
    <3>3. CASE p.is = "range"
      BY <2>2, <2>3, <3>3 DEF PartMatches
    <3>4. CASE p.is = "one"
      BY <2>2, <3>4 DEF PartMatches
    <3>5. QED
      BY <3>1, <3>2, <3>3, <3>4 DEF CronParts
  <2>5. QED
    BY <2>1, <2>4 DEF FieldMatches
<1>4. QED
  BY <1>2, <1>3

LEMMA AcceptedFires == ScheduleShapes => AcceptedFieldsFire
<1> SUFFICES ASSUME ScheduleShapes, IsValid(expr)
             PROVE  /\ \E v \in 0 .. HourLen - 1 : FieldMatches(expr.minute, v, 0, HourLen - 1)
                    /\ \E v \in 0 .. Hours - 1 : FieldMatches(expr.hour, v, 0, Hours - 1)
                    /\ \E d \in 1 .. 31, m \in 1 .. 12, w \in 0 .. 6 :
                         DateMatches(expr, [dom |-> d, month |-> m, dow |-> w])
  BY DEF AcceptedFieldsFire
<1>1. /\ expr.minute \in SUBSET CronParts /\ expr.hour \in SUBSET CronParts /\ expr.dom \in SUBSET CronParts
      /\ expr.month \in SUBSET CronParts /\ expr.dow \in SUBSET CronParts
  BY ScheduleAssumption DEF ScheduleShapes
<1>2. HourLen - 1 \in Nat /\ Hours - 1 \in Nat
  <2>1. HourLen \in Nat \ {0} /\ Hours \in Nat \ {0}
    BY ScheduleAssumption
  <2>2. QED
    BY <2>1
<1>3. /\ FieldValid(expr.minute, 0, HourLen - 1) /\ FieldValid(expr.hour, 0, Hours - 1)
      /\ FieldValid(expr.dom, 1, 31) /\ FieldValid(expr.month, 1, 12) /\ FieldValid(expr.dow, 0, 7)
  BY DEF IsValid
<1>4. \E v \in 0 .. HourLen - 1 : FieldMatches(expr.minute, v, 0, HourLen - 1)
  BY <1>1, <1>2, <1>3, FieldFires
<1>5. \E v \in 0 .. Hours - 1 : FieldMatches(expr.hour, v, 0, Hours - 1)
  BY <1>1, <1>2, <1>3, FieldFires
<1>6. PICK d \in 1 .. 31 : FieldMatches(expr.dom, d, 1, 31)
  BY <1>1, <1>3, FieldFires
<1>7. PICK m \in 1 .. 12 : FieldMatches(expr.month, m, 1, 12)
  BY <1>1, <1>3, FieldFires
<1>8. PICK w \in 0 .. 6 : FieldMatches(expr.dow, w, 0, 6) \/ (w = 0 /\ FieldMatches(expr.dow, 7, 0, 7))
  BY <1>1, <1>3, WeekdayFires
<1>9. DateMatches(expr, [dom |-> d, month |-> m, dow |-> w])
  BY <1>6, <1>7, <1>8 DEF DateMatches
<1>10. QED
  BY <1>4, <1>5, <1>6, <1>7, <1>8, <1>9

LEMMA PreviewIsFirst == ScheduleShapes => PreviewAgrees
<1> DEFINE fires == {t \in SearchSpan(now) : Matches(expr, Fields(t + offset))}
           next == NextAfter(expr, now, offset)
<1>1. SUFFICES ASSUME ScheduleShapes, IsValid(expr)
               PROVE  IF fires = {} THEN next = NoRun ELSE next \in fires /\ \A t \in fires : next <= t
  BY DEF PreviewAgrees, SearchSpan
<1>2. now \in Int /\ offset \in Int
  BY <1>1, ScheduleAssumption DEF ScheduleShapes
<1>3. \A t \in SearchSpan(now) : t \in Int /\ now + 1 <= t
  <2> DEFINE w == Window * DayLen
  <2>1. w \in Nat /\ SearchSpan(now) = now + 1 .. now + 1 + w
    BY DayHasMinutes DEF SearchSpan
  <2> HIDE DEF w
  <2>2. QED
    BY <1>2, <2>1
<1>4. HitsFrom(expr, now, offset, now + 1) = fires
  BY <1>3 DEF HitsFrom, FiresAt
<1>5. next = FirstHit(expr, now, offset, now + 1)
  BY <1>1, <1>2, NextAfterIsFirst
<1>6. fires \in SUBSET Int /\ \A t \in fires : now + 1 <= t
  BY <1>3
<1> HIDE DEF fires, next
<1>7. CASE fires = {}
  BY <1>4, <1>5, <1>7 DEF FirstHit
<1>8. CASE fires # {}
  <2>1. now + 1 \in Int
    BY <1>2
  <2>2. \E x \in fires : \A y \in fires : x <= y
    BY <1>6, <1>8, <2>1, LeastWhole
  <2>3. next = CHOOSE u \in fires : \A v \in fires : u <= v
    BY <1>4, <1>5, <1>8 DEF FirstHit
  <2>4. next \in fires /\ \A t \in fires : next <= t
    BY <2>2, <2>3
  <2>5. QED
    BY <1>8, <2>4
<1>9. QED
  BY <1>7, <1>8

LEMMA DaysFollow == ScheduleShapes => CalendarIsRight
<1>1. SUFFICES ASSUME ScheduleShapes PROVE CalendarIsRight
  OBVIOUS
<1>2. now \div DayLen \in Int
  BY <1>1, DayHasMinutes, DivMod DEF ScheduleShapes
<1>3. QED
  BY <1>2, CivilBegins, CivilTomorrow DEF CalendarIsRight

LEMMA ScheduleBegins == ScheduleInit => ScheduleShapes
<1> SUFFICES ASSUME ScheduleInit PROVE ScheduleShapes
  OBVIOUS
<1>1. PICK d \in StartDays : now = d * DayLen
  BY DEF ScheduleInit
<1>2. d \in Int /\ DayLen \in Int
  BY ScheduleAssumption, DayHasMinutes
<1>3. now \in Int
  BY <1>1, <1>2
<1>4. QED
  BY <1>3 DEF ScheduleInit, ScheduleShapes

LEMMA MinuteKeepsShapes == ScheduleShapes /\ [MinuteWalks]_scheduleVars => ScheduleShapes'
  BY DEF ScheduleShapes, MinuteWalks, scheduleVars

\* The search is always over minutes, with an expression of the form.
THEOREM ScheduleIsShaped == ScheduleSpec => []ScheduleShapes
  BY ScheduleBegins, MinuteKeepsShapes, PTL DEF ScheduleSpec

\* Days follow each other as the calendar says, for every day before the epoch and
\* after it (cron.rs, civil_from_days).
THEOREM CalendarNeverSkips == ScheduleSpec => []CalendarIsRight
  BY ScheduleIsShaped, DaysFollow, PTL

\* The next run announced is the first minute the scheduler fires in, for every
\* expression, offset, length of day and look-ahead (cron.rs, next_after).
THEOREM PreviewNeverSkips == ScheduleSpec => []PreviewAgrees
  BY ScheduleIsShaped, PreviewIsFirst, PTL

\* What the form accepts fires on some date and at some time (cron.rs, is_valid).
THEOREM AcceptedNeverSleep == ScheduleSpec => []AcceptedFieldsFire
  BY ScheduleIsShaped, AcceptedFires, PTL

-----------------------------------------------------------------------------
(* The composition: a behaviour of it is a behaviour of each component.     *)

LEMMA FlowPartsBehave == FlowSpec => MsgSpec /\ FusionSpec /\ ActSpec /\ TailSpec /\ CronSpec
<1>1. FlowInit => MsgInit /\ FusionInit /\ ActInit /\ TailInit /\ CronInit
  BY DEF FlowInit
<1>2. [FlowNext]_flowVars =>
        /\ [MsgNext]_msgVars /\ [FusionNext]_fusionVars /\ [ActNext]_actVars
        /\ [TailNext]_tailVars /\ [CronNext]_cronVars
  BY DEF FlowNext, flowVars, MessagesMove, FusionMoves, ActivityMoves, TranscriptMoves, CronMoves,
     ScheduleMoves
<1>3. QED
  BY <1>1, <1>2, PTL DEF FlowSpec, MsgSpec, FusionSpec, ActSpec, TailSpec, CronSpec

\* A send leaves one row per handler that ran through, nobody is told before the
\* recipient is, and no row is read unseen (routes/swarm.rs, tools.rs).
THEOREM FaithIsKept == FlowSpec => []SendsAreFaithful
<1>1. InsertedOnce /\ ToldIsHeard /\ ReadWasShown => SendsAreFaithful
  BY DEF SendsAreFaithful
<1>2. QED
  BY <1>1, FlowPartsBehave, SendsKeepFaith, PTL

\* A batch has one judge and one verdict, and only its branch is merged
\* (routes/workspaces.rs).
THEOREM BatchHasOneVerdict == FlowSpec => []DecidedOnce
<1>1. VerdictStands /\ OnlyWinnerLands /\ OneJudge => DecidedOnce
  BY DEF DecidedOnce
<1>2. QED
  BY <1>1, FlowPartsBehave, OneJudgeOneVerdict, PTL

\* Where no listing of the agents fails, no synthesis is taken from an author who is
\* still at it, either (routes/workspaces.rs, synthesis_watchdog).
THEOREM BatchIsWhole == ASSUME MaxRosterFaults = 0 PROVE FlowSpec => BatchIsDecidedOnce
<1>1. FlowSpec => HalfWrittenIsSpared
  BY FlowPartsBehave, NoHalfSynthesis
<1>2. QED
  BY <1>1, BatchHasOneVerdict DEF BatchIsDecidedOnce

\* A page of activity is never behind the ring, and an answered thought trace keeps
\* its answer and its steps (swarm.rs, routes/rest.rs, store.rs).
THEOREM ActivityHolds == FlowSpec => ActivityIsKept
<1>1. ViewIsFresh => (part = "activity" => ViewIsFresh)
  OBVIOUS
<1>2. QED
  BY <1>1, FlowPartsBehave, PageIsFresh, AnswersStand, StepsStay, PTL DEF ActivityIsKept

\* While a transcript only grows, its rows are shown once and its prompts are billed
\* once (transcript.rs).
THEOREM TranscriptHolds == FlowSpec => []TranscriptIsReadOnce
<1>1. ReadExactlyOnce /\ PromptsAreBilledOnce => TranscriptIsReadOnce
  BY DEF TranscriptIsReadOnce
<1>2. QED
  BY <1>1, FlowPartsBehave, RowsAreReadOnce, PromptsAreBilled, PTL

\* A job is delivered once a minute but for overlapping runs and failed stamps, and is
\* stamped only for a minute it was delivered in (cron.rs).
THEOREM JobsAreDelivered == FlowSpec => []CronDelivers
<1>1. DoublesNeedOverlap /\ StampMeansDelivered => CronDelivers
  BY DEF CronDelivers
<1>2. QED
  BY <1>1, FlowPartsBehave, DoublesAreExplained, PTL

\* While the part is the schedule, the walk is over minutes, with an expression of the
\* form.
LEMMA FlowKeepsSchedule == FlowSpec => [](part = "schedule" => ScheduleShapes)
<1>1. FlowInit => (part = "schedule" => ScheduleShapes)
  BY ScheduleBegins DEF FlowInit
<1>2. (part = "schedule" => ScheduleShapes) /\ [FlowNext]_flowVars => (part = "schedule" => ScheduleShapes)'
  <2>1. [FlowNext]_flowVars => [MinuteWalks]_scheduleVars /\ part' = part
    BY DEF FlowNext, flowVars, Only, MessagesMove, FusionMoves, ActivityMoves, TranscriptMoves, CronMoves,
       ScheduleMoves
  <2>2. QED
    BY <2>1, MinuteKeepsShapes
<1>3. QED
  BY <1>1, <1>2, PTL DEF FlowSpec

\* The days follow each other, the preview announces the first minute that fires, and
\* what the form accepts fires, for every length of an hour, a day and the look-ahead
\* (cron.rs).
THEOREM ScheduleHolds == FlowSpec => []ScheduleIsRight
<1>1. (part = "schedule" => ScheduleShapes) => ScheduleIsRight
  BY DaysFollow, PreviewIsFirst, AcceptedFires DEF ScheduleIsRight
<1>2. QED
  BY <1>1, FlowKeepsSchedule, PTL

\* Whatever part runs, the rows, batches, rings, transcripts and runs it keeps are well
\* formed (routes/swarm.rs, fusion.rs, swarm.rs, transcript.rs, cron.rs).
THEOREM FlowTypesHold == FlowSpec => []FlowTypesOK
<1>1. FlowSpec => [](part \in Parts)
  <2>1. FlowInit => part \in Parts
    BY DEF FlowInit
  <2>2. part \in Parts /\ [FlowNext]_flowVars => (part \in Parts)'
    BY DEF FlowNext, flowVars, Only, MessagesMove, FusionMoves, ActivityMoves, TranscriptMoves, CronMoves,
       ScheduleMoves
  <2>3. QED
    BY <2>1, <2>2, PTL DEF FlowSpec
<1>2. /\ part \in Parts /\ (part = "schedule" => ScheduleShapes)
      /\ MsgTypeOK /\ FusionTypeOK /\ ActTypeOK /\ TailTypeOK /\ CronTypeOK
      => FlowTypesOK
  BY PartsAssumption DEF FlowTypesOK, ScheduleShapes
<1>3. QED
  BY <1>1, <1>2, FlowPartsBehave, FlowKeepsSchedule, MessageTypesHold, BatchTypesHold,
     ActivityTypesHold, TailTypesHold, CronTypesHold, PTL
=============================================================================
