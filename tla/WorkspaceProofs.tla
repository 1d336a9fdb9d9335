--------------------------- MODULE WorkspaceProofs ---------------------------
(***************************************************************************)
(* Proofs about what the agents of a workspace share: the blackboard they  *)
(* hand over on and the directions they work in, for any keys, texts,      *)
(* calls, directions, requests, tasks and faults.                          *)
(***************************************************************************)
EXTENDS Directions, Blackboard, FiniteSetTheorems, SequenceTheorems, WellFoundedInduction, TLAPS


-----------------------------------------------------------------------------
\* The naturals are well ordered.
LEMMA LessIsWellFounded ==
  \E R : IsWellFoundedOn(R, Nat) /\ \A x, y \in Nat : <<y, x>> \in R <=> y < x
<1>  DEFINE R == OpToRel(<, Nat)
<1>1. IsWellFoundedOn(R, Nat)
  BY NatLessThanWellFounded, Zenon
<1>2. \A x, y \in Nat : <<y, x>> \in R <=> y < x
  BY Zenon DEF OpToRel
<1>3. QED
  BY <1>1, <1>2, Zenon

\* Some number of a set of them is the least.
LEMMA LeastNumber == ASSUME NEW T \in SUBSET Nat, T # {} PROVE \E x \in T : \A y \in T : ~(y < x)
<1>1. PICK R : IsWellFoundedOn(R, Nat) /\ \A x, y \in Nat : <<y, x>> \in R <=> y < x
  BY LessIsWellFounded
<1>2. PICK x \in T : \A y \in T : <<y, x>> \notin R
  BY <1>1, WFMin, Zenon
<1>3. QED
  BY <1>1, <1>2, Zenon

-----------------------------------------------------------------------------

(* The blackboard and its op-log.                                           *)

\* The calls, by what they do, and the tasks of the watcher.
WriteCalls == [pc : {"prime", "create", "fill", "rename", "log", "announce", "ok", "error", "lost"},
               op : {"write"}, key : Keys, val : Contents]
DeleteCalls == [pc : {"remove", "log", "announce", "ok", "lost"}, op : {"delete"}, key : Keys, val : {""}]
CompactCalls == [pc : {"summarise", "error", "lost"}, op : {"compact"}, key : Keys, val : Contents]
DropCalls == [pc : {"rmdir", "ok", "lost"}, op : {"drop"}, key : {""}, val : {""}]
CallRows == [pc : {"free", "lost"}] \cup WriteCalls \cup DeleteCalls \cup CompactCalls \cup DropCalls

TaskRows == {NoTask} \cup [pc : {"read"}, key : Keys, val : {Absent}]
                     \cup [pc : {"compare", "mark", "insert", "announce"}, key : Keys, val : Contents]

OpRows == [key : Keys, op : {"write", "delete", "external", "reconcile"}, val : Contents \cup {""}]
WalkFiles == [key : Keys, val : Contents]
Servers == [phase : {"up", "down", "walk", "backfill"}, known : SUBSET Keys, files : SUBSET WalkFiles,
            found : SUBSET Keys, missed : SUBSET Keys]

\* Every variable has its shape; a file is never torn, and what is renamed over
\* it is the text of the call.
BoardShapes ==
  /\ disk \in [Keys -> Contents \cup {Absent}] /\ seen \in [Keys -> Contents \cup {Absent}]
  /\ tmp \in [Calls -> Contents \cup {Absent, Half}]
  /\ oplog \in Seq(OpRows) /\ call \in [Calls -> CallRows] /\ task \in [Tasks -> TaskRows]
  /\ undelivered \subseteq Keys /\ server \in Servers
  /\ env \in [requests : Nat, edits : Nat, faults : Nat, crashes : Nat]
  /\ \A c \in Calls : call[c].pc = "rename" => tmp[c] = call[c].val

\* A server that was never killed is up.
UpUntilCrash == env.crashes = 0 => server.phase = "up"

\* While it boots, what the log knew it still knows, and a file of the walk is in
\* the log, to be looked at, or missed.
BootIsKept ==
  /\ server.phase \in {"walk", "backfill"} => server.known \subseteq LoggedKeys
  /\ server.phase = "backfill" =>
       server.found \subseteq LoggedKeys \cup server.missed \cup {f.key : f \in server.files}

Recorded(k, v) == \E i \in RowsOf(k) : oplog[i].val = v

\* Somebody is about to record the text v of k.
Writes(k, v) == \E c \in Calls : /\ call[c].pc \in {"create", "fill", "rename", "log"}
                                 /\ call[c].key = k /\ call[c].val = v
Inserts(k, v) == \E t \in Tasks : task[t].pc = "insert" /\ task[t].key = k /\ task[t].val = v
Comes(k, v) == Recorded(k, v) \/ Writes(k, v) \/ Inserts(k, v)

\* The watcher will look at k.
Watched(k, v) ==
  \/ k \in undelivered
  \/ \E t \in Tasks : task[t].pc = "read" /\ task[t].key = k
  \/ \E t \in Tasks : task[t].pc \in {"compare", "mark"} /\ task[t].key = k /\ task[t].val = v

\* What seen_sha holds and what is on the disk is recorded, or will be.
TextComes ==
  \A k \in Keys \ Direction :
    /\ seen[k] # Absent => Comes(k, seen[k])
    /\ disk[k] # Absent => Comes(k, disk[k]) \/ Watched(k, disk[k])

Undisturbed == env.faults = 0 /\ env.crashes = 0

\* The inductive invariant.
BoardInv ==
  /\ BoardShapes /\ UpUntilCrash /\ OkIsAnnounced /\ BootIsKept
  /\ Undisturbed => TextComes

-----------------------------------------------------------------------------
(* The op-log.                                                              *)

\* What is left of the log are the rows at the ids that stay, all of them.
LEMMA LogIsKept ==
  ASSUME oplog \in Seq(OpRows), NEW ids \in SUBSET DOMAIN oplog
  PROVE  /\ LogOf(ids) \in Seq(OpRows)
         /\ \A i \in ids : \E n \in DOMAIN LogOf(ids) : LogOf(ids)[n] = oplog[i]
<1>  DEFINE N == Cardinality(ids)
            rank == [i \in ids |-> Cardinality({j \in ids : j <= i})]
<1>1. DOMAIN oplog = 1 .. Len(oplog) /\ Len(oplog) \in Nat /\ ids \subseteq Nat
  OBVIOUS
<1>2. IsFiniteSet(ids) /\ N \in Nat
  <2>1. IsFiniteSet(1 .. Len(oplog))
    BY <1>1, FS_Interval
  <2>2. QED
    BY <1>1, <2>1, FS_Subset, FS_CardinalityType
<1>3. \A i \in ids : /\ {j \in ids : j <= i} \in SUBSET ids /\ IsFiniteSet({j \in ids : j <= i})
                     /\ i \in {j \in ids : j <= i}
  BY <1>1, <1>2, FS_Subset
<1>4. rank \in [ids -> 1 .. N]
  <2> SUFFICES ASSUME NEW i \in ids PROVE Cardinality({j \in ids : j <= i}) \in 1 .. N
    OBVIOUS
  <2>1. Cardinality({j \in ids : j <= i}) \in Nat /\ Cardinality({j \in ids : j <= i}) <= N
    BY <1>2, <1>3, FS_Subset, FS_CardinalityType
  <2>2. Cardinality({j \in ids : j <= i}) # 0
    BY <1>3, FS_EmptySet
  <2>3. QED
    BY <1>2, <2>1, <2>2
<1>5. \A i, k \in ids : rank[i] = rank[k] => i = k
  <2>1. \A i, k \in ids : i <= k /\ rank[i] = rank[k] => i = k
    <3> SUFFICES ASSUME NEW i \in ids, NEW k \in ids, i <= k, rank[i] = rank[k] PROVE i = k
      OBVIOUS
    <3>1. {j \in ids : j <= i} \in SUBSET {j \in ids : j <= k}
      BY <1>1
    <3>2. {j \in ids : j <= i} = {j \in ids : j <= k}
      BY <1>3, <3>1, FS_Subset
    <3>3. k <= i
      BY <1>3, <3>2
    <3>4. QED
      BY <1>1, <3>3
  <2>2. \A i, k \in ids : i <= k \/ k <= i
    BY <1>1
  <2>3. QED
    BY <2>1, <2>2
<1>6. IsFiniteSet(1 .. N) /\ Cardinality(1 .. N) = N
  BY <1>2, FS_Interval
<1>7. rank \in Surjection(ids, 1 .. N)
  <2>1. rank \in Injection(ids, 1 .. N)
    BY <1>4, <1>5 DEF Injection, IsInjective
  <2>2. QED
    BY <1>6, <2>1, FS_Injection
<1>8. \A n \in 1 .. N : \E i \in ids : rank[i] = n
  BY <1>7 DEF Surjection
<1>9. \A i \in ids : rank[i] = Cardinality({j \in ids : j <= i})
  OBVIOUS
<1>  HIDE DEF rank
<1>10. \A n \in 1 .. N : Nth(ids, n) \in ids /\ rank[Nth(ids, n)] = n
  BY <1>8, <1>9 DEF Nth
<1>11. DOMAIN LogOf(ids) = 1 .. N /\ \A n \in 1 .. N : LogOf(ids)[n] = oplog[Nth(ids, n)]
  BY DEF LogOf
<1>12. LogOf(ids) \in Seq(OpRows)
  <2>1. \A n \in 1 .. N : oplog[Nth(ids, n)] \in OpRows
    BY <1>10
  <2>2. QED
    BY <1>2, <2>1 DEF LogOf
<1>13. ASSUME NEW i \in ids PROVE \E n \in DOMAIN LogOf(ids) : LogOf(ids)[n] = oplog[i]
  <2>1. rank[i] \in 1 .. N
    BY <1>4
  <2>2. Nth(ids, rank[i]) = i
    BY <1>5, <1>10, <2>1
  <2>3. QED
    BY <1>11, <2>1, <2>2
<1>14. QED
  BY <1>12, <1>13

\* A row more.
LEMMA LogGrows ==
  ASSUME oplog \in Seq(OpRows), NEW r \in OpRows, oplog' = Append(oplog, r)
  PROVE  /\ oplog' \in Seq(OpRows)
         /\ \A i \in DOMAIN oplog : \E n \in DOMAIN oplog' : oplog'[n] = oplog[i]
         /\ \E n \in DOMAIN oplog' : oplog'[n] = r
<1>1. DOMAIN oplog = 1 .. Len(oplog) /\ DOMAIN oplog' = 1 .. Len(oplog) + 1 /\ Len(oplog) \in Nat
  OBVIOUS
<1>2. oplog' \in Seq(OpRows)
  OBVIOUS
<1>3. \A i \in 1 .. Len(oplog) : oplog'[i] = oplog[i]
  OBVIOUS
<1>4. oplog'[Len(oplog) + 1] = r
  OBVIOUS
<1>5. QED
  BY <1>1, <1>2, <1>3, <1>4

\* What the rows that are there say, they go on saying.
LEMMA KeysAndTexts ==
  ASSUME \A i \in DOMAIN oplog : \E n \in DOMAIN oplog' : oplog'[n] = oplog[i]
  PROVE  /\ LoggedKeys \subseteq LoggedKeys'
         /\ \A k, v : Recorded(k, v) => Recorded(k, v)'
  BY DEF LoggedKeys, Recorded, RowsOf

\* Every key that is logged has a latest row.
LEMMA LatestExists ==
  ASSUME oplog \in Seq(OpRows), NEW k, RowsOf(k) # {}
  PROVE  \E i \in RowsOf(k) : \A j \in RowsOf(k) : j <= i
<1>  DEFINE Back == {Len(oplog) - i : i \in RowsOf(k)}
<1>1. DOMAIN oplog = 1 .. Len(oplog) /\ Len(oplog) \in Nat /\ RowsOf(k) \subseteq 1 .. Len(oplog)
  BY DEF RowsOf
<1>2. Back \in SUBSET Nat /\ Back # {}
  BY <1>1
<1>3. PICK x \in Back : \A y \in Back : ~(y < x)
  BY <1>2, LeastNumber
<1>4. PICK i \in RowsOf(k) : x = Len(oplog) - i
  BY <1>3
<1>5. \A j \in RowsOf(k) : ~(Len(oplog) - j < Len(oplog) - i)
  BY <1>3, <1>4
<1>6. QED
  BY <1>1, <1>4, <1>5

-----------------------------------------------------------------------------
(* Calls and tasks.                                                         *)

\* A call is where calls of its kind can be.
LEMMA CallKinds ==
  \A r \in CallRows :
    /\ r.pc \in {"free", "prime", "create", "fill", "rename", "remove", "rmdir", "summarise", "log",
                 "announce", "ok", "error", "lost"}
    /\ r.pc \in {"prime", "create", "fill", "rename"} => r \in WriteCalls
    /\ r.pc = "remove" => r \in DeleteCalls
    /\ r.pc = "summarise" => r \in CompactCalls
    /\ r.pc = "rmdir" => r \in DropCalls
    /\ r.pc \in {"log", "announce"} => r \in WriteCalls \cup DeleteCalls
  BY DEF CallRows, WriteCalls, DeleteCalls, CompactCalls, DropCalls

\* A call that logs has a row to log.
LEMMA CallsHaveRows ==
  \A r \in WriteCalls \cup DeleteCalls :
    r.key \in Keys /\ OpRow(r.key, r.op, r.val) \in OpRows
    /\ OpRow(r.key, r.op, r.val).key = r.key /\ OpRow(r.key, r.op, r.val).val = r.val
  BY DEF WriteCalls, DeleteCalls, OpRow, OpRows

\* A call moves on.
LEMMA CallMoves ==
  ASSUME BoardShapes, NEW c \in Calls, NEW p, CallTo(c, p),
         \/ call[c] \in WriteCalls /\ p \in {"create", "fill", "rename", "log", "announce", "ok", "error"}
         \/ call[c] \in DeleteCalls /\ p \in {"log", "announce", "ok"}
         \/ call[c] \in CompactCalls /\ p = "error"
         \/ call[c] \in DropCalls /\ p = "ok"
  PROVE  /\ call' \in [Calls -> CallRows]
         /\ \A d \in Calls \ {c} : call'[d] = call[d]
         /\ call'[c].pc = p /\ call'[c].op = call[c].op
         /\ call'[c].key = call[c].key /\ call'[c].val = call[c].val
<1>  DEFINE n == [call[c] EXCEPT !.pc = p]
<1>1. n \in CallRows /\ n.pc = p /\ n.op = call[c].op /\ n.key = call[c].key /\ n.val = call[c].val
  <2>1. CASE call[c] \in WriteCalls /\ p \in {"create", "fill", "rename", "log", "announce", "ok", "error"}
    <3>1. n \in WriteCalls /\ n.pc = p /\ n.op = call[c].op /\ n.key = call[c].key /\ n.val = call[c].val
      BY <2>1 DEF WriteCalls
    <3>2. QED
      BY <3>1 DEF CallRows
  <2>2. CASE call[c] \in DeleteCalls /\ p \in {"log", "announce", "ok"}
    <3>1. n \in DeleteCalls /\ n.pc = p /\ n.op = call[c].op /\ n.key = call[c].key /\ n.val = call[c].val
      BY <2>2 DEF DeleteCalls
    <3>2. QED
      BY <3>1 DEF CallRows
  <2>3. CASE call[c] \in CompactCalls /\ p = "error"
    <3>1. n \in CompactCalls /\ n.pc = p /\ n.op = call[c].op /\ n.key = call[c].key /\ n.val = call[c].val
      BY <2>3 DEF CompactCalls
    <3>2. QED
      BY <3>1 DEF CallRows
  <2>4. CASE call[c] \in DropCalls /\ p = "ok"
    <3>1. n \in DropCalls /\ n.pc = p /\ n.op = call[c].op /\ n.key = call[c].key /\ n.val = call[c].val
      BY <2>4 DEF DropCalls
    <3>2. QED
      BY <3>1 DEF CallRows
  <2>5. QED
    BY <2>1, <2>2, <2>3, <2>4
<1>2. call' = [call EXCEPT ![c] = n]
  BY DEF CallTo
<1>  HIDE DEF n
<1>3. QED
  BY <1>1, <1>2 DEF BoardShapes

\* A call starts, or its summary comes back.
LEMMA CallStarts ==
  ASSUME BoardShapes, NEW c \in Calls, NEW r \in CallRows, call' = [call EXCEPT ![c] = r]
  PROVE  /\ call' \in [Calls -> CallRows] /\ call'[c] = r
         /\ \A d \in Calls \ {c} : call'[d] = call[d]
  BY DEF BoardShapes

\* A crash loses every call.
LEMMA CallsAreLost ==
  ASSUME BoardShapes, call' = [c \in Calls |-> [call[c] EXCEPT !.pc = "lost"]]
  PROVE  call' \in [Calls -> CallRows] /\ \A c \in Calls : call'[c].pc = "lost"
<1> SUFFICES ASSUME NEW r \in CallRows
             PROVE  [r EXCEPT !.pc = "lost"] \in CallRows /\ [r EXCEPT !.pc = "lost"].pc = "lost"
  BY DEF BoardShapes
<1>1. CASE r \in [pc : {"free", "lost"}]
  <2>1. [r EXCEPT !.pc = "lost"] \in [pc : {"free", "lost"}] /\ [r EXCEPT !.pc = "lost"].pc = "lost"
    BY <1>1
  <2>2. QED
    BY <2>1 DEF CallRows
<1>2. CASE r \in WriteCalls
  <2>1. [r EXCEPT !.pc = "lost"] \in WriteCalls /\ [r EXCEPT !.pc = "lost"].pc = "lost"
    BY <1>2 DEF WriteCalls
  <2>2. QED
    BY <2>1 DEF CallRows
<1>3. CASE r \in DeleteCalls
  <2>1. [r EXCEPT !.pc = "lost"] \in DeleteCalls /\ [r EXCEPT !.pc = "lost"].pc = "lost"
    BY <1>3 DEF DeleteCalls
  <2>2. QED
    BY <2>1 DEF CallRows
<1>4. CASE r \in CompactCalls
  <2>1. [r EXCEPT !.pc = "lost"] \in CompactCalls /\ [r EXCEPT !.pc = "lost"].pc = "lost"
    BY <1>4 DEF CompactCalls
  <2>2. QED
    BY <2>1 DEF CallRows
<1>5. CASE r \in DropCalls
  <2>1. [r EXCEPT !.pc = "lost"] \in DropCalls /\ [r EXCEPT !.pc = "lost"].pc = "lost"
    BY <1>5 DEF DropCalls
  <2>2. QED
    BY <2>1 DEF CallRows
<1>6. QED
  BY <1>1, <1>2, <1>3, <1>4, <1>5 DEF CallRows

\* A task is where tasks can be, and has a text once it has read one.
LEMMA ReconcileKinds ==
  \A r \in TaskRows :
    /\ r.pc \in {"free", "read", "compare", "mark", "insert", "announce"}
    /\ r.pc = "free" <=> r = NoTask
    /\ r.pc # "free" => r.key \in Keys
    /\ r.pc \in {"compare", "mark", "insert", "announce"} =>
         r.val \in Contents /\ OpRow(r.key, "external", r.val) \in OpRows
         /\ OpRow(r.key, "external", r.val).key = r.key /\ OpRow(r.key, "external", r.val).val = r.val
<1> SUFFICES ASSUME NEW r \in TaskRows
             PROVE  /\ r.pc \in {"free", "read", "compare", "mark", "insert", "announce"}
                    /\ r.pc = "free" <=> r = NoTask
                    /\ r.pc # "free" => r.key \in Keys
                    /\ r.pc \in {"compare", "mark", "insert", "announce"} =>
                         r.val \in Contents /\ OpRow(r.key, "external", r.val) \in OpRows
                         /\ OpRow(r.key, "external", r.val).key = r.key
                         /\ OpRow(r.key, "external", r.val).val = r.val
  OBVIOUS
<1>1. NoTask.pc = "free"
  BY DEF NoTask
<1>2. CASE r = NoTask
  BY <1>1, <1>2
<1>3. CASE r \in [pc : {"read"}, key : Keys, val : {Absent}]
  <2>1. r.pc = "read" /\ r.key \in Keys
    BY <1>3
  <2>2. QED
    BY <1>1, <2>1
<1>4. CASE r \in [pc : {"compare", "mark", "insert", "announce"}, key : Keys, val : Contents]
  <2>1. r.pc \in {"compare", "mark", "insert", "announce"} /\ r.key \in Keys /\ r.val \in Contents
    BY <1>4
  <2>2. OpRow(r.key, "external", r.val) \in OpRows
        /\ OpRow(r.key, "external", r.val).key = r.key /\ OpRow(r.key, "external", r.val).val = r.val
    BY <2>1 DEF OpRow, OpRows
  <2>3. QED
    BY <1>1, <2>1, <2>2
<1>5. QED
  BY <1>2, <1>3, <1>4 DEF TaskRows

\* A task starts, reads, moves on and ends.
LEMMA ReconcileGoes ==
  ASSUME BoardShapes, NEW t \in Tasks, NEW r \in TaskRows, task' = [task EXCEPT ![t] = r]
  PROVE  /\ task' \in [Tasks -> TaskRows] /\ task'[t] = r
         /\ \A u \in Tasks \ {t} : task'[u] = task[u]
  BY DEF BoardShapes

LEMMA ReconcileMoves ==
  ASSUME BoardShapes, NEW t \in Tasks, NEW p \in {"mark", "insert", "announce"},
         task[t].pc \in {"compare", "mark", "insert"}, task' = [task EXCEPT ![t].pc = p]
  PROVE  /\ task' \in [Tasks -> TaskRows] /\ task'[t].pc = p
         /\ task'[t].key = task[t].key /\ task'[t].val = task[t].val
         /\ \A u \in Tasks \ {t} : task'[u] = task[u]
<1>  DEFINE n == [task[t] EXCEPT !.pc = p]
<1>1. task[t] \in [pc : {"compare", "mark", "insert", "announce"}, key : Keys, val : Contents]
  BY DEF BoardShapes, TaskRows, NoTask
<1>2. n \in TaskRows /\ n.pc = p /\ n.key = task[t].key /\ n.val = task[t].val
  BY <1>1 DEF TaskRows
<1>3. task' = [task EXCEPT ![t] = n]
  OBVIOUS
<1>  HIDE DEF n
<1>4. QED
  BY <1>2, <1>3, ReconcileGoes

LEMMA ReconcileReads ==
  ASSUME BoardShapes, NEW t \in Tasks, task[t].pc = "read", NEW v \in Contents,
         task' = [task EXCEPT ![t].pc = "compare", ![t].val = v]
  PROVE  /\ task' \in [Tasks -> TaskRows] /\ task'[t].pc = "compare"
         /\ task'[t].key = task[t].key /\ task'[t].val = v
         /\ \A u \in Tasks \ {t} : task'[u] = task[u]
<1>  DEFINE n == [task[t] EXCEPT !.pc = "compare", !.val = v]
<1>1. task[t] \in [pc : {"read"}, key : Keys, val : {Absent}]
  BY DEF BoardShapes, TaskRows, NoTask
<1>2. n \in TaskRows /\ n.pc = "compare" /\ n.key = task[t].key /\ n.val = v
  BY <1>1 DEF TaskRows
<1>3. task' = [task EXCEPT ![t] = n]
  BY <1>1 DEF BoardShapes
<1>  HIDE DEF n
<1>4. QED
  BY <1>2, <1>3, ReconcileGoes

LEMMA ReconcileEnds ==
  ASSUME BoardShapes, NEW t \in Tasks, FinishTask(t)
  PROVE  /\ task' \in [Tasks -> TaskRows] /\ task'[t] = NoTask /\ task'[t].pc = "free"
         /\ \A u \in Tasks \ {t} : task'[u] = task[u]
  BY DEF BoardShapes, FinishTask, TaskRows, NoTask

-----------------------------------------------------------------------------
(* The steps, on the shapes.                                                *)

\* What the texts are not.
LEMMA NoText == Absent \notin Contents /\ Half \notin Contents /\ "" \notin Contents /\ Absent # Half
  BY BlackboardAssumption DEF Absent, Half

\* The bounds that a step uses up.
LEMMA EnvGrows ==
  ASSUME BoardShapes,
         \/ UNCHANGED env
         \/ env' = [env EXCEPT !.requests = @ + 1] \/ env' = [env EXCEPT !.edits = @ + 1]
         \/ Fault \/ env' = [env EXCEPT !.crashes = @ + 1]
  PROVE  /\ env' \in [requests : Nat, edits : Nat, faults : Nat, crashes : Nat]
         /\ Undisturbed' => Undisturbed
         /\ env'.crashes = 0 => env.crashes = 0
         /\ Fault \/ env' = [env EXCEPT !.crashes = @ + 1] => ~Undisturbed'
  BY DEF BoardShapes, Fault, Undisturbed

\* A call changes and with it none of the shared state but what is given.
LEMMA ShapesOfCall ==
  ASSUME BoardShapes, NEW c \in Calls, call' \in [Calls -> CallRows],
         \A d \in Calls \ {c} : call'[d] = call[d] /\ tmp'[d] = tmp[d],
         disk' \in [Keys -> Contents \cup {Absent}], seen' \in [Keys -> Contents \cup {Absent}],
         tmp' \in [Calls -> Contents \cup {Absent, Half}], oplog' \in Seq(OpRows),
         UNCHANGED <<task, server>>, undelivered' \subseteq Keys,
         env' \in [requests : Nat, edits : Nat, faults : Nat, crashes : Nat],
         call'[c].pc = "rename" => tmp'[c] = call'[c].val
  PROVE  BoardShapes'
  BY DEF BoardShapes

\* The steps that start or end a call and write nothing.
LEMMA StartShapes ==
  ASSUME BoardShapes, NEW c \in Calls,
         \/ \E k \in Keys : StartDelete(c, k) \/ StartCompact(c, k) \/ \E v \in Contents : StartWrite(c, k, v)
         \/ \E v \in Contents : Summarised(c, v)
         \/ NoSummary(c) \/ Announce(c)
  PROVE  /\ BoardShapes' /\ UNCHANGED <<disk, tmp, seen, oplog, task, undelivered, server>>
         /\ \A d \in Calls \ {c} : call'[d] = call[d]
         /\ call[c].pc \notin {"create", "fill", "rename", "log"}
         /\ call'[c].pc \in {"prime", "remove", "summarise", "error", "ok"}
         /\ env' = env \/ env' = [env EXCEPT !.requests = @ + 1]
<1>0. call \in [Calls -> CallRows] /\ call[c] \in CallRows
  BY DEF BoardShapes
<1>1. /\ UNCHANGED <<disk, tmp, seen, oplog, task, undelivered, server>>
      /\ call[c].pc \in {"free", "ok", "error", "lost", "summarise", "announce"}
      /\ env' = env \/ env' = [env EXCEPT !.requests = @ + 1]
  BY DEF StartDelete, StartCompact, StartWrite, Summarised, NoSummary, Announce, Accept
<1>2. ASSUME NEW r \in CallRows, r.pc \in {"prime", "remove", "summarise"}, call' = [call EXCEPT ![c] = r]
      PROVE  call' \in [Calls -> CallRows] /\ call'[c].pc \in {"prime", "remove", "summarise", "error", "ok"}
             /\ \A d \in Calls \ {c} : call'[d] = call[d]
  BY <1>2, CallStarts
<1>3. call' \in [Calls -> CallRows] /\ call'[c].pc \in {"prime", "remove", "summarise", "error", "ok"}
      /\ \A d \in Calls \ {c} : call'[d] = call[d]
  <2>1. CASE \E k \in Keys : StartDelete(c, k)
    <3>1. PICK k \in Keys : StartDelete(c, k)
      BY <2>1
    <3>  DEFINE r == [pc |-> "remove", op |-> "delete", key |-> k, val |-> ""]
    <3>2. r \in CallRows /\ r.pc = "remove"
      <4>1. r \in DeleteCalls
        BY DEF DeleteCalls
      <4>2. QED
        BY <4>1 DEF CallRows
    <3>3. call' = [call EXCEPT ![c] = r]
      BY <3>1 DEF StartDelete
    <3>  HIDE DEF r
    <3>4. QED
      BY <1>2, <3>2, <3>3
  <2>2. CASE \E k \in Keys : StartCompact(c, k)
    <3>1. PICK k \in Keys : StartCompact(c, k)
      BY <2>2
    <3>  DEFINE r == [pc |-> "summarise", op |-> "compact", key |-> k, val |-> disk[k]]
    <3>2. disk[k] \in Contents
      BY <3>1 DEF StartCompact, BoardShapes
    <3>3. r \in CallRows /\ r.pc = "summarise"
      <4>1. r \in CompactCalls
        BY <3>2 DEF CompactCalls
      <4>2. QED
        BY <4>1 DEF CallRows
    <3>4. call' = [call EXCEPT ![c] = r]
      BY <3>1 DEF StartCompact
    <3>  HIDE DEF r
    <3>5. QED
      BY <1>2, <3>3, <3>4
  <2>3. CASE \E k \in Keys, v \in Contents : StartWrite(c, k, v)
    <3>1. PICK k \in Keys, v \in Contents : StartWrite(c, k, v)
      BY <2>3
    <3>  DEFINE r == [pc |-> "prime", op |-> "write", key |-> k, val |-> v]
    <3>2. r \in CallRows /\ r.pc = "prime"
      <4>1. r \in WriteCalls
        BY DEF WriteCalls
      <4>2. QED
        BY <4>1 DEF CallRows
    <3>3. call' = [call EXCEPT ![c] = r]
      BY <3>1 DEF StartWrite
    <3>  HIDE DEF r
    <3>4. QED
      BY <1>2, <3>2, <3>3
  <2>4. CASE \E v \in Contents : Summarised(c, v)
    <3>1. PICK v \in Contents : Summarised(c, v)
      BY <2>4
    <3>  DEFINE r == [call[c] EXCEPT !.pc = "prime", !.op = "write", !.val = v]
    <3>2. call[c] \in CompactCalls
      BY <1>0, <3>1, CallKinds DEF Summarised
    <3>3. r \in CallRows /\ r.pc = "prime"
      <4>1. r \in WriteCalls /\ r.pc = "prime"
        BY <3>2 DEF CompactCalls, WriteCalls
      <4>2. QED
        BY <4>1 DEF CallRows
    <3>4. call' = [call EXCEPT ![c] = r]
      BY <3>1 DEF Summarised
    <3>  HIDE DEF r
    <3>5. QED
      BY <1>2, <3>3, <3>4
  <2>5. CASE NoSummary(c)
    <3>1. CallTo(c, "error") /\ call[c] \in CompactCalls
      BY <1>0, <2>5, CallKinds DEF NoSummary
    <3>2. QED
      BY <3>1, CallMoves
  <2>6. CASE Announce(c)
    <3>1. CallTo(c, "ok") /\ call[c] \in WriteCalls \cup DeleteCalls
      BY <1>0, <2>6, CallKinds DEF Announce
    <3>2. QED
      BY <3>1, CallMoves
  <2>7. QED
    BY <2>1, <2>2, <2>3, <2>4, <2>5, <2>6
<1>4. env' \in [requests : Nat, edits : Nat, faults : Nat, crashes : Nat]
  BY <1>1, EnvGrows
<1>5. BoardShapes'
  <2>1. /\ disk' \in [Keys -> Contents \cup {Absent}] /\ seen' \in [Keys -> Contents \cup {Absent}]
        /\ tmp' \in [Calls -> Contents \cup {Absent, Half}] /\ oplog' \in Seq(OpRows) /\ undelivered' \subseteq Keys
    BY <1>1 DEF BoardShapes
  <2>2. call'[c].pc # "rename"
    BY <1>3
  <2>3. QED
    BY <1>1, <1>3, <1>4, <2>1, <2>2, ShapesOfCall
<1>6. QED
  BY <1>1, <1>3, <1>5

\* The steps of a write.
LEMMA WriteShapes ==
  ASSUME BoardShapes, NEW c \in Calls,
         Prime(c) \/ CreateTmp(c) \/ FillTmp(c) \/ Rename(c) \/ WriteFails(c)
  PROVE  /\ BoardShapes' /\ call[c] \in WriteCalls /\ UNCHANGED <<oplog, task, server>>
         /\ \A d \in Calls \ {c} : call'[d] = call[d]
         /\ call'[c].key = call[c].key /\ call'[c].val = call[c].val
         /\ Undisturbed' => Undisturbed /\ call'[c].pc \in {"create", "fill", "rename", "log"}
         /\ env'.crashes = 0 => env.crashes = 0
         /\ call'[c].pc # "ok"
<1>0. call[c] \in CallRows /\ tmp \in [Calls -> Contents \cup {Absent, Half}]
      /\ disk \in [Keys -> Contents \cup {Absent}] /\ seen \in [Keys -> Contents \cup {Absent}]
      /\ oplog \in Seq(OpRows) /\ undelivered \subseteq Keys
  BY DEF BoardShapes
<1>1. call[c] \in WriteCalls
  BY <1>0, CallKinds DEF Prime, CreateTmp, FillTmp, Rename, WriteFails
<1>2. call[c].key \in Keys /\ call[c].val \in Contents
  BY <1>1 DEF WriteCalls
<1>3. CASE Prime(c)
  <2>1. /\ CallTo(c, "create") /\ seen' = [seen EXCEPT ![call[c].key] = call[c].val]
        /\ UNCHANGED <<disk, tmp, oplog, task, undelivered, server, env>>
    BY <1>3 DEF Prime
  <2>2. /\ call' \in [Calls -> CallRows] /\ \A d \in Calls \ {c} : call'[d] = call[d]
        /\ call'[c].pc = "create" /\ call'[c].key = call[c].key /\ call'[c].val = call[c].val
    BY <1>1, <2>1, CallMoves
  <2>3. seen' \in [Keys -> Contents \cup {Absent}]
    BY <1>0, <1>2, <2>1
  <2>4. BoardShapes'
    BY <1>0, <2>1, <2>2, <2>3, EnvGrows, ShapesOfCall
  <2>5. QED
    BY <1>1, <2>1, <2>2, <2>4 DEF Undisturbed
<1>4. CASE CreateTmp(c) \/ FillTmp(c)
  <2>1. PICK p \in {"fill", "rename"}, x \in {Half, call[c].val} :
          /\ CallTo(c, p) /\ tmp' = [tmp EXCEPT ![c] = x] /\ (p = "rename" => x = call[c].val)
          /\ UNCHANGED <<disk, seen, oplog, task, undelivered, server, env>>
    BY <1>4 DEF CreateTmp, FillTmp
  <2>2. /\ call' \in [Calls -> CallRows] /\ \A d \in Calls \ {c} : call'[d] = call[d]
        /\ call'[c].pc = p /\ call'[c].key = call[c].key /\ call'[c].val = call[c].val
    BY <1>1, <2>1, CallMoves
  <2>3. /\ tmp' \in [Calls -> Contents \cup {Absent, Half}] /\ tmp'[c] = x
        /\ \A d \in Calls \ {c} : tmp'[d] = tmp[d]
    BY <1>0, <1>2, <2>1
  <2>4. BoardShapes'
    BY <1>0, <2>1, <2>2, <2>3, EnvGrows, ShapesOfCall
  <2>5. QED
    BY <1>1, <2>1, <2>2, <2>4 DEF Undisturbed
<1>5. CASE Rename(c)
  <2>1. /\ CallTo(c, "log") /\ tmp' = [tmp EXCEPT ![c] = Absent] /\ Changed(call[c].key, tmp[c])
        /\ UNCHANGED <<seen, oplog, task, server, env>> /\ call[c].pc = "rename"
    BY <1>5 DEF Rename
  <2>2. /\ call' \in [Calls -> CallRows] /\ \A d \in Calls \ {c} : call'[d] = call[d]
        /\ call'[c].pc = "log" /\ call'[c].key = call[c].key /\ call'[c].val = call[c].val
    BY <1>1, <2>1, CallMoves
  <2>3. tmp[c] = call[c].val
    BY <2>1 DEF BoardShapes
  <2>4. /\ tmp' \in [Calls -> Contents \cup {Absent, Half}] /\ \A d \in Calls \ {c} : tmp'[d] = tmp[d]
        /\ disk' \in [Keys -> Contents \cup {Absent}] /\ undelivered' \subseteq Keys
    BY <1>0, <1>2, <2>1, <2>3 DEF Changed
  <2>5. BoardShapes'
    BY <1>0, <2>1, <2>2, <2>4, EnvGrows, ShapesOfCall
  <2>6. QED
    BY <1>1, <2>1, <2>2, <2>5 DEF Undisturbed
<1>6. CASE WriteFails(c)
  <2>1. /\ CallTo(c, "error") /\ tmp' = [tmp EXCEPT ![c] = Absent] /\ Fault
        /\ UNCHANGED <<disk, seen, oplog, task, undelivered, server>>
    BY <1>6 DEF WriteFails
  <2>2. /\ call' \in [Calls -> CallRows] /\ \A d \in Calls \ {c} : call'[d] = call[d]
        /\ call'[c].pc = "error" /\ call'[c].key = call[c].key /\ call'[c].val = call[c].val
    BY <1>1, <2>1, CallMoves
  <2>3. tmp' \in [Calls -> Contents \cup {Absent, Half}] /\ \A d \in Calls \ {c} : tmp'[d] = tmp[d]
    BY <1>0, <2>1
  <2>4. /\ env' \in [requests : Nat, edits : Nat, faults : Nat, crashes : Nat]
        /\ ~Undisturbed' /\ (env'.crashes = 0 => env.crashes = 0)
    BY <2>1, EnvGrows
  <2>5. BoardShapes'
    BY <1>0, <2>1, <2>2, <2>3, <2>4, ShapesOfCall
  <2>6. QED
    BY <1>1, <2>1, <2>2, <2>4, <2>5
<1>7. QED
  BY <1>3, <1>4, <1>5, <1>6

\* The steps that remove a file, log a row or drop a direction.
LEMMA RecordShapes ==
  ASSUME BoardShapes, NEW c \in Calls,
         RemoveFile(c) \/ LogRow(c) \/ LogFails(c) \/ DropFiles(c)
  PROVE  /\ BoardShapes' /\ UNCHANGED <<tmp, seen, task, server>>
         /\ \A d \in Calls \ {c} : call'[d] = call[d]
         /\ call'[c].key = call[c].key /\ call'[c].val = call[c].val /\ call'[c].op = call[c].op
         /\ Undisturbed' => Undisturbed
         /\ env'.crashes = 0 => env.crashes = 0
         /\ \A i \in DOMAIN oplog : \E n \in DOMAIN oplog' : oplog'[n] = oplog[i]
<1>0. call[c] \in CallRows /\ tmp \in [Calls -> Contents \cup {Absent, Half}]
      /\ disk \in [Keys -> Contents \cup {Absent}] /\ seen \in [Keys -> Contents \cup {Absent}]
      /\ oplog \in Seq(OpRows) /\ undelivered \subseteq Keys
  BY DEF BoardShapes
<1>1. CASE RemoveFile(c)
  <2>1. /\ CallTo(c, "log") /\ Changed(call[c].key, Absent) /\ call[c] \in DeleteCalls
        /\ UNCHANGED <<tmp, seen, oplog, task, server, env>>
    BY <1>0, <1>1, CallKinds DEF RemoveFile
  <2>2. /\ call' \in [Calls -> CallRows] /\ \A d \in Calls \ {c} : call'[d] = call[d]
        /\ call'[c].pc = "log" /\ call'[c].key = call[c].key /\ call'[c].val = call[c].val
        /\ call'[c].op = call[c].op
    BY <2>1, CallMoves
  <2>3. disk' \in [Keys -> Contents \cup {Absent}] /\ undelivered' \subseteq Keys
    BY <1>0, <2>1, CallsHaveRows DEF Changed
  <2>4. BoardShapes'
    BY <1>0, <2>1, <2>2, <2>3, EnvGrows, ShapesOfCall
  <2>5. QED
    BY <2>1, <2>2, <2>4 DEF Undisturbed
<1>2. CASE LogRow(c) \/ LogFails(c)
  <2>1. /\ CallTo(c, "announce") /\ call[c] \in WriteCalls \cup DeleteCalls
        /\ UNCHANGED <<disk, tmp, seen, undelivered, task, server>>
        /\ UNCHANGED env \/ Fault
        /\ UNCHANGED oplog \/ Append1(OpRow(call[c].key, call[c].op, call[c].val))
    BY <1>0, <1>2, CallKinds DEF LogRow, LogFails
  <2>2. /\ call' \in [Calls -> CallRows] /\ \A d \in Calls \ {c} : call'[d] = call[d]
        /\ call'[c].pc = "announce" /\ call'[c].key = call[c].key /\ call'[c].val = call[c].val
        /\ call'[c].op = call[c].op
    BY <2>1, CallMoves
  <2>3. oplog' \in Seq(OpRows) /\ \A i \in DOMAIN oplog : \E n \in DOMAIN oplog' : oplog'[n] = oplog[i]
    <3>1. OpRow(call[c].key, call[c].op, call[c].val) \in OpRows
      BY <2>1, CallsHaveRows
    <3>2. CASE UNCHANGED oplog
      BY <1>0, <3>2
    <3>3. CASE Append1(OpRow(call[c].key, call[c].op, call[c].val))
      BY <1>0, <3>1, <3>3, LogGrows DEF Append1
    <3>4. QED
      BY <2>1, <3>2, <3>3
  <2>4. /\ env' \in [requests : Nat, edits : Nat, faults : Nat, crashes : Nat]
        /\ Undisturbed' => Undisturbed
        /\ env'.crashes = 0 => env.crashes = 0
    BY <2>1, EnvGrows
  <2>5. BoardShapes'
    BY <1>0, <2>1, <2>2, <2>3, <2>4, ShapesOfCall
  <2>6. QED
    BY <2>1, <2>2, <2>3, <2>4, <2>5
<1>3. CASE DropFiles(c)
  <2>1. /\ CallTo(c, "ok") /\ call[c] \in DropCalls
        /\ disk' = [k \in Keys |-> IF k \in Direction THEN Absent ELSE disk[k]]
        /\ undelivered' = undelivered \cup {k \in Direction : disk[k] # Absent}
        /\ UNCHANGED <<tmp, seen, oplog, task, server, env>>
    BY <1>0, <1>3, CallKinds DEF DropFiles
  <2>2. /\ call' \in [Calls -> CallRows] /\ \A d \in Calls \ {c} : call'[d] = call[d]
        /\ call'[c].pc = "ok" /\ call'[c].key = call[c].key /\ call'[c].val = call[c].val
        /\ call'[c].op = call[c].op
    BY <2>1, CallMoves
  <2>3. disk' \in [Keys -> Contents \cup {Absent}] /\ undelivered' \subseteq Keys
    BY <1>0, <2>1, BlackboardAssumption
  <2>4. BoardShapes'
    BY <1>0, <2>1, <2>2, <2>3, EnvGrows, ShapesOfCall
  <2>5. QED
    BY <2>1, <2>2, <2>4 DEF Undisturbed
<1>4. QED
  BY <1>1, <1>2, <1>3

\* The rows of a direction go, and no others.
LEMMA DropShapes ==
  ASSUME BoardShapes, NEW c \in Calls, DropRows(c)
  PROVE  /\ BoardShapes' /\ UNCHANGED <<disk, tmp, seen, undelivered, task, server>>
         /\ \A d \in Calls \ {c} : call'[d] = call[d]
         /\ call[c].pc \in {"free", "ok", "error", "lost"} /\ call'[c].pc = "rmdir"
         /\ server.phase = "up"
         /\ Undisturbed' => Undisturbed
         /\ env'.crashes = 0 => env.crashes = 0
         /\ \A i \in DOMAIN oplog : oplog[i].key \in Direction \/ \E n \in DOMAIN oplog' : oplog'[n] = oplog[i]
<1>0. /\ tmp \in [Calls -> Contents \cup {Absent, Half}]
      /\ disk \in [Keys -> Contents \cup {Absent}] /\ seen \in [Keys -> Contents \cup {Absent}]
      /\ oplog \in Seq(OpRows) /\ undelivered \subseteq Keys
  BY DEF BoardShapes
<1>  DEFINE r == [pc |-> "rmdir", op |-> "drop", key |-> "", val |-> ""]
            ids == {i \in DOMAIN oplog : oplog[i].key \notin Direction}
<1>1. /\ UNCHANGED <<disk, tmp, seen, undelivered, task, server>> /\ server.phase = "up"
      /\ env' = [env EXCEPT !.requests = @ + 1] /\ call' = [call EXCEPT ![c] = r]
      /\ oplog' = LogOf(ids) /\ call[c].pc \in {"free", "ok", "error", "lost"}
  BY DEF DropRows, Accept
<1>2. r \in CallRows /\ r.pc = "rmdir"
  <2>1. r \in DropCalls
    BY DEF DropCalls
  <2>2. QED
    BY <2>1 DEF CallRows
<1>3. ids \in SUBSET DOMAIN oplog /\ \A i \in DOMAIN oplog : oplog[i].key \in Direction \/ i \in ids
  OBVIOUS
<1>  HIDE DEF r, ids
<1>4. call' \in [Calls -> CallRows] /\ call'[c] = r /\ \A d \in Calls \ {c} : call'[d] = call[d]
  BY <1>1, <1>2, CallStarts
<1>5. oplog' \in Seq(OpRows) /\ \A i \in ids : \E n \in DOMAIN oplog' : oplog'[n] = oplog[i]
  BY <1>0, <1>1, <1>3, LogIsKept
<1>6. /\ env' \in [requests : Nat, edits : Nat, faults : Nat, crashes : Nat]
      /\ Undisturbed' => Undisturbed
      /\ env'.crashes = 0 => env.crashes = 0
  BY <1>1, EnvGrows
<1>7. BoardShapes'
  BY <1>0, <1>1, <1>2, <1>4, <1>5, <1>6, ShapesOfCall
<1>8. QED
  BY <1>1, <1>2, <1>3, <1>4, <1>5, <1>6, <1>7

\* A task changes and with it none of the shared state but what is given.
LEMMA ShapesOfTask ==
  ASSUME BoardShapes, task' \in [Tasks -> TaskRows],
         seen' \in [Keys -> Contents \cup {Absent}], oplog' \in Seq(OpRows),
         UNCHANGED <<disk, tmp, call, server>>, undelivered' \subseteq Keys,
         env' \in [requests : Nat, edits : Nat, faults : Nat, crashes : Nat]
  PROVE  BoardShapes'
  BY DEF BoardShapes

\* The steps of the watcher that write nothing.
LEMMA LookShapes ==
  ASSUME BoardShapes, NEW t \in Tasks,
         TaskRead(t) \/ TaskCompare(t) \/ TaskAnnounce(t) \/ \E k \in Keys : Dispatch(t, k)
  PROVE  /\ BoardShapes' /\ UNCHANGED <<disk, tmp, seen, oplog, call, server, env>>
         /\ \A u \in Tasks \ {t} : task'[u] = task[u]
         /\ task[t].pc # "insert" /\ task'[t].pc \in {"free", "read", "compare", "mark"}
<1>0. /\ task[t] \in TaskRows /\ seen \in [Keys -> Contents \cup {Absent}] /\ oplog \in Seq(OpRows)
      /\ undelivered \subseteq Keys /\ disk \in [Keys -> Contents \cup {Absent}]
      /\ env \in [requests : Nat, edits : Nat, faults : Nat, crashes : Nat]
  BY DEF BoardShapes
<1>1. /\ UNCHANGED <<disk, tmp, seen, oplog, call, server, env>> /\ undelivered' \subseteq Keys
      /\ task[t].pc # "insert"
  BY <1>0, ReconcileKinds DEF TaskRead, TaskCompare, TaskAnnounce, Dispatch, NoTask
<1>2. /\ task' \in [Tasks -> TaskRows] /\ \A u \in Tasks \ {t} : task'[u] = task[u]
      /\ task'[t].pc \in {"free", "read", "compare", "mark"}
  <2>1. CASE FinishTask(t)
    BY <2>1, ReconcileEnds
  <2>2. CASE TaskRead(t) /\ ~FinishTask(t)
    <3>1. /\ task[t].pc = "read" /\ disk[task[t].key] # Absent
          /\ task' = [task EXCEPT ![t].pc = "compare", ![t].val = disk[task[t].key]]
      BY <2>2 DEF TaskRead
    <3>2. disk[task[t].key] \in Contents
      BY <1>0, <3>1, ReconcileKinds
    <3>3. QED
      BY <3>1, <3>2, ReconcileReads
  <2>3. CASE TaskCompare(t) /\ ~FinishTask(t)
    <3>1. task[t].pc = "compare" /\ task' = [task EXCEPT ![t].pc = "mark"]
      BY <2>3 DEF TaskCompare
    <3>2. QED
      BY <3>1, ReconcileMoves
  <2>4. CASE TaskAnnounce(t)
    BY <2>1, <2>4 DEF TaskAnnounce
  <2>5. CASE \E k \in Keys : Dispatch(t, k)
    <3>1. PICK k \in Keys : Dispatch(t, k)
      BY <2>5
    <3>  DEFINE r == [pc |-> "read", key |-> k, val |-> Absent]
    <3>2. r \in TaskRows /\ r.pc = "read" /\ task' = [task EXCEPT ![t] = r]
      BY <3>1 DEF TaskRows, Dispatch
    <3>  HIDE DEF r
    <3>3. QED
      BY <3>2, ReconcileGoes
  <2>6. QED
    BY <2>1, <2>2, <2>3, <2>4, <2>5
<1>3. BoardShapes'
  BY <1>0, <1>1, <1>2, ShapesOfTask
<1>4. QED
  BY <1>1, <1>2, <1>3

\* The steps of the watcher that write.
LEMMA MarkShapes ==
  ASSUME BoardShapes, NEW t \in Tasks, TaskMark(t) \/ TaskInsert(t) \/ TaskInsertFails(t)
  PROVE  /\ BoardShapes' /\ UNCHANGED <<disk, tmp, call, server, undelivered, published>>
         /\ \A u \in Tasks \ {t} : task'[u] = task[u]
         /\ task[t].key \in Keys /\ task[t].val \in Contents
         /\ Undisturbed' => /\ Undisturbed /\ ~TaskInsertFails(t)
                            /\ task'[t].key = task[t].key /\ task'[t].val = task[t].val
         /\ TaskMark(t) => task'[t].pc = "insert"
         /\ TaskInsert(t) => \E n \in DOMAIN oplog' :
              oplog'[n].key = task[t].key /\ oplog'[n].val = task[t].val
         /\ env'.crashes = 0 => env.crashes = 0
         /\ \A i \in DOMAIN oplog : \E n \in DOMAIN oplog' : oplog'[n] = oplog[i]
<1>0. /\ task[t] \in TaskRows /\ seen \in [Keys -> Contents \cup {Absent}] /\ oplog \in Seq(OpRows)
      /\ undelivered \subseteq Keys
  BY DEF BoardShapes
<1>1. /\ task[t].key \in Keys /\ task[t].val \in Contents /\ OpRow(task[t].key, "external", task[t].val) \in OpRows
      /\ OpRow(task[t].key, "external", task[t].val).key = task[t].key
      /\ OpRow(task[t].key, "external", task[t].val).val = task[t].val
  BY <1>0, ReconcileKinds DEF TaskMark, TaskInsert, TaskInsertFails
<1>2. UNCHANGED <<disk, tmp, call, server, undelivered, published>>
  BY DEF TaskMark, TaskInsert, TaskInsertFails
<1>3. CASE TaskMark(t)
  <2>1. /\ seen' = [seen EXCEPT ![task[t].key] = task[t].val] /\ UNCHANGED <<oplog, env>>
        /\ task[t].pc = "mark" /\ task' = [task EXCEPT ![t].pc = "insert"]
    BY <1>3 DEF TaskMark
  <2>2. /\ task' \in [Tasks -> TaskRows] /\ \A u \in Tasks \ {t} : task'[u] = task[u]
        /\ task'[t].pc = "insert" /\ task'[t].key = task[t].key /\ task'[t].val = task[t].val
    BY <2>1, ReconcileMoves
  <2>3. seen' \in [Keys -> Contents \cup {Absent}]
    BY <1>0, <1>1, <2>1
  <2>4. BoardShapes'
    BY <1>0, <1>2, <2>1, <2>2, <2>3, EnvGrows, ShapesOfTask
  <2>5. ~TaskInsert(t) /\ ~TaskInsertFails(t)
    BY <2>1 DEF TaskInsert, TaskInsertFails
  <2>6. QED
    BY <1>1, <1>2, <2>1, <2>2, <2>4, <2>5 DEF Undisturbed
<1>4. CASE TaskInsert(t)
  <2>1. /\ Append1(OpRow(task[t].key, "external", task[t].val)) /\ UNCHANGED <<seen, env>>
        /\ task[t].pc = "insert" /\ task' = [task EXCEPT ![t].pc = "announce"]
    BY <1>4 DEF TaskInsert
  <2>2. /\ task' \in [Tasks -> TaskRows] /\ \A u \in Tasks \ {t} : task'[u] = task[u]
        /\ task'[t].pc = "announce" /\ task'[t].key = task[t].key /\ task'[t].val = task[t].val
    BY <2>1, ReconcileMoves
  <2>3. /\ oplog' \in Seq(OpRows) /\ \A i \in DOMAIN oplog : \E n \in DOMAIN oplog' : oplog'[n] = oplog[i]
        /\ \E n \in DOMAIN oplog' : oplog'[n] = OpRow(task[t].key, "external", task[t].val)
    BY <1>0, <1>1, <2>1, LogGrows DEF Append1
  <2>4. BoardShapes'
    BY <1>0, <1>2, <2>1, <2>2, <2>3, EnvGrows, ShapesOfTask
  <2>5. ~TaskMark(t)
    BY <2>1 DEF TaskMark
  <2>6. ~TaskInsertFails(t) \/ ~Undisturbed'
    BY <2>2, EnvGrows DEF TaskInsertFails
  <2>7. QED
    BY <1>1, <1>2, <2>1, <2>2, <2>3, <2>4, <2>5, <2>6 DEF Undisturbed
<1>5. CASE TaskInsertFails(t)
  <2>1. Fault /\ FinishTask(t) /\ UNCHANGED <<seen, oplog>> /\ task[t].pc = "insert"
    BY <1>5 DEF TaskInsertFails
  <2>2. /\ task' \in [Tasks -> TaskRows] /\ \A u \in Tasks \ {t} : task'[u] = task[u]
        /\ task'[t].pc = "free"
    BY <2>1, ReconcileEnds
  <2>3. /\ env' \in [requests : Nat, edits : Nat, faults : Nat, crashes : Nat]
        /\ ~Undisturbed' /\ (env'.crashes = 0 => env.crashes = 0)
    BY <2>1, EnvGrows
  <2>4. BoardShapes'
    BY <1>0, <1>2, <2>1, <2>2, <2>3, ShapesOfTask
  <2>5. ~TaskMark(t)
    BY <2>1 DEF TaskMark
  <2>6. TaskInsert(t) => task'[t].pc = "announce"
    BY <2>1, ReconcileMoves DEF TaskInsert
  <2>7. ~TaskInsert(t)
    BY <2>2, <2>6
  <2>8. QED
    BY <1>1, <1>2, <2>1, <2>2, <2>3, <2>4, <2>5, <2>7
<1>6. QED
  BY <1>3, <1>4, <1>5

\* An edit, and a crash.
LEMMA EditShapes ==
  ASSUME BoardShapes, NEW k \in Keys, NEW v \in Contents \cup {Absent}, Edit(k, v)
  PROVE  /\ BoardShapes' /\ UNCHANGED <<seen, oplog, call, task, published, server>>
         /\ disk' = [disk EXCEPT ![k] = v] /\ undelivered' = undelivered \cup {k}
         /\ Undisturbed' => Undisturbed
         /\ env'.crashes = 0 => env.crashes = 0
<1>1. /\ env' = [env EXCEPT !.edits = @ + 1] /\ UNCHANGED <<tmp, seen, oplog, call, task, published, server>>
      /\ disk' = [disk EXCEPT ![k] = v] /\ undelivered' = undelivered \cup {k}
  BY DEF Edit, Changed
<1>2. /\ env' \in [requests : Nat, edits : Nat, faults : Nat, crashes : Nat]
      /\ Undisturbed' => Undisturbed
      /\ env'.crashes = 0 => env.crashes = 0
  BY <1>1, EnvGrows
<1>3. disk' \in [Keys -> Contents \cup {Absent}] /\ undelivered' \subseteq Keys
  BY <1>1 DEF BoardShapes
<1>4. BoardShapes'
  BY <1>1, <1>2, <1>3 DEF BoardShapes
<1>5. QED
  BY <1>1, <1>2, <1>4

LEMMA CrashShapes ==
  ASSUME BoardShapes, Crash
  PROVE  /\ BoardShapes' /\ ~Undisturbed' /\ env'.crashes # 0 /\ UNCHANGED oplog
         /\ \A c \in Calls : call'[c].pc = "lost"
         /\ server'.phase = "down"
<1>1. /\ env' = [env EXCEPT !.crashes = @ + 1] /\ server' = [server EXCEPT !.phase = "down"]
      /\ seen' = [k \in Keys |-> Absent] /\ call' = [c \in Calls |-> [call[c] EXCEPT !.pc = "lost"]]
      /\ task' = [t \in Tasks |-> NoTask] /\ undelivered' = {} /\ UNCHANGED <<disk, tmp, oplog>>
  BY DEF Crash
<1>2. env' \in [requests : Nat, edits : Nat, faults : Nat, crashes : Nat] /\ env'.crashes # 0
  <2>1. env'.crashes = env.crashes + 1 /\ env.crashes \in Nat
    BY <1>1 DEF BoardShapes
  <2>2. env' \in [requests : Nat, edits : Nat, faults : Nat, crashes : Nat]
    BY <1>1, EnvGrows
  <2>3. env.crashes + 1 # 0
    BY <2>1
  <2>4. QED
    BY <2>1, <2>2, <2>3
<1>3. server' \in Servers /\ server'.phase = "down"
  BY <1>1 DEF BoardShapes, Servers
<1>4. call' \in [Calls -> CallRows] /\ \A c \in Calls : call'[c].pc = "lost"
  BY <1>1, CallsAreLost
<1>5. seen' \in [Keys -> Contents \cup {Absent}] /\ task' \in [Tasks -> TaskRows]
  BY <1>1 DEF TaskRows
<1>6. BoardShapes'
  BY <1>1, <1>2, <1>3, <1>4, <1>5 DEF BoardShapes
<1>7. QED
  BY <1>1, <1>2, <1>3, <1>4, <1>6 DEF Undisturbed

\* The steps of a boot, on the shapes and on what the log knows.
LEMMA KeysAreKeys ==
  ASSUME BoardShapes
  PROVE  LoggedKeys \subseteq Keys /\ KnownKeys \subseteq LoggedKeys
<1>1. \A i \in DOMAIN oplog : oplog[i] \in OpRows
  BY DEF BoardShapes
<1>2. LoggedKeys \subseteq Keys
  BY <1>1 DEF LoggedKeys, OpRows
<1>3. LatestIds \subseteq DOMAIN oplog
  <2> SUFFICES ASSUME NEW k \in LoggedKeys
               PROVE  (CHOOSE i \in RowsOf(k) : \A j \in RowsOf(k) : j <= i) \in DOMAIN oplog
    BY DEF LatestIds
  <2>1. RowsOf(k) # {}
    BY DEF LoggedKeys, RowsOf
  <2>2. \E i \in RowsOf(k) : \A j \in RowsOf(k) : j <= i
    BY <2>1, LatestExists DEF BoardShapes
  <2>3. (CHOOSE i \in RowsOf(k) : \A j \in RowsOf(k) : j <= i) \in RowsOf(k)
    BY <2>2
  <2>4. QED
    BY <2>3 DEF RowsOf
<1>4. KnownKeys \subseteq LoggedKeys
  BY <1>3 DEF KnownKeys, LoggedKeys
<1>5. QED
  BY <1>2, <1>4

LEMMA BootShapes ==
  ASSUME BoardShapes, BootIsKept, BootKnown \/ BootWalk \/ Backfill \/ BackfillFails
  PROVE  /\ BoardShapes' /\ BootIsKept' /\ UNCHANGED <<call, published>>
         /\ server.phase # "up" /\ env'.crashes = env.crashes
         /\ \A i \in DOMAIN oplog : \E n \in DOMAIN oplog' : oplog'[n] = oplog[i]
<1>0. /\ server \in Servers /\ oplog \in Seq(OpRows) /\ disk \in [Keys -> Contents \cup {Absent}]
      /\ undelivered \subseteq Keys
      /\ env \in [requests : Nat, edits : Nat, faults : Nat, crashes : Nat]
  BY DEF BoardShapes
<1>1. ASSUME oplog' \in Seq(OpRows), server' \in Servers, undelivered' \subseteq Keys,
             UNCHANGED <<disk, tmp, seen, call, task>>,
             env' \in [requests : Nat, edits : Nat, faults : Nat, crashes : Nat]
      PROVE  BoardShapes'
  BY <1>1 DEF BoardShapes
<1>2. CASE BootKnown
  <2>1. /\ UNCHANGED <<disk, tmp, seen, oplog, call, task, published, env>> /\ undelivered' = {}
        /\ server.phase = "down"
        /\ server' = [phase |-> "walk", known |-> KnownKeys, files |-> {}, found |-> {}, missed |-> {}]
    BY <1>2 DEF BootKnown
  <2>2. KnownKeys \subseteq LoggedKeys /\ LoggedKeys \subseteq Keys /\ LoggedKeys' = LoggedKeys
    BY <2>1, KeysAreKeys DEF LoggedKeys
  <2>3. server' \in Servers
    BY <2>1, <2>2 DEF Servers
  <2>4. BootIsKept'
    BY <2>1, <2>2 DEF BootIsKept
  <2>5. BoardShapes'
    BY <1>0, <1>1, <2>1, <2>3
  <2>6. QED
    BY <2>1, <2>4, <2>5
<1>3. CASE BootWalk
  <2>1. /\ UNCHANGED <<disk, tmp, seen, oplog, call, task, undelivered, published, env>>
        /\ server.phase = "walk"
        /\ server' = [server EXCEPT !.phase = "backfill", !.found = {k \in Keys : disk[k] # Absent},
             !.files = {[key |-> k, val |-> disk[k]] : k \in {l \in Keys : disk[l] # Absent}}]
    BY <1>3 DEF BootWalk
  <2>  DEFINE F == {[key |-> k, val |-> disk[k]] : k \in {l \in Keys : disk[l] # Absent}}
  <2>2. F \subseteq WalkFiles /\ {k \in Keys : disk[k] # Absent} \subseteq {f.key : f \in F}
    <3>1. \A k \in Keys : disk[k] # Absent => [key |-> k, val |-> disk[k]] \in WalkFiles
      BY <1>0 DEF WalkFiles
    <3>2. F \subseteq WalkFiles
      BY <3>1
    <3>3. ASSUME NEW k \in Keys, disk[k] # Absent PROVE k \in {f.key : f \in F}
      <4>1. [key |-> k, val |-> disk[k]] \in F /\ [key |-> k, val |-> disk[k]].key = k
        BY <3>3
      <4>  HIDE DEF F
      <4>2. QED
        BY <4>1
    <3>4. QED
      BY <3>2, <3>3
  <2>3. /\ server' \in Servers /\ server'.files = F /\ server'.known = server.known
        /\ server'.found = {k \in Keys : disk[k] # Absent}
    BY <1>0, <2>1, <2>2 DEF Servers
  <2>4. LoggedKeys' = LoggedKeys
    BY <2>1 DEF LoggedKeys
  <2>  HIDE DEF F
  <2>5. BootIsKept'
    BY <2>1, <2>2, <2>3, <2>4 DEF BootIsKept
  <2>6. BoardShapes'
    BY <1>0, <1>1, <2>1, <2>3
  <2>7. QED
    BY <2>1, <2>5, <2>6
<1>4. CASE Backfill
  <2>1. /\ UNCHANGED <<disk, tmp, seen, call, task, undelivered, published, env>>
        /\ server.phase = "backfill"
    BY <1>4 DEF Backfill
  <2>2. PICK f \in server.files :
          /\ oplog' = IF f.key \in server.known THEN oplog ELSE Append(oplog, OpRow(f.key, "reconcile", f.val))
          /\ server' = [server EXCEPT !.files = @ \ {f}]
    BY <1>4 DEF Backfill
  <2>3. f \in WalkFiles /\ OpRow(f.key, "reconcile", f.val) \in OpRows
        /\ OpRow(f.key, "reconcile", f.val).key = f.key
    BY <1>0 DEF Servers, WalkFiles, OpRow, OpRows
  <2>4. /\ server' \in Servers /\ server'.phase = "backfill" /\ server'.known = server.known
        /\ server'.found = server.found /\ server'.missed = server.missed
        /\ server'.files = server.files \ {f}
    BY <1>0, <2>1, <2>2 DEF Servers
  <2>5. /\ oplog' \in Seq(OpRows) /\ \A i \in DOMAIN oplog : \E n \in DOMAIN oplog' : oplog'[n] = oplog[i]
        /\ f.key \in server.known \/ f.key \in LoggedKeys'
    <3>1. CASE f.key \in server.known
      BY <1>0, <2>2, <3>1
    <3>2. CASE f.key \notin server.known
      <4>1. oplog' = Append(oplog, OpRow(f.key, "reconcile", f.val))
        BY <2>2, <3>2
      <4>2. /\ oplog' \in Seq(OpRows) /\ \A i \in DOMAIN oplog : \E n \in DOMAIN oplog' : oplog'[n] = oplog[i]
            /\ \E n \in DOMAIN oplog' : oplog'[n] = OpRow(f.key, "reconcile", f.val)
        BY <1>0, <2>3, <4>1, LogGrows
      <4>3. f.key \in LoggedKeys'
        BY <2>3, <4>2 DEF LoggedKeys
      <4>4. QED
        BY <4>2, <4>3
    <3>3. QED
      BY <3>1, <3>2
  <2>6. LoggedKeys \subseteq LoggedKeys'
    BY <2>5, KeysAndTexts
  <2>7. BootIsKept'
    <3>1. server.known \subseteq LoggedKeys
          /\ server.found \subseteq LoggedKeys \cup server.missed \cup {g.key : g \in server.files}
      BY <2>1 DEF BootIsKept
    <3>2. f.key \in LoggedKeys'
      BY <2>5, <2>6, <3>1
    <3>3. QED
      BY <2>4, <2>6, <3>1, <3>2 DEF BootIsKept
  <2>8. BoardShapes'
    BY <1>0, <1>1, <2>1, <2>4, <2>5
  <2>9. QED
    BY <2>1, <2>5, <2>7, <2>8
<1>5. CASE BackfillFails
  <2>1. /\ UNCHANGED <<disk, tmp, seen, oplog, call, task, undelivered, published>> /\ Fault
        /\ server.phase = "backfill"
    BY <1>5 DEF BackfillFails
  <2>2. PICK f \in server.files :
          server' = [server EXCEPT !.files = @ \ {f}, !.missed = @ \cup {f.key}]
    BY <1>5 DEF BackfillFails
  <2>3. f \in WalkFiles /\ f.key \in Keys
    BY <1>0 DEF Servers, WalkFiles
  <2>4. /\ server' \in Servers /\ server'.phase = "backfill" /\ server'.known = server.known
        /\ server'.found = server.found /\ server'.missed = server.missed \cup {f.key}
        /\ server'.files = server.files \ {f}
    BY <1>0, <2>1, <2>2, <2>3 DEF Servers
  <2>5. LoggedKeys' = LoggedKeys
    BY <2>1 DEF LoggedKeys
  <2>6. BootIsKept'
    BY <2>1, <2>4, <2>5 DEF BootIsKept
  <2>7. env' \in [requests : Nat, edits : Nat, faults : Nat, crashes : Nat] /\ env'.crashes = env.crashes
    BY <1>0, <2>1 DEF Fault
  <2>8. BoardShapes'
    BY <1>0, <1>1, <2>1, <2>4, <2>7
  <2>9. QED
    BY <2>1, <2>6, <2>7, <2>8
<1>6. QED
  BY <1>2, <1>3, <1>4, <1>5

\* Retention keeps the row that describes each key now.
LEMMA ServeShapes ==
  ASSUME BoardShapes, NEW cut, Serve(cut)
  PROVE  /\ BoardShapes' /\ UNCHANGED <<call, published, env>>
         /\ server.phase = "backfill" /\ server'.phase = "up" /\ server.files = {}
         /\ LoggedKeys \subseteq LoggedKeys'
<1>0. server \in Servers /\ oplog \in Seq(OpRows)
  BY DEF BoardShapes
<1>1. /\ UNCHANGED <<disk, tmp, seen, call, task, undelivered, published, env>>
      /\ server.phase = "backfill" /\ server.files = {} /\ server' = [server EXCEPT !.phase = "up"]
      /\ oplog' = LogOf(KeptAt(cut))
  BY DEF Serve
<1>2. server' \in Servers /\ server'.phase = "up"
  BY <1>0, <1>1 DEF Servers
<1>3. KeptAt(cut) \in SUBSET DOMAIN oplog
  BY DEF KeptAt
<1>4. oplog' \in Seq(OpRows) /\ \A i \in KeptAt(cut) : \E n \in DOMAIN oplog' : oplog'[n] = oplog[i]
  BY <1>0, <1>1, <1>3, LogIsKept
<1>5. \A k \in LoggedKeys : \E i \in KeptAt(cut) : oplog[i].key = k
  <2> SUFFICES ASSUME NEW k \in LoggedKeys PROVE \E i \in KeptAt(cut) : oplog[i].key = k
    OBVIOUS
  <2>1. RowsOf(k) # {}
    BY DEF LoggedKeys, RowsOf
  <2>2. PICK i \in RowsOf(k) : \A j \in RowsOf(k) : j <= i
    BY <1>0, <2>1, LatestExists
  <2>3. i \in KeptAt(cut) /\ oplog[i].key = k
    BY <2>2 DEF KeptAt, RowsOf
  <2>4. QED
    BY <2>3
<1>6. LoggedKeys \subseteq LoggedKeys'
  BY <1>4, <1>5 DEF LoggedKeys
<1>7. BoardShapes'
  BY <1>1, <1>2, <1>4 DEF BoardShapes
<1>8. QED
  BY <1>1, <1>2, <1>6, <1>7

-----------------------------------------------------------------------------
(* The steps, on the invariant.                                             *)

\* What a step leaves of the promises to record a text.
LEMMA ComesIsKept ==
  ASSUME \A i \in DOMAIN oplog : oplog[i].key \in Direction \/ \E n \in DOMAIN oplog' : oplog'[n] = oplog[i],
         \A c \in Calls : call[c].pc \in {"create", "fill", "rename", "log"} =>
           \/ /\ call'[c].pc \in {"create", "fill", "rename", "log"}
              /\ call'[c].key = call[c].key /\ call'[c].val = call[c].val
           \/ \E n \in DOMAIN oplog' : oplog'[n].key = call[c].key /\ oplog'[n].val = call[c].val,
         \A t \in Tasks : task[t].pc = "insert" =>
           \/ task'[t].pc = "insert" /\ task'[t].key = task[t].key /\ task'[t].val = task[t].val
           \/ \E n \in DOMAIN oplog' : oplog'[n].key = task[t].key /\ oplog'[n].val = task[t].val
  PROVE  \A k \in Keys \ Direction : \A v : Comes(k, v) => Comes(k, v)'
<1> SUFFICES ASSUME NEW k \in Keys \ Direction, NEW v, Comes(k, v) PROVE Comes(k, v)'
  OBVIOUS
<1>1. CASE Recorded(k, v)
  <2>1. Recorded(k, v)'
    BY <1>1 DEF Recorded, RowsOf
  <2>2. QED
    BY <2>1 DEF Comes
<1>2. CASE Writes(k, v)
  <2>1. Writes(k, v)' \/ Recorded(k, v)'
    BY <1>2 DEF Recorded, RowsOf, Writes
  <2>2. QED
    BY <2>1 DEF Comes
<1>3. CASE Inserts(k, v)
  <2>1. Inserts(k, v)' \/ Recorded(k, v)'
    BY <1>3 DEF Recorded, RowsOf, Inserts
  <2>2. QED
    BY <2>1 DEF Comes
<1>4. QED
  BY <1>1, <1>2, <1>3 DEF Comes

\* A text that comes to seen_sha or to the disk is promised or watched, and the
\* watch over one that stays ends in a promise.
LEMMA TextIsKept ==
  ASSUME TextComes, \A k \in Keys \ Direction : \A v : Comes(k, v) => Comes(k, v)',
         \A k \in Keys \ Direction : \A v : seen'[k] = v => v \in {seen[k], Absent} \/ Comes(k, v)',
         \A k \in Keys \ Direction : \A v : disk'[k] = v =>
           \/ v = Absent \/ Comes(k, v)' \/ Watched(k, v)'
           \/ v = disk[k] /\ ~Watched(k, v)
  PROVE  TextComes'
<1> SUFFICES ASSUME NEW k \in Keys \ Direction
             PROVE  /\ seen'[k] # Absent => Comes(k, seen[k])'
                    /\ disk'[k] # Absent => Comes(k, disk[k])' \/ Watched(k, disk[k])'
  BY DEF TextComes
<1>1. \A v : seen'[k] = v /\ v # Absent => Comes(k, v)'
  BY DEF TextComes
<1>2. \A v : disk'[k] = v /\ v # Absent => Comes(k, v)' \/ Watched(k, v)'
  BY DEF TextComes
<1>3. seen'[k] # Absent => Comes(k, seen[k])'
  BY <1>1 DEF Comes, Recorded, RowsOf, Writes, Inserts
<1>4. disk'[k] # Absent => Comes(k, disk[k])' \/ Watched(k, disk[k])'
  BY <1>2 DEF Comes, Recorded, RowsOf, Writes, Inserts, Watched
<1>5. QED
  BY <1>3, <1>4

\* A call that answers OK has been announced.
LEMMA OkIsKept ==
  ASSUME BoardShapes, OkIsAnnounced, NEW c \in Calls,
         \A d \in Calls \ {c} : call'[d] = call[d], published \subseteq published',
         call'[c].pc = "ok" /\ call'[c].op # "drop" =>
           OpRow(call'[c].key, call'[c].op, call'[c].val) \in published'
  PROVE  OkIsAnnounced'
  BY DEF OkIsAnnounced

\* What a step that keeps the server and the rows keeps.
LEMMA ServerIsKept ==
  ASSUME BoardShapes, UpUntilCrash, BootIsKept, UNCHANGED server,
         env'.crashes = 0 => env.crashes = 0,
         server.phase # "up" => \A i \in DOMAIN oplog : \E n \in DOMAIN oplog' : oplog'[n] = oplog[i]
  PROVE  UpUntilCrash' /\ BootIsKept'
<1>1. server.phase # "up" => LoggedKeys \subseteq LoggedKeys'
  BY KeysAndTexts
<1>2. BootIsKept'
  BY <1>1 DEF BootIsKept
<1>3. QED
  BY <1>2 DEF UpUntilCrash

LEMMA StartHolds ==
  ASSUME BoardInv, NEW c \in Calls,
         \/ \E k \in Keys : StartDelete(c, k) \/ StartCompact(c, k) \/ \E v \in Contents : StartWrite(c, k, v)
         \/ \E v \in Contents : Summarised(c, v)
         \/ NoSummary(c) \/ Announce(c)
  PROVE  BoardInv' /\ LoggedKeys \subseteq LoggedKeys'
<1>1. BoardShapes /\ UpUntilCrash /\ OkIsAnnounced /\ BootIsKept /\ (Undisturbed => TextComes)
  BY DEF BoardInv
<1>2. /\ BoardShapes' /\ UNCHANGED <<disk, tmp, seen, oplog, task, undelivered, server>>
      /\ \A d \in Calls \ {c} : call'[d] = call[d]
      /\ call[c].pc \notin {"create", "fill", "rename", "log"}
      /\ call'[c].pc \in {"prime", "remove", "summarise", "error", "ok"}
      /\ env' = env \/ env' = [env EXCEPT !.requests = @ + 1]
  BY <1>1, StartShapes
<1>3. /\ Undisturbed' => Undisturbed
      /\ env'.crashes = 0 => env.crashes = 0
  BY <1>1, <1>2, EnvGrows
<1>4. \A i \in DOMAIN oplog : \E n \in DOMAIN oplog' : oplog'[n] = oplog[i]
  BY <1>2
<1>5. UpUntilCrash' /\ BootIsKept'
  BY <1>1, <1>2, <1>3, <1>4, ServerIsKept
<1>6. OkIsAnnounced'
  <2>1. CASE Announce(c)
    <3>1. /\ CallTo(c, "ok") /\ published' = published \cup {OpRow(call[c].key, call[c].op, call[c].val)}
          /\ call[c].pc = "announce"
      BY <2>1 DEF Announce
    <3>2. call[c] \in WriteCalls \cup DeleteCalls
      BY <1>1, <3>1, CallKinds DEF BoardShapes
    <3>3. call'[c].op = call[c].op /\ call'[c].key = call[c].key /\ call'[c].val = call[c].val
      BY <1>1, <3>1, <3>2, CallMoves
    <3>4. OpRow(call'[c].key, call'[c].op, call'[c].val) \in published'
      BY <3>1, <3>3
    <3>5. QED
      BY <1>1, <1>2, <3>1, <3>4, OkIsKept
  <2>2. CASE ~Announce(c)
    <3>1. UNCHANGED published
      BY <2>2 DEF StartDelete, StartCompact, StartWrite, Summarised, NoSummary
    <3>2. call'[c].pc # "ok"
      <4>1. call[c].pc # "announce"
        BY <2>2 DEF StartDelete, StartCompact, StartWrite, Summarised, NoSummary, Accept
      <4>2. call \in [Calls -> CallRows] /\ call[c] \in CallRows
        BY <1>1 DEF BoardShapes
      <4>3. CASE NoSummary(c)
        <5>1. CallTo(c, "error") /\ call[c] \in CompactCalls
          BY <4>2, <4>3, CallKinds DEF NoSummary
        <5>2. QED
          BY <1>1, <5>1, CallMoves
      <4>4. CASE \E v \in Contents : Summarised(c, v)
        <5>1. PICK v \in Contents : Summarised(c, v)
          BY <4>4
        <5>2. call[c] \in CompactCalls
          BY <4>2, <5>1, CallKinds DEF Summarised
        <5>3. [call[c] EXCEPT !.pc = "prime", !.op = "write", !.val = v].pc = "prime"
          BY <5>2 DEF CompactCalls
        <5>4. QED
          BY <4>2, <5>1, <5>3 DEF Summarised
      <4>5. CASE \E k \in Keys : StartDelete(c, k) \/ StartCompact(c, k) \/ \E v \in Contents : StartWrite(c, k, v)
        <5>1. \E k, v : \/ call' = [call EXCEPT ![c] = [pc |-> "remove", op |-> "delete", key |-> k, val |-> v]]
                        \/ call' = [call EXCEPT ![c] = [pc |-> "summarise", op |-> "compact", key |-> k, val |-> v]]
                        \/ call' = [call EXCEPT ![c] = [pc |-> "prime", op |-> "write", key |-> k, val |-> v]]
          BY <4>5 DEF StartDelete, StartCompact, StartWrite
        <5>2. QED
          BY <4>2, <5>1
      <4>6. QED
        BY <2>2, <4>3, <4>4, <4>5
    <3>3. QED
      BY <1>1, <1>2, <3>1, <3>2, OkIsKept
  <2>3. QED
    BY <2>1, <2>2
<1>7. ASSUME Undisturbed' PROVE TextComes'
  <2>1. TextComes
    BY <1>1, <1>3, <1>7
  <2>2. \A k \in Keys \ Direction : \A v : Comes(k, v) => Comes(k, v)'
    BY <1>2, <1>4, ComesIsKept
  <2>3. \A k, v : Watched(k, v) => Watched(k, v)'
    BY <1>2 DEF Watched
  <2>4. QED
    BY <1>2, <2>1, <2>2, <2>3, TextIsKept
<1>8. QED
  BY <1>2, <1>4, <1>5, <1>6, <1>7, KeysAndTexts DEF BoardInv

LEMMA WriteHolds ==
  ASSUME BoardInv, NEW c \in Calls,
         Prime(c) \/ CreateTmp(c) \/ FillTmp(c) \/ Rename(c) \/ WriteFails(c)
  PROVE  BoardInv' /\ LoggedKeys \subseteq LoggedKeys'
<1>1. BoardShapes /\ UpUntilCrash /\ OkIsAnnounced /\ BootIsKept /\ (Undisturbed => TextComes)
  BY DEF BoardInv
<1>2. /\ BoardShapes' /\ call[c] \in WriteCalls /\ UNCHANGED <<oplog, task, server>>
      /\ \A d \in Calls \ {c} : call'[d] = call[d]
      /\ call'[c].key = call[c].key /\ call'[c].val = call[c].val
      /\ Undisturbed' => Undisturbed /\ call'[c].pc \in {"create", "fill", "rename", "log"}
      /\ env'.crashes = 0 => env.crashes = 0
      /\ call'[c].pc # "ok"
  BY <1>1, WriteShapes
<1>3. UNCHANGED published /\ undelivered \subseteq undelivered'
  BY DEF Prime, CreateTmp, FillTmp, Rename, WriteFails, Changed
<1>4. \A i \in DOMAIN oplog : \E n \in DOMAIN oplog' : oplog'[n] = oplog[i]
  BY <1>2
<1>5. UpUntilCrash' /\ BootIsKept'
  BY <1>1, <1>2, <1>4, ServerIsKept
<1>6. OkIsAnnounced'
  BY <1>1, <1>2, <1>3, OkIsKept
<1>7. ASSUME Undisturbed' PROVE TextComes'
  <2>1. TextComes /\ call'[c].pc \in {"create", "fill", "rename", "log"}
    BY <1>1, <1>2, <1>7
  <2>2. \A k \in Keys \ Direction : \A v : Comes(k, v) => Comes(k, v)'
    BY <1>2, <1>4, <2>1, ComesIsKept
  <2>3. \A k, v : Watched(k, v) => Watched(k, v)'
    BY <1>2, <1>3 DEF Watched
  <2>4. \A k \in Keys \ Direction : \A v : seen'[k] = v => v \in {seen[k], Absent} \/ Comes(k, v)'
    <3>1. CASE Prime(c)
      <4>1. \A k \in Keys : k # call[c].key => seen'[k] = seen[k]
        BY <1>1, <3>1 DEF Prime, BoardShapes
      <4>2. seen'[call[c].key] = call[c].val \/ call[c].key \notin Keys
        BY <1>1, <3>1 DEF Prime, BoardShapes
      <4>3. \A k, v : call[c].key = k /\ call[c].val = v => Comes(k, v)'
        BY <1>2, <2>1 DEF Writes, Comes
      <4>4. QED
        BY <4>1, <4>2, <4>3
    <3>2. CASE ~Prime(c)
      BY <3>2 DEF CreateTmp, FillTmp, Rename, WriteFails
    <3>3. QED
      BY <3>1, <3>2
  <2>5. \A k \in Keys : \A v : disk'[k] = v => v = disk[k] \/ Watched(k, v)'
    <3>1. CASE Rename(c)
      <4>1. /\ disk' = [disk EXCEPT ![call[c].key] = tmp[c]] /\ undelivered' = undelivered \cup {call[c].key}
        BY <3>1 DEF Rename, Changed
      <4>2. \A k \in Keys : k # call[c].key => disk'[k] = disk[k]
        BY <1>1, <4>1 DEF BoardShapes
      <4>3. \A k, v : k = call[c].key => Watched(k, v)'
        BY <4>1 DEF Watched
      <4>4. QED
        BY <4>2, <4>3
    <3>2. CASE ~Rename(c)
      BY <3>2 DEF Prime, CreateTmp, FillTmp, WriteFails
    <3>3. QED
      BY <3>1, <3>2
  <2>6. QED
    BY <2>1, <2>2, <2>3, <2>4, <2>5, TextIsKept
<1>8. QED
  BY <1>2, <1>4, <1>5, <1>6, <1>7, KeysAndTexts DEF BoardInv

LEMMA RecordHolds ==
  ASSUME BoardInv, NEW c \in Calls,
         RemoveFile(c) \/ LogRow(c) \/ LogFails(c) \/ DropFiles(c)
  PROVE  BoardInv' /\ LoggedKeys \subseteq LoggedKeys'
<1>1. BoardShapes /\ UpUntilCrash /\ OkIsAnnounced /\ BootIsKept /\ (Undisturbed => TextComes)
  BY DEF BoardInv
<1>2. /\ BoardShapes' /\ UNCHANGED <<tmp, seen, task, server>>
      /\ \A d \in Calls \ {c} : call'[d] = call[d]
      /\ call'[c].key = call[c].key /\ call'[c].val = call[c].val /\ call'[c].op = call[c].op
      /\ Undisturbed' => Undisturbed
      /\ env'.crashes = 0 => env.crashes = 0
      /\ \A i \in DOMAIN oplog : \E n \in DOMAIN oplog' : oplog'[n] = oplog[i]
  BY <1>1, RecordShapes
<1>3. UNCHANGED published /\ undelivered \subseteq undelivered' /\ call[c] \in CallRows
  BY <1>1 DEF RemoveFile, LogRow, LogFails, DropFiles, Changed, BoardShapes
<1>4. /\ RemoveFile(c) => call'[c].pc = "log"
      /\ LogRow(c) \/ LogFails(c) => call[c] \in WriteCalls \cup DeleteCalls /\ call'[c].pc = "announce"
      /\ DropFiles(c) => call'[c].op = "drop"
  <2>1. CASE RemoveFile(c)
    <3>1. CallTo(c, "log") /\ call[c] \in DeleteCalls /\ call[c].pc = "remove"
      BY <1>3, <2>1, CallKinds DEF RemoveFile
    <3>2. call'[c].pc = "log"
      BY <1>1, <3>1, CallMoves
    <3>3. QED
      BY <3>1, <3>2 DEF LogRow, LogFails, DropFiles
  <2>2. CASE LogRow(c) \/ LogFails(c)
    <3>1. CallTo(c, "announce") /\ call[c] \in WriteCalls \cup DeleteCalls /\ call[c].pc = "log"
      BY <1>3, <2>2, CallKinds DEF LogRow, LogFails
    <3>2. call'[c].pc = "announce"
      BY <1>1, <3>1, CallMoves
    <3>3. QED
      BY <3>1, <3>2 DEF RemoveFile, DropFiles
  <2>3. CASE DropFiles(c)
    <3>1. call[c] \in DropCalls /\ call[c].pc = "rmdir"
      BY <1>3, <2>3, CallKinds DEF DropFiles
    <3>2. call[c].op = "drop"
      BY <3>1 DEF DropCalls
    <3>3. QED
      BY <1>2, <3>1, <3>2 DEF RemoveFile, LogRow, LogFails
  <2>4. QED
    BY <2>1, <2>2, <2>3
<1>5. UpUntilCrash' /\ BootIsKept'
  BY <1>1, <1>2, ServerIsKept
<1>6. OkIsAnnounced'
  <2>1. call'[c].pc # "ok" \/ call'[c].op = "drop"
    BY <1>4
  <2>2. QED
    BY <1>1, <1>2, <1>3, <2>1, OkIsKept
<1>7. ASSUME Undisturbed' PROVE TextComes'
  <2>1. TextComes
    BY <1>1, <1>2, <1>7
  <2>2. \/ call[c].pc \notin {"create", "fill", "rename", "log"}
        \/ \E n \in DOMAIN oplog' : oplog'[n].key = call[c].key /\ oplog'[n].val = call[c].val
    <3>1. CASE LogRow(c)
      <4>1. /\ oplog' = Append(oplog, OpRow(call[c].key, call[c].op, call[c].val))
            /\ call[c] \in WriteCalls \cup DeleteCalls /\ oplog \in Seq(OpRows)
        BY <1>1, <1>4, <3>1 DEF LogRow, Append1, BoardShapes
      <4>2. /\ OpRow(call[c].key, call[c].op, call[c].val) \in OpRows
            /\ OpRow(call[c].key, call[c].op, call[c].val).key = call[c].key
            /\ OpRow(call[c].key, call[c].op, call[c].val).val = call[c].val
        BY <4>1, CallsHaveRows
      <4>3. \E n \in DOMAIN oplog' : oplog'[n] = OpRow(call[c].key, call[c].op, call[c].val)
        BY <4>1, <4>2, LogGrows
      <4>4. QED
        BY <4>2, <4>3
    <3>2. CASE LogFails(c)
      BY <1>1, <1>7, <3>2, EnvGrows DEF LogFails
    <3>3. CASE RemoveFile(c) \/ DropFiles(c)
      BY <3>3 DEF RemoveFile, DropFiles
    <3>4. QED
      BY <3>1, <3>2, <3>3
  <2>3. \A k \in Keys \ Direction : \A v : Comes(k, v) => Comes(k, v)'
    BY <1>2, <2>2, ComesIsKept
  <2>4. \A k, v : Watched(k, v) => Watched(k, v)'
    BY <1>2, <1>3 DEF Watched
  <2>5. \A k \in Keys \ Direction : \A v : disk'[k] = v => v \in {disk[k], Absent}
    <3>1. CASE RemoveFile(c)
      BY <1>1, <3>1 DEF RemoveFile, Changed, BoardShapes
    <3>2. CASE LogRow(c) \/ LogFails(c)
      BY <3>2 DEF LogRow, LogFails
    <3>3. CASE DropFiles(c)
      BY <3>3 DEF DropFiles
    <3>4. QED
      BY <3>1, <3>2, <3>3
  <2>6. QED
    BY <1>2, <2>1, <2>3, <2>4, <2>5, TextIsKept
<1>8. QED
  BY <1>2, <1>5, <1>6, <1>7, KeysAndTexts DEF BoardInv

LEMMA DropHolds ==
  ASSUME BoardInv, NEW c \in Calls, DropRows(c)
  PROVE  BoardInv'
<1>1. BoardShapes /\ UpUntilCrash /\ OkIsAnnounced /\ BootIsKept /\ (Undisturbed => TextComes)
  BY DEF BoardInv
<1>2. /\ BoardShapes' /\ UNCHANGED <<disk, tmp, seen, undelivered, task, server>>
      /\ \A d \in Calls \ {c} : call'[d] = call[d]
      /\ call[c].pc \in {"free", "ok", "error", "lost"} /\ call'[c].pc = "rmdir"
      /\ server.phase = "up"
      /\ Undisturbed' => Undisturbed
      /\ env'.crashes = 0 => env.crashes = 0
      /\ \A i \in DOMAIN oplog : oplog[i].key \in Direction \/ \E n \in DOMAIN oplog' : oplog'[n] = oplog[i]
  BY <1>1, DropShapes
<1>3. UNCHANGED published
  BY DEF DropRows
<1>4. UpUntilCrash' /\ BootIsKept'
  BY <1>1, <1>2, ServerIsKept
<1>5. OkIsAnnounced'
  BY <1>1, <1>2, <1>3, OkIsKept
<1>6. ASSUME Undisturbed' PROVE TextComes'
  <2>1. TextComes
    BY <1>1, <1>2, <1>6
  <2>2. \A k \in Keys \ Direction : \A v : Comes(k, v) => Comes(k, v)'
    BY <1>2, ComesIsKept
  <2>3. \A k, v : Watched(k, v) => Watched(k, v)'
    BY <1>2 DEF Watched
  <2>4. QED
    BY <1>2, <2>1, <2>2, <2>3, TextIsKept
<1>7. QED
  BY <1>2, <1>4, <1>5, <1>6 DEF BoardInv

\* The watcher looks: what it lets go is recorded or gone.
LEMMA LookHolds ==
  ASSUME BoardInv, NEW t \in Tasks,
         TaskRead(t) \/ TaskCompare(t) \/ TaskAnnounce(t) \/ \E k \in Keys : Dispatch(t, k)
  PROVE  BoardInv' /\ LoggedKeys \subseteq LoggedKeys'
<1>1. BoardShapes /\ UpUntilCrash /\ OkIsAnnounced /\ BootIsKept /\ (Undisturbed => TextComes)
  BY DEF BoardInv
<1>2. /\ BoardShapes' /\ UNCHANGED <<disk, tmp, seen, oplog, call, server, env>>
      /\ \A u \in Tasks \ {t} : task'[u] = task[u]
      /\ task[t].pc # "insert" /\ task'[t].pc \in {"free", "read", "compare", "mark"}
  BY <1>1, LookShapes
<1>3. published \subseteq published' /\ task[t] \in TaskRows
  BY <1>1 DEF TaskRead, TaskCompare, TaskAnnounce, Dispatch, BoardShapes
<1>4. \A i \in DOMAIN oplog : \E n \in DOMAIN oplog' : oplog'[n] = oplog[i]
  BY <1>2
<1>5. UpUntilCrash' /\ BootIsKept'
  BY <1>1, <1>2, <1>4, ServerIsKept
<1>6. OkIsAnnounced'
  BY <1>1, <1>2, <1>3 DEF OkIsAnnounced
<1>7. ASSUME TextComes PROVE TextComes'
  <2>1. \A k \in Keys \ Direction : \A v : Comes(k, v) => Comes(k, v)'
    BY <1>2, <1>4, ComesIsKept
  <2>2. \A k \in Keys \ Direction : \A v : disk[k] = v /\ v # Absent /\ Watched(k, v) => Comes(k, v)' \/ Watched(k, v)'
    <3>1. ASSUME UNCHANGED undelivered,
                 \A k, v : disk[k] = v /\ v # Absent /\ task[t].pc = "read" /\ task[t].key = k =>
                   task'[t].pc = "compare" /\ task'[t].key = k /\ task'[t].val = v,
                 \A k \in Keys \ Direction : \A v :
                   task[t].pc \in {"compare", "mark"} /\ task[t].key = k /\ task[t].val = v =>
                   \/ task'[t].pc \in {"compare", "mark"} /\ task'[t].key = k /\ task'[t].val = v
                   \/ v = Absent \/ Comes(k, v)
          PROVE  \A k \in Keys \ Direction : \A v :
                   disk[k] = v /\ v # Absent /\ Watched(k, v) => Comes(k, v)' \/ Watched(k, v)'
      <4> SUFFICES ASSUME NEW k \in Keys \ Direction, NEW v, disk[k] = v, v # Absent, Watched(k, v)
                   PROVE  Comes(k, v)' \/ Watched(k, v)'
        OBVIOUS
      <4>1. CASE k \in undelivered
        BY <3>1, <4>1 DEF Watched
      <4>2. CASE \E u \in Tasks : task[u].pc = "read" /\ task[u].key = k
        <5>1. PICK u \in Tasks : task[u].pc = "read" /\ task[u].key = k
          BY <4>2
        <5>2. CASE u = t
          <6>1. task'[t].pc = "compare" /\ task'[t].key = k /\ task'[t].val = v
            BY <3>1, <5>1, <5>2
          <6>2. QED
            BY <6>1 DEF Watched
        <5>3. CASE u # t
          BY <1>2, <5>1, <5>3 DEF Watched
        <5>4. QED
          BY <5>2, <5>3
      <4>3. CASE \E u \in Tasks : task[u].pc \in {"compare", "mark"} /\ task[u].key = k /\ task[u].val = v
        <5>1. PICK u \in Tasks : task[u].pc \in {"compare", "mark"} /\ task[u].key = k /\ task[u].val = v
          BY <4>3
        <5>2. CASE u = t
          <6>1. \/ task'[t].pc \in {"compare", "mark"} /\ task'[t].key = k /\ task'[t].val = v
                \/ Comes(k, v)'
            BY <2>1, <3>1, <5>1, <5>2
          <6>2. QED
            BY <6>1 DEF Watched
        <5>3. CASE u # t
          BY <1>2, <5>1, <5>3 DEF Watched
        <5>4. QED
          BY <5>2, <5>3
      <4>4. QED
        BY <4>1, <4>2, <4>3 DEF Watched
    <3>2. CASE TaskRead(t)
      <4>1. UNCHANGED undelivered /\ task[t].pc = "read"
        BY <3>2 DEF TaskRead
      <4>2. \A k, v : disk[k] = v /\ v # Absent /\ task[t].key = k =>
              task'[t].pc = "compare" /\ task'[t].key = k /\ task'[t].val = v
        <5>1. CASE disk[task[t].key] = Absent
          BY <5>1
        <5>2. CASE disk[task[t].key] # Absent
          <6>1. task' = [task EXCEPT ![t].pc = "compare", ![t].val = disk[task[t].key]]
            BY <3>2, <5>2 DEF TaskRead
          <6>2. disk[task[t].key] \in Contents
            BY <1>1, <1>3, <4>1, <5>2, ReconcileKinds DEF BoardShapes
          <6>3. task'[t].pc = "compare" /\ task'[t].key = task[t].key /\ task'[t].val = disk[task[t].key]
            BY <1>1, <4>1, <6>1, <6>2, ReconcileReads
          <6>4. QED
            BY <6>3
        <5>3. QED
          BY <5>1, <5>2
      <4>3. QED
        BY <3>1, <4>1, <4>2
    <3>3. CASE TaskCompare(t)
      <4>1. UNCHANGED undelivered /\ task[t].pc = "compare"
        BY <3>3 DEF TaskCompare
      <4>2. \A k \in Keys \ Direction : \A v : task[t].key = k /\ task[t].val = v =>
              \/ task'[t].pc \in {"compare", "mark"} /\ task'[t].key = k /\ task'[t].val = v
              \/ v = Absent \/ Comes(k, v)
        <5>1. CASE seen[task[t].key] = task[t].val
          <6>1. \A k \in Keys \ Direction : \A v : seen[k] = v => v = Absent \/ Comes(k, v)
            BY <1>7 DEF TextComes
          <6>2. QED
            BY <5>1, <6>1
        <5>2. CASE seen[task[t].key] # task[t].val
          <6>1. task' = [task EXCEPT ![t].pc = "mark"]
            BY <3>3, <5>2 DEF TaskCompare
          <6>2. task'[t].pc = "mark" /\ task'[t].key = task[t].key /\ task'[t].val = task[t].val
            BY <1>1, <4>1, <6>1, ReconcileMoves
          <6>3. QED
            BY <6>2
        <5>3. QED
          BY <5>1, <5>2
      <4>3. QED
        BY <3>1, <4>1, <4>2
    <3>4. CASE TaskAnnounce(t)
      <4>1. UNCHANGED undelivered /\ task[t].pc = "announce"
        BY <3>4 DEF TaskAnnounce
      <4>2. QED
        BY <3>1, <4>1
    <3>5. CASE \E k \in Keys : Dispatch(t, k)
      <4>1. PICK d \in Keys : Dispatch(t, d)
        BY <3>5
      <4>2. task[t].pc = "free" /\ task' = [task EXCEPT ![t] = [pc |-> "read", key |-> d, val |-> Absent]]
            /\ undelivered \ {d} \subseteq undelivered'
        BY <4>1 DEF Dispatch, NoTask
      <4>3. task'[t].pc = "read" /\ task'[t].key = d
        BY <1>1, <4>2 DEF BoardShapes
      <4>4. QED
        BY <1>2, <4>2, <4>3 DEF Watched
    <3>6. QED
      BY <3>2, <3>3, <3>4, <3>5
  <2>3. QED
    BY <1>2, <1>7, <2>1, <2>2, TextIsKept
<1>8. Undisturbed' => Undisturbed
  BY <1>2 DEF Undisturbed
<1>9. QED
  BY <1>1, <1>2, <1>4, <1>5, <1>6, <1>7, <1>8, KeysAndTexts DEF BoardInv

LEMMA MarkHolds ==
  ASSUME BoardInv, NEW t \in Tasks, TaskMark(t) \/ TaskInsert(t) \/ TaskInsertFails(t)
  PROVE  BoardInv' /\ LoggedKeys \subseteq LoggedKeys'
<1>1. BoardShapes /\ UpUntilCrash /\ OkIsAnnounced /\ BootIsKept /\ (Undisturbed => TextComes)
  BY DEF BoardInv
<1>2. /\ BoardShapes' /\ UNCHANGED <<disk, tmp, call, server, undelivered, published>>
      /\ \A u \in Tasks \ {t} : task'[u] = task[u]
      /\ task[t].key \in Keys /\ task[t].val \in Contents
      /\ Undisturbed' => /\ Undisturbed /\ ~TaskInsertFails(t)
                         /\ task'[t].key = task[t].key /\ task'[t].val = task[t].val
      /\ TaskMark(t) => task'[t].pc = "insert"
      /\ TaskInsert(t) => \E n \in DOMAIN oplog' :
           oplog'[n].key = task[t].key /\ oplog'[n].val = task[t].val
      /\ env'.crashes = 0 => env.crashes = 0
      /\ \A i \in DOMAIN oplog : \E n \in DOMAIN oplog' : oplog'[n] = oplog[i]
  BY <1>1, MarkShapes
<1>3. UpUntilCrash' /\ BootIsKept'
  BY <1>1, <1>2, ServerIsKept
<1>4. OkIsAnnounced'
  BY <1>1, <1>2 DEF OkIsAnnounced
<1>5. ASSUME Undisturbed' PROVE TextComes'
  <2>1. /\ TextComes
        /\ TaskMark(t) \/ TaskInsert(t)
        /\ task'[t].key = task[t].key /\ task'[t].val = task[t].val
    BY <1>1, <1>2, <1>5
  <2>2. \/ task[t].pc # "insert"
        \/ \E n \in DOMAIN oplog' : oplog'[n].key = task[t].key /\ oplog'[n].val = task[t].val
    BY <1>2, <2>1 DEF TaskMark
  <2>3. \A k \in Keys \ Direction : \A v : Comes(k, v) => Comes(k, v)'
    BY <1>2, <2>2, ComesIsKept
  <2>4. CASE TaskMark(t)
    <3>1. /\ task[t].pc = "mark" /\ task'[t].pc = "insert"
          /\ seen' = [seen EXCEPT ![task[t].key] = task[t].val]
      BY <1>2, <2>4 DEF TaskMark
    <3>2. \A k, v : task[t].key = k /\ task[t].val = v => Comes(k, v)'
      BY <2>1, <3>1 DEF Inserts, Comes
    <3>3. \A k \in Keys : k # task[t].key => seen'[k] = seen[k]
      BY <1>1, <3>1 DEF BoardShapes
    <3>4. seen'[task[t].key] = task[t].val
      BY <1>1, <1>2, <3>1 DEF BoardShapes
    <3>5. \A k \in Keys \ Direction : \A v : seen'[k] = v => v \in {seen[k], Absent} \/ Comes(k, v)'
      BY <3>2, <3>3, <3>4
    <3>6. \A k, v : Watched(k, v) => Watched(k, v)' \/ Comes(k, v)'
      BY <1>2, <3>1, <3>2 DEF Watched
    <3>7. \A k \in Keys \ Direction : \A v : disk'[k] = v =>
            \/ v = Absent \/ Comes(k, v)' \/ Watched(k, v)'
            \/ v = disk[k] /\ ~Watched(k, v)
      BY <1>2, <3>6
    <3>8. QED
      BY <2>1, <2>3, <3>5, <3>7, TextIsKept
  <2>5. CASE TaskInsert(t)
    <3>1. task[t].pc = "insert" /\ UNCHANGED seen
      BY <2>5 DEF TaskInsert
    <3>2. \A k, v : Watched(k, v) => Watched(k, v)'
      BY <1>2, <3>1 DEF Watched
    <3>3. \A k \in Keys \ Direction : \A v : disk'[k] = v =>
            \/ v = Absent \/ Comes(k, v)' \/ Watched(k, v)'
            \/ v = disk[k] /\ ~Watched(k, v)
      BY <1>2, <3>2
    <3>4. QED
      BY <2>1, <2>3, <3>1, <3>3, TextIsKept
  <2>6. QED
    BY <2>1, <2>4, <2>5
<1>6. QED
  BY <1>2, <1>3, <1>4, <1>5, KeysAndTexts DEF BoardInv

LEMMA EditHolds ==
  ASSUME BoardInv, NEW k \in Keys, NEW v \in Contents \cup {Absent}, Edit(k, v)
  PROVE  BoardInv' /\ LoggedKeys \subseteq LoggedKeys'
<1>1. BoardShapes /\ UpUntilCrash /\ OkIsAnnounced /\ BootIsKept /\ (Undisturbed => TextComes)
  BY DEF BoardInv
<1>2. /\ BoardShapes' /\ UNCHANGED <<seen, oplog, call, task, published, server>>
      /\ disk' = [disk EXCEPT ![k] = v] /\ undelivered' = undelivered \cup {k}
      /\ Undisturbed' => Undisturbed
      /\ env'.crashes = 0 => env.crashes = 0
  BY <1>1, EditShapes
<1>3. \A i \in DOMAIN oplog : \E n \in DOMAIN oplog' : oplog'[n] = oplog[i]
  BY <1>2
<1>4. UpUntilCrash' /\ BootIsKept'
  BY <1>1, <1>2, <1>3, ServerIsKept
<1>5. OkIsAnnounced'
  BY <1>1, <1>2 DEF OkIsAnnounced
<1>6. ASSUME Undisturbed' PROVE TextComes'
  <2>1. TextComes
    BY <1>1, <1>2, <1>6
  <2>2. \A l \in Keys \ Direction : \A w : Comes(l, w) => Comes(l, w)'
    BY <1>2, <1>3, ComesIsKept
  <2>3. \A l, w : Watched(l, w) => Watched(l, w)'
    BY <1>2 DEF Watched
  <2>4. \A w : Watched(k, w)'
    BY <1>2 DEF Watched
  <2>5. \A l \in Keys : l # k => disk'[l] = disk[l]
    BY <1>1, <1>2 DEF BoardShapes
  <2>6. \A l \in Keys \ Direction : \A w : disk'[l] = w =>
          \/ w = Absent \/ Comes(l, w)' \/ Watched(l, w)'
          \/ w = disk[l] /\ ~Watched(l, w)
    BY <2>3, <2>4, <2>5
  <2>7. QED
    BY <1>2, <2>1, <2>2, <2>6, TextIsKept
<1>7. QED
  BY <1>2, <1>3, <1>4, <1>5, <1>6, KeysAndTexts DEF BoardInv

\* A crash, and what comes after it until the server is up again.
LEMMA CrashHolds ==
  ASSUME BoardInv, Crash
  PROVE  BoardInv' /\ LoggedKeys \subseteq LoggedKeys'
<1>1. /\ BoardShapes' /\ ~Undisturbed' /\ env'.crashes # 0 /\ UNCHANGED oplog
      /\ \A c \in Calls : call'[c].pc = "lost"
      /\ server'.phase = "down"
  BY CrashShapes DEF BoardInv
<1>2. UpUntilCrash' /\ BootIsKept' /\ OkIsAnnounced'
  BY <1>1 DEF UpUntilCrash, BootIsKept, OkIsAnnounced
<1>3. QED
  BY <1>1, <1>2 DEF BoardInv, LoggedKeys

LEMMA BootHolds ==
  ASSUME BoardInv, BootKnown \/ BootWalk \/ Backfill \/ BackfillFails
  PROVE  BoardInv' /\ LoggedKeys \subseteq LoggedKeys'
<1>1. BoardShapes /\ UpUntilCrash /\ OkIsAnnounced /\ BootIsKept
  BY DEF BoardInv
<1>2. /\ BoardShapes' /\ BootIsKept' /\ UNCHANGED <<call, published>>
      /\ server.phase # "up" /\ env'.crashes = env.crashes
      /\ \A i \in DOMAIN oplog : \E n \in DOMAIN oplog' : oplog'[n] = oplog[i]
  BY <1>1, BootShapes
<1>3. UpUntilCrash' /\ ~Undisturbed'
  BY <1>1, <1>2 DEF UpUntilCrash, Undisturbed
<1>4. OkIsAnnounced'
  BY <1>1, <1>2 DEF OkIsAnnounced
<1>5. QED
  BY <1>2, <1>3, <1>4, KeysAndTexts DEF BoardInv

LEMMA ServeHolds ==
  ASSUME BoardInv, NEW cut, Serve(cut)
  PROVE  BoardInv' /\ LoggedKeys \subseteq LoggedKeys'
<1>1. BoardShapes /\ UpUntilCrash /\ OkIsAnnounced /\ BootIsKept
  BY DEF BoardInv
<1>2. /\ BoardShapes' /\ UNCHANGED <<call, published, env>>
      /\ server.phase = "backfill" /\ server'.phase = "up" /\ server.files = {}
      /\ LoggedKeys \subseteq LoggedKeys'
  BY <1>1, ServeShapes
<1>3. UpUntilCrash' /\ ~Undisturbed' /\ BootIsKept'
  BY <1>1, <1>2 DEF UpUntilCrash, Undisturbed, BootIsKept
<1>4. OkIsAnnounced'
  BY <1>1, <1>2 DEF OkIsAnnounced
<1>5. QED
  BY <1>2, <1>3, <1>4 DEF BoardInv

-----------------------------------------------------------------------------
(* The theorems.                                                            *)

LEMMA BoardInvInit == BoardInit => BoardInv
<1> SUFFICES ASSUME BoardInit PROVE BoardInv
  OBVIOUS
<1>1. /\ disk = [k \in Keys |-> Absent] /\ tmp = [c \in Calls |-> Absent]
      /\ seen = [k \in Keys |-> Absent] /\ oplog = <<>>
      /\ call = [c \in Calls |-> NoTask] /\ task = [t \in Tasks |-> NoTask]
      /\ undelivered = {} /\ server.phase = "up"
      /\ server = [phase |-> "up", known |-> {}, files |-> {}, found |-> {}, missed |-> {}]
      /\ env = [requests |-> 0, edits |-> 0, faults |-> 0, crashes |-> 0]
  BY DEF BoardInit
<1>2. NoTask.pc = "free" /\ NoTask \in CallRows /\ NoTask \in TaskRows
  BY DEF NoTask, CallRows, TaskRows
<1>3. server \in Servers
  BY <1>1 DEF Servers
<1>4. \A c \in Calls : call[c].pc = "free"
  BY <1>1, <1>2
<1>5. call \in [Calls -> CallRows] /\ task \in [Tasks -> TaskRows]
  BY <1>1, <1>2
<1>6. oplog \in Seq(OpRows) /\ env \in [requests : Nat, edits : Nat, faults : Nat, crashes : Nat]
  BY <1>1
<1>7. BoardShapes
  BY <1>1, <1>3, <1>4, <1>5, <1>6 DEF BoardShapes
<1>8. UpUntilCrash /\ OkIsAnnounced /\ BootIsKept
  BY <1>1, <1>4 DEF UpUntilCrash, OkIsAnnounced, BootIsKept
<1>9. TextComes
  BY <1>1 DEF TextComes
<1>10. QED
  BY <1>7, <1>8, <1>9 DEF BoardInv

\* A step keeps the invariant, and forgets no key unless it drops a direction.
LEMMA BoardSteps ==
  BoardInv /\ BoardNext => BoardInv' /\ (LoggedKeys \subseteq LoggedKeys' \/ \E c \in Calls : DropRows(c))
<1> SUFFICES ASSUME BoardInv, BoardNext
             PROVE  BoardInv' /\ (LoggedKeys \subseteq LoggedKeys' \/ \E c \in Calls : DropRows(c))
  OBVIOUS
<1>1. CASE \E c \in Calls : Writer(c)
  <2>1. PICK c \in Calls : Writer(c)
    BY <1>1
  <2>2. CASE \/ \E k \in Keys : StartDelete(c, k) \/ StartCompact(c, k) \/ \E v \in Contents : StartWrite(c, k, v)
             \/ \E v \in Contents : Summarised(c, v)
             \/ NoSummary(c) \/ Announce(c)
    BY <2>2, StartHolds
  <2>3. CASE Prime(c) \/ CreateTmp(c) \/ FillTmp(c) \/ Rename(c) \/ WriteFails(c)
    BY <2>3, WriteHolds
  <2>4. CASE RemoveFile(c) \/ LogRow(c) \/ LogFails(c) \/ DropFiles(c)
    BY <2>4, RecordHolds
  <2>5. CASE DropRows(c)
    BY <2>5, DropHolds
  <2>6. QED
    BY <2>1, <2>2, <2>3, <2>4, <2>5 DEF Writer
<1>2. CASE \E t \in Tasks : Reconciler(t) \/ \E k \in Keys : Dispatch(t, k)
  <2>1. PICK t \in Tasks : Reconciler(t) \/ \E k \in Keys : Dispatch(t, k)
    BY <1>2
  <2>2. CASE TaskRead(t) \/ TaskCompare(t) \/ TaskAnnounce(t) \/ \E k \in Keys : Dispatch(t, k)
    BY <2>2, LookHolds
  <2>3. CASE TaskMark(t) \/ TaskInsert(t) \/ TaskInsertFails(t)
    BY <2>3, MarkHolds
  <2>4. QED
    BY <2>1, <2>2, <2>3 DEF Reconciler
<1>3. CASE \E k \in Keys, v \in Contents \cup {Absent} : Edit(k, v)
  BY <1>3, EditHolds
<1>4. CASE Crash
  BY <1>4, CrashHolds
<1>5. CASE Boot
  BY <1>5, BootHolds, ServeHolds DEF Boot
<1>6. QED
  BY <1>1, <1>2, <1>3, <1>4, <1>5 DEF BoardNext

LEMMA BoardStutters ==
  BoardInv /\ UNCHANGED boardVars => BoardInv' /\ LoggedKeys' = LoggedKeys
<1> SUFFICES ASSUME BoardInv, UNCHANGED boardVars PROVE BoardInv' /\ LoggedKeys' = LoggedKeys
  OBVIOUS
<1>1. UNCHANGED <<disk, tmp, seen, oplog, call, task, undelivered, published, server, env>>
  BY DEF boardVars
<1>2. BoardShapes' /\ UpUntilCrash' /\ OkIsAnnounced' /\ BootIsKept' /\ (Undisturbed' => Undisturbed)
  BY <1>1 DEF BoardInv, BoardShapes, UpUntilCrash, OkIsAnnounced, BootIsKept, LoggedKeys, Undisturbed
<1>3. TextComes => TextComes'
  BY <1>1 DEF TextComes, Comes, Recorded, RowsOf, Writes, Inserts, Watched
<1>4. QED
  BY <1>1, <1>2, <1>3 DEF BoardInv, LoggedKeys

\* The blackboard keeps its invariant: what is on the disk and what seen_sha
\* holds is in the history of its key, or on its way there (write_blackboard,
\* reconcile_external, reconcile_oplog_from_disk).
THEOREM BoardIsSound == BoardSpec => []BoardInv
<1>1. BoardInv /\ [BoardNext]_boardVars => BoardInv'
  BY BoardSteps, BoardStutters
<1>2. QED
  BY <1>1, BoardInvInit, PTL DEF BoardSpec

\* Every variable of the blackboard has the shape the code gives it.
THEOREM BoardTypeCorrect == BoardSpec => []BoardTypeOK
<1>1. BoardInv => BoardTypeOK
  <2> SUFFICES ASSUME BoardShapes PROVE BoardTypeOK
    BY DEF BoardInv
  <2>1. disk \in [Keys -> Contents \cup {Absent, Half}] /\ tmp \in [Calls -> Contents \cup {Absent, Half}]
        /\ seen \in [Keys -> Contents \cup {Absent}] /\ undelivered \subseteq Keys
    BY DEF BoardShapes
  <2>2. \A i \in DOMAIN oplog : oplog[i] \in OpRows
    BY DEF BoardShapes
  <2>3. \A c \in Calls : call[c].pc \in {"free", "prime", "create", "fill", "rename", "remove", "rmdir",
                                         "summarise", "log", "announce", "ok", "error", "lost"}
    BY CallKinds DEF BoardShapes
  <2>4. \A t \in Tasks : task[t].pc \in {"free", "read", "compare", "mark", "insert", "announce"}
    BY ReconcileKinds DEF BoardShapes
  <2>5. server.phase \in {"up", "down", "walk", "backfill"}
    BY DEF BoardShapes, Servers
  <2>6. QED
    BY <2>1, <2>2, <2>3, <2>4, <2>5 DEF BoardTypeOK, OpRows
<1>2. QED
  BY <1>1, BoardIsSound, PTL

\* The file of a key is always one whole text or none, whatever step of a write
\* a crash, a failure or another write cuts into (write_blackboard).
THEOREM FilesAreWhole == BoardSpec => []NeverTorn
<1>1. BoardInv => NeverTorn
  BY NoText DEF BoardInv, BoardShapes, NeverTorn
<1>2. QED
  BY <1>1, BoardIsSound, PTL

\* A write or delete that answered OK was broadcast by the running server.
THEOREM OksAreAnnounced == BoardSpec => []OkIsAnnounced
<1>1. BoardInv => OkIsAnnounced
  BY DEF BoardInv
<1>2. QED
  BY <1>1, BoardIsSound, PTL

\* When the boot reconcile is through, the op-log knows every file its walk
\* found, but for those whose own backfill failed (reconcile_oplog_from_disk).
THEOREM BootFindsThemAll == BoardSpec => []BootFindsAll
<1>1. BoardInv => BootFindsAll
  BY DEF BoardInv, BootIsKept, BootFindsAll
<1>2. QED
  BY <1>1, BoardIsSound, PTL

\* At rest, and without a failing insert or a crash, the text of every file is
\* in its key's history, whoever put it there and however their steps were
\* interleaved (write_blackboard, reconcile_external).
THEOREM TextsAreRecorded == BoardSpec => []TextIsRecorded
<1>1. BoardInv => TextIsRecorded
  <2> SUFFICES ASSUME BoardInv, BoardSettled, Undisturbed, NEW k \in Keys \ Direction, disk[k] # Absent
               PROVE  \E i \in RowsOf(k) : oplog[i].val = disk[k]
    BY DEF TextIsRecorded, Undisturbed
  <2>1. Comes(k, disk[k]) \/ Watched(k, disk[k])
    BY DEF BoardInv, TextComes
  <2>2. \A t \in Tasks : task[t].pc = "free"
    BY ReconcileKinds DEF BoardSettled, BoardInv, BoardShapes
  <2>3. ~Watched(k, disk[k]) /\ ~Inserts(k, disk[k])
    BY <2>2 DEF BoardSettled, Watched, Inserts
  <2>4. ~Writes(k, disk[k])
    BY DEF BoardSettled, Writes
  <2>5. QED
    BY <2>1, <2>3, <2>4 DEF Comes, Recorded
<1>2. QED
  BY <1>1, BoardIsSound, PTL

\* Only deleting its direction makes the op-log forget a key: a boot, with its
\* backfill and its retention, loses none (prune_expired).
THEOREM KeysAreKept == BoardSpec => NoKeyIsForgotten
<1>1. BoardInv /\ [BoardNext]_boardVars =>
        [LoggedKeys \subseteq LoggedKeys' \/ \E c \in Calls : DropRows(c)]_boardVars
  BY BoardSteps
<1>2. QED
  BY <1>1, BoardIsSound, PTL DEF BoardSpec, NoKeyIsForgotten

-----------------------------------------------------------------------------
(* The directions and their worktrees.                                      *)

\* The worktree at p was made for the branch p ends with.
BranchOf(p) == p[Len(p)]

\* Every variable has its shape.
DirShapes ==
  /\ dir \in [DirIds -> {Nil} \cup DirRows] /\ request \in [Requests -> {Nil} \cup RequestRows]
  /\ isolating \in [IsolationTasks -> {Nil} \cup IsolationRows]
  /\ DOMAIN tree \subseteq Seq(Slugs) \ {Project}
  /\ \A p \in DOMAIN tree : tree[p] \in [branch : Slugs, dirty : SUBSET DirIds]
  /\ commits \in [Slugs -> {Nil} \cup SUBSET DirIds]
  /\ stranded \subseteq DirIds
  /\ dirLeft \in [tasks : 0 .. MaxDirTasks, requests : Nat, faults : Nat, restarts : Nat]

\* Handlers and tasks work for rows that exist, each task under a number of its own.
WorkIsAssigned ==
  /\ \A h \in Requests : request[h] # Nil => Exists(request[h].dir)
  /\ \A t \in IsolationTasks : isolating[t] # Nil =>
       /\ Exists(isolating[t].dir) /\ t <= MaxDirTasks - dirLeft.tasks
       /\ isolating[t].pc \in {"git", "record"} => ~isolating[t].written

\* A direction has its slug to itself, and its paths and its branch under it.
HasOwn(row) ==
  /\ row.cwd = Project \/ BranchOf(row.cwd) = row.slug
  /\ row.branch \in {Nil, row.slug}
  /\ row.isolation = "worktree" => row.cwd # Project /\ row.branch = row.slug

NamesAreOwn ==
  /\ \A d, e \in DirIds : Exists(d) /\ Exists(e) /\ dir[d].slug = dir[e].slug => d = e
  /\ \A d \in DirIds : Exists(d) => HasOwn(dir[d])
  /\ \A h \in Requests : request[h] # Nil =>
       HasOwn(request[h].row) /\ request[h].row.slug = dir[request[h].dir].slug
  /\ \A t \in IsolationTasks : isolating[t] # Nil => isolating[t].branch = dir[isolating[t].dir].slug
  /\ \A p \in DOMAIN tree : tree[p].branch = BranchOf(p) /\ commits[tree[p].branch] # Nil

\* Nothing of a direction is removed before its row is marked deleted, but for a
\* task that could not read the row.
RemovalIsLate ==
  /\ \A h \in Requests : request[h] # Nil =>
       /\ request[h].pc \in {"purge", "remove", "branch"} => ~Live(request[h].dir)
       /\ request[h].pc \in {"remove", "branch", "commit", "merge"} => request[h].row.isolation = "worktree"
  /\ \A t \in IsolationTasks : TaskAt(t, "remove") =>
       ~Live(isolating[t].dir) \/ isolating[t].dir \in stranded

Kept(d) == Live(d) /\ d \notin stranded

\* The worktrees that rows, tasks and merges count on are there.
TreesAreThere ==
  /\ \A d \in DirIds : Kept(d) /\ dir[d].cwd # Project => dir[d].cwd \in DOMAIN tree
  /\ \A t \in IsolationTasks : TaskAt(t, "record") /\ Kept(isolating[t].dir) => Dest(t) \in DOMAIN tree

\* Somebody will make a direction in preparation ready.
Attends(t, d) ==
  /\ isolating[t] # Nil /\ isolating[t].dir = d
  /\ isolating[t].pc \in {"git", "record", "degrade"} \/ (isolating[t].pc = "look" /\ ~isolating[t].written)
AllAttended ==
  \A d \in DirIds : Kept(d) /\ dir[d].state = "preparing" => \E t \in IsolationTasks : Attends(t, d)

\* A merge under way has what was there when it was asked for, on the branch or
\* still in the worktree.
MergesBringAll ==
  \A h \in Requests : request[h] # Nil /\ Kept(request[h].dir) =>
    /\ request[h].pc = "commit" =>
         /\ request[h].row.cwd \in DOMAIN tree
         /\ request[h].seen \subseteq Uncommitted(request[h].row.cwd) \cup OnBranch(request[h].row.branch)
    /\ request[h].pc = "merge" => request[h].seen \subseteq OnBranch(request[h].row.branch)

\* The inductive invariant, where no name is used twice.
DirInv ==
  /\ DirShapes /\ WorkIsAssigned /\ NamesAreOwn /\ RemovalIsLate
  /\ TreesAreThere /\ AllAttended /\ MergesBringAll

-----------------------------------------------------------------------------
(* Rows, handlers and tasks.                                                *)

\* What is in the records.
LEMMA DirFields ==
  /\ \A r \in DirRows : /\ r.slug \in Slugs /\ r.cwd \in Seq(Slugs) /\ r.branch \in Slugs \cup {Nil}
                        /\ r.isolation \in {"shared", "degraded", "worktree"}
                        /\ r.state \in {"preparing", "ready"} /\ r.alive \in BOOLEAN
  /\ \A q \in RequestRows : q.dir \in DirIds /\ q.row \in DirRows /\ q.seen \subseteq DirIds
  /\ \A t \in IsolationRows : t.dir \in DirIds /\ t.from \in Seq(Slugs) /\ t.branch \in Slugs
  BY DEF DirRows, RequestRows, IsolationRows

\* A new row is shared.
LEMMA NewRow ==
  \A s \in Slugs, st \in {"preparing", "ready"} :
    /\ NewDir(s, st) \in DirRows /\ NewDir(s, st).slug = s /\ NewDir(s, st).state = st
    /\ NewDir(s, st).cwd = Project /\ NewDir(s, st).branch = Nil
    /\ NewDir(s, st).isolation = "shared" /\ NewDir(s, st).alive = TRUE
<1>1. Project \in Seq(Slugs)
  BY DEF Project
<1>2. QED
  BY <1>1 DEF NewDir, DirRows

\* An update changes a live row, and no other.
LEMMA RowUpdated ==
  ASSUME DirShapes, NEW d \in DirIds, NEW r, Live(d) => r \in DirRows, UpdateThread(d, r)
  PROVE  /\ dir' \in [DirIds -> {Nil} \cup DirRows]
         /\ \A e \in DirIds \ {d} : dir'[e] = dir[e]
         /\ Live(d) => dir'[d] = r
         /\ ~Live(d) => dir' = dir
  BY DEF DirShapes, UpdateThread

\* A live row is a row.
LEMMA LiveIsRow ==
  ASSUME DirShapes, NEW d \in DirIds, Exists(d) PROVE dir[d] \in DirRows
  BY DEF DirShapes, Exists

TaskStages == {"git", "record", "look", "remove", "degrade", "reroot", "init"}

\* A task moves on.
LEMMA TaskMoves ==
  ASSUME DirShapes, NEW t \in IsolationTasks, isolating[t] # Nil, NEW pc \in TaskStages, TaskGoto(t, pc)
  PROVE  /\ isolating' \in [IsolationTasks -> {Nil} \cup IsolationRows]
         /\ \A u \in IsolationTasks \ {t} : isolating'[u] = isolating[u]
         /\ isolating'[t] # Nil /\ isolating'[t].pc = pc
         /\ isolating'[t].dir = isolating[t].dir /\ isolating'[t].from = isolating[t].from
         /\ isolating'[t].branch = isolating[t].branch /\ isolating'[t].written = isolating[t].written
<1>  DEFINE n == [isolating[t] EXCEPT !.pc = pc]
<1>1. isolating[t] \in IsolationRows
  BY DEF DirShapes
<1>2. n \in IsolationRows /\ n.pc = pc /\ n.dir = isolating[t].dir /\ n.from = isolating[t].from
      /\ n.branch = isolating[t].branch /\ n.written = isolating[t].written
  BY <1>1 DEF IsolationRows, TaskStages
<1>3. isolating' = [isolating EXCEPT ![t] = n]
  BY DEF TaskGoto
<1>  HIDE DEF n
<1>4. isolating' \in [IsolationTasks -> {Nil} \cup IsolationRows] /\ isolating'[t] = n
      /\ \A u \in IsolationTasks \ {t} : isolating'[u] = isolating[u]
  BY <1>2, <1>3 DEF DirShapes
<1>5. n # Nil
  BY <1>2, DirAssumption
<1>6. QED
  BY <1>2, <1>4, <1>5

\* A task ends.
LEMMA TaskOver ==
  ASSUME DirShapes, NEW t \in IsolationTasks, TaskEnds(t)
  PROVE  /\ isolating' \in [IsolationTasks -> {Nil} \cup IsolationRows]
         /\ \A u \in IsolationTasks \ {t} : isolating'[u] = isolating[u]
         /\ isolating'[t] = Nil
  BY DEF DirShapes, TaskEnds

\* A task starts, under the next number.
LEMMA TaskStarts ==
  ASSUME DirShapes, WorkIsAssigned, NEW d \in DirIds, NEW from \in Seq(Slugs), NEW b \in Slugs,
         Spend("tasks"), TaskFor(d, from, b)
  PROVE  \E t \in IsolationTasks :
           /\ isolating' \in [IsolationTasks -> {Nil} \cup IsolationRows]
           /\ isolating[t] = Nil /\ \A u \in IsolationTasks \ {t} : isolating'[u] = isolating[u]
           /\ isolating'[t] # Nil /\ isolating'[t].pc = "git"
           /\ isolating'[t].dir = d /\ isolating'[t].from = from /\ isolating'[t].branch = b
           /\ ~isolating'[t].written
           /\ t <= MaxDirTasks - dirLeft'.tasks
           /\ MaxDirTasks - dirLeft.tasks <= MaxDirTasks - dirLeft'.tasks
           /\ dirLeft' \in [tasks : 0 .. MaxDirTasks, requests : Nat, faults : Nat, restarts : Nat]
<1>  DEFINE n == MaxDirTasks - dirLeft.tasks + 1
            r == [dir |-> d, from |-> from, branch |-> b, pc |-> "git", written |-> FALSE]
<1>1. MaxDirTasks \in Nat /\ dirLeft.tasks \in 0 .. MaxDirTasks /\ dirLeft.tasks > 0
  BY DirAssumption DEF DirShapes, Spend
<1>2. /\ dirLeft' \in [tasks : 0 .. MaxDirTasks, requests : Nat, faults : Nat, restarts : Nat]
      /\ dirLeft'.tasks = dirLeft.tasks - 1
  BY <1>1 DEF DirShapes, Spend
<1>3. n \in IsolationTasks /\ n <= MaxDirTasks - dirLeft'.tasks
      /\ MaxDirTasks - dirLeft.tasks <= MaxDirTasks - dirLeft'.tasks /\ ~(n <= MaxDirTasks - dirLeft.tasks)
  BY <1>1, <1>2 DEF IsolationTasks
<1>4. isolating[n] = Nil
  BY <1>3 DEF WorkIsAssigned
<1>5. r \in IsolationRows /\ r.pc = "git" /\ r.dir = d /\ r.from = from /\ r.branch = b
      /\ ~r.written
  BY DEF IsolationRows
<1>6. isolating' = [isolating EXCEPT ![n] = r]
  BY DEF TaskFor
<1>  HIDE DEF n, r
<1>7. isolating' \in [IsolationTasks -> {Nil} \cup IsolationRows] /\ isolating'[n] = r
      /\ \A u \in IsolationTasks \ {n} : isolating'[u] = isolating[u]
  BY <1>3, <1>5, <1>6 DEF DirShapes
<1>8. r # Nil
  BY <1>5, DirAssumption
<1>9. QED
  BY <1>2, <1>3, <1>4, <1>5, <1>7, <1>8

RequestStages == {"name", "stop", "mark", "purge", "remove", "branch", "commit", "merge"}

\* A handler moves on.
LEMMA RequestMoves ==
  ASSUME DirShapes, NEW h \in Requests, request[h] # Nil, NEW pc \in RequestStages, RequestTo(h, pc)
  PROVE  /\ request' \in [Requests -> {Nil} \cup RequestRows]
         /\ \A k \in Requests \ {h} : request'[k] = request[k]
         /\ request'[h] # Nil /\ request'[h].pc = pc
         /\ request'[h].dir = request[h].dir /\ request'[h].row = request[h].row
         /\ request'[h].seen = request[h].seen
<1>  DEFINE n == [request[h] EXCEPT !.pc = pc]
<1>1. request[h] \in RequestRows
  BY DEF DirShapes
<1>2. n \in RequestRows /\ n.pc = pc /\ n.dir = request[h].dir /\ n.row = request[h].row
      /\ n.seen = request[h].seen
  BY <1>1 DEF RequestRows, RequestStages
<1>3. request' = [request EXCEPT ![h] = n]
  BY DEF RequestTo
<1>  HIDE DEF n
<1>4. request' \in [Requests -> {Nil} \cup RequestRows] /\ request'[h] = n
      /\ \A k \in Requests \ {h} : request'[k] = request[k]
  BY <1>2, <1>3 DEF DirShapes
<1>5. n # Nil
  BY <1>2, DirAssumption
<1>6. QED
  BY <1>2, <1>4, <1>5

\* A handler ends.
LEMMA RequestOver ==
  ASSUME DirShapes, NEW h \in Requests, RequestEnds(h)
  PROVE  /\ request' \in [Requests -> {Nil} \cup RequestRows]
         /\ \A k \in Requests \ {h} : request'[k] = request[k]
         /\ request'[h] = Nil
  BY DEF DirShapes, RequestEnds

\* A fault, a request or a restart is paid for.
LEMMA Paid ==
  ASSUME DirShapes, NEW what \in {"requests", "faults", "restarts"}, Spend(what)
  PROVE  /\ dirLeft' \in [tasks : 0 .. MaxDirTasks, requests : Nat, faults : Nat, restarts : Nat]
         /\ dirLeft'.tasks = dirLeft.tasks
<1>1. CASE what = "requests"
  BY <1>1 DEF DirShapes, Spend
<1>2. CASE what = "faults"
  BY <1>2 DEF DirShapes, Spend
<1>3. CASE what = "restarts"
  BY <1>3 DEF DirShapes, Spend
<1>4. QED
  BY <1>1, <1>2, <1>3

-----------------------------------------------------------------------------
(* Steps of a handler or of a task alone.                                   *)

\* A handler that moves on, or ends, keeps the invariant.
LEMMA HandlerAlone ==
  ASSUME DirInv, NEW h \in Requests, request[h] # Nil,
         UNCHANGED <<dir, tree, commits, isolating, stranded>>,
         dirLeft' \in [tasks : 0 .. MaxDirTasks, requests : Nat, faults : Nat, restarts : Nat],
         dirLeft'.tasks = dirLeft.tasks,
         request' \in [Requests -> {Nil} \cup RequestRows],
         \A k \in Requests \ {h} : request'[k] = request[k],
         request'[h] # Nil =>
           /\ request'[h].dir = request[h].dir /\ request'[h].row = request[h].row
           /\ request'[h].pc \in {"purge", "remove", "branch"} => ~Live(request[h].dir)
           /\ request'[h].pc \in {"remove", "branch"} => request[h].row.isolation = "worktree"
           /\ request'[h].pc \notin {"commit", "merge"}
  PROVE  DirInv'
<1>1. DirShapes'
  BY DEF DirInv, DirShapes
<1>2. WorkIsAssigned'
  BY DEF DirInv, WorkIsAssigned, Exists
<1>3. NamesAreOwn'
  BY DEF DirInv, NamesAreOwn, HasOwn, Exists
<1>4. RemovalIsLate'
  BY DEF DirInv, RemovalIsLate, TaskAt, Live, Exists
<1>5. TreesAreThere'
  BY DEF DirInv, TreesAreThere, TaskAt, Dest, Kept, Live, Exists
<1>6. AllAttended'
  BY DEF DirInv, AllAttended, Attends, Kept, Live, Exists
<1>7. MergesBringAll'
  <2> SUFFICES ASSUME NEW k \in Requests, request'[k] # Nil, Kept(request[k].dir)',
                      request'[k].pc \in {"commit", "merge"}
               PROVE  request'[k] = request[k]
    BY DEF DirInv, MergesBringAll, Kept, Live, Exists, Uncommitted, OnBranch
  <2> QED
    OBVIOUS
<1>8. QED
  BY <1>1, <1>2, <1>3, <1>4, <1>5, <1>6, <1>7 DEF DirInv

\* A task that moves on, or ends, keeps the invariant, if it does not leave its
\* direction in preparation.
LEMMA TaskAlone ==
  ASSUME DirInv, NEW t \in IsolationTasks, isolating[t] # Nil,
         UNCHANGED <<dir, tree, commits, request>>, stranded \subseteq stranded', stranded' \subseteq DirIds,
         dirLeft' \in [tasks : 0 .. MaxDirTasks, requests : Nat, faults : Nat, restarts : Nat],
         dirLeft'.tasks = dirLeft.tasks,
         isolating' \in [IsolationTasks -> {Nil} \cup IsolationRows],
         \A u \in IsolationTasks \ {t} : isolating'[u] = isolating[u],
         isolating'[t] # Nil =>
           /\ isolating'[t].dir = isolating[t].dir /\ isolating'[t].from = isolating[t].from
           /\ isolating'[t].branch = isolating[t].branch
           /\ isolating'[t].pc = "remove" => ~Live(isolating[t].dir) \/ isolating[t].dir \in stranded'
           /\ isolating'[t].pc \notin {"git", "record"},
         \A d \in DirIds : Attends(t, d) /\ Live(d) /\ d \notin stranded' => Attends(t, d)'
  PROVE  DirInv'
<1>1. DirShapes'
  BY DEF DirInv, DirShapes
<1>2. WorkIsAssigned'
  BY DEF DirInv, WorkIsAssigned, Exists
<1>3. NamesAreOwn'
  BY DEF DirInv, NamesAreOwn, HasOwn, Exists
<1>4. RemovalIsLate'
  BY DEF DirInv, RemovalIsLate, TaskAt, Live, Exists
<1>5. TreesAreThere'
  BY DEF DirInv, TreesAreThere, TaskAt, Dest, Kept, Live, Exists
<1>6. AllAttended'
  <2> SUFFICES ASSUME NEW d \in DirIds, Kept(d)', dir'[d].state = "preparing"
               PROVE  \E u \in IsolationTasks : Attends(u, d)'
    BY DEF AllAttended
  <2>1. PICK u \in IsolationTasks : Attends(u, d)
    BY DEF DirInv, AllAttended, Kept, Live, Exists
  <2>2. CASE u = t
    BY <2>1, <2>2 DEF Kept, Live, Exists
  <2>3. CASE u # t
    BY <2>1, <2>3 DEF Attends
  <2>4. QED
    BY <2>2, <2>3
<1>7. MergesBringAll'
  BY DEF DirInv, MergesBringAll, Kept, Live, Exists, Uncommitted, OnBranch
<1>8. QED
  BY <1>1, <1>2, <1>3, <1>4, <1>5, <1>6, <1>7 DEF DirInv

\* The handlers that change nothing of the directions but themselves.
LEMMA HandlerSteps ==
  ASSUME DirInv, NEW h \in Requests,
         \/ Renames(h) \/ StopsAgents(h) \/ Purges(h) \/ MergesClean(h) \/ MergeConflicts(h)
         \/ MergeRefused(h) \/ HandlerFails(h)
  PROVE  DirInv'
<1>0. DirShapes
  BY DEF DirInv
<1>1. dirLeft \in [tasks : 0 .. MaxDirTasks, requests : Nat, faults : Nat, restarts : Nat]
  BY <1>0 DEF DirShapes
<1>2. CASE Renames(h) \/ MergesClean(h) \/ MergeConflicts(h) \/ MergeRefused(h)
  <2>1. RequestEnds(h) /\ request[h] # Nil
        /\ UNCHANGED <<dir, tree, commits, isolating, stranded, dirLeft>>
    BY <1>2 DEF Renames, MergesClean, MergeConflicts, MergeRefused, RequestAt, repository
  <2>2. QED
    BY <1>0, <1>1, <2>1, RequestOver, HandlerAlone
<1>3. CASE HandlerFails(h)
  <2>1. RequestEnds(h) /\ request[h] # Nil /\ Spend("faults")
        /\ UNCHANGED <<dir, tree, commits, isolating, stranded>>
    BY <1>3 DEF HandlerFails, RequestAt, repository
  <2>2. QED
    BY <1>0, <2>1, RequestOver, Paid, HandlerAlone
<1>4. CASE StopsAgents(h)
  <2>1. RequestTo(h, "mark") /\ request[h] # Nil
        /\ UNCHANGED <<dir, tree, commits, isolating, stranded, dirLeft>>
    BY <1>4 DEF StopsAgents, RequestAt, repository
  <2>2. /\ request' \in [Requests -> {Nil} \cup RequestRows]
        /\ \A k \in Requests \ {h} : request'[k] = request[k]
        /\ request'[h].pc = "mark" /\ request'[h].dir = request[h].dir /\ request'[h].row = request[h].row
    BY <1>0, <2>1, RequestMoves DEF RequestStages
  <2>3. QED
    BY <1>1, <2>1, <2>2, HandlerAlone
<1>5. CASE Purges(h)
  <2>1. request[h] # Nil /\ request[h].pc = "purge"
        /\ UNCHANGED <<dir, tree, commits, isolating, stranded, dirLeft>>
    BY <1>5 DEF Purges, RequestAt, repository
  <2>2. ~Live(request[h].dir)
    BY <2>1 DEF DirInv, RemovalIsLate
  <2>3. CASE request[h].row.isolation = "worktree"
    <3>1. RequestTo(h, "remove")
      BY <1>5, <2>3 DEF Purges
    <3>2. /\ request' \in [Requests -> {Nil} \cup RequestRows]
          /\ \A k \in Requests \ {h} : request'[k] = request[k]
          /\ request'[h].pc = "remove" /\ request'[h].dir = request[h].dir /\ request'[h].row = request[h].row
      BY <1>0, <2>1, <3>1, RequestMoves DEF RequestStages
    <3>3. QED
      BY <1>1, <2>1, <2>2, <2>3, <3>2, HandlerAlone
  <2>4. CASE request[h].row.isolation # "worktree"
    <3>1. RequestEnds(h)
      BY <1>5, <2>4 DEF Purges
    <3>2. QED
      BY <1>0, <1>1, <2>1, <3>1, RequestOver, HandlerAlone
  <2>5. QED
    BY <2>3, <2>4
<1>6. QED
  BY <1>2, <1>3, <1>4, <1>5

\* The task steps that touch neither rows nor worktrees.
LEMMA TaskSteps ==
  ASSUME DirInv, NEW t \in IsolationTasks,
         \/ GitRefuses(t) \/ GitFails(t) \/ RecordFails(t) \/ Looks(t) \/ LookFails(t)
         \/ DegradeFails(t) \/ StopsCaptain(t) \/ StartsCaptain(t) \/ CaptainFails(t)
  PROVE  DirInv'
<1>0. DirShapes
  BY DEF DirInv
<1>1. dirLeft \in [tasks : 0 .. MaxDirTasks, requests : Nat, faults : Nat, restarts : Nat]
      /\ stranded \subseteq DirIds
  BY <1>0 DEF DirShapes
<1>2. ASSUME isolating[t] # Nil PROVE isolating[t].dir \in DirIds
  BY <1>0, <1>2, DirFields DEF DirShapes
<1>3. CASE GitRefuses(t) \/ GitFails(t)
  <2>1. isolating[t] # Nil /\ TaskGoto(t, "degrade") /\ (UNCHANGED dirLeft \/ Spend("faults"))
        /\ UNCHANGED <<dir, tree, commits, request, stranded>>
    BY <1>3 DEF GitRefuses, GitFails, TaskAt, repository
  <2>2. /\ isolating' \in [IsolationTasks -> {Nil} \cup IsolationRows]
        /\ \A u \in IsolationTasks \ {t} : isolating'[u] = isolating[u]
        /\ isolating'[t] # Nil /\ isolating'[t].pc = "degrade" /\ isolating'[t].dir = isolating[t].dir
        /\ isolating'[t].from = isolating[t].from /\ isolating'[t].branch = isolating[t].branch
    BY <1>0, <2>1, TaskMoves DEF TaskStages
  <2>3. dirLeft' \in [tasks : 0 .. MaxDirTasks, requests : Nat, faults : Nat, restarts : Nat]
        /\ dirLeft'.tasks = dirLeft.tasks
    BY <1>0, <1>1, <2>1, Paid
  <2>4. \A d \in DirIds : Attends(t, d) => Attends(t, d)'
    BY <2>2 DEF Attends
  <2>5. QED
    BY <1>1, <2>1, <2>2, <2>3, <2>4, TaskAlone
<1>4. CASE RecordFails(t)
  <2>1. TaskAt(t, "record") /\ TaskGoto(t, "look") /\ Spend("faults")
        /\ UNCHANGED <<dir, tree, commits, request, stranded>>
    BY <1>4 DEF RecordFails, repository
  <2>2. /\ isolating' \in [IsolationTasks -> {Nil} \cup IsolationRows]
        /\ \A u \in IsolationTasks \ {t} : isolating'[u] = isolating[u]
        /\ isolating'[t] # Nil /\ isolating'[t].pc = "look" /\ isolating'[t].dir = isolating[t].dir
        /\ isolating'[t].from = isolating[t].from /\ isolating'[t].branch = isolating[t].branch
        /\ isolating'[t].written = isolating[t].written
    BY <1>0, <2>1, TaskMoves DEF TaskStages, TaskAt
  <2>3. ~isolating[t].written
    BY <2>1 DEF DirInv, WorkIsAssigned, TaskAt
  <2>4. \A d \in DirIds : Attends(t, d) => Attends(t, d)'
    BY <2>2, <2>3 DEF Attends
  <2>5. QED
    BY <1>0, <1>1, <2>1, <2>2, <2>4, Paid, TaskAlone DEF TaskAt
<1>5. CASE Looks(t)
  <2>  DEFINE to == IF ~Live(isolating[t].dir) THEN "remove"
                    ELSE IF isolating[t].written THEN "reroot" ELSE "degrade"
  <2>1. TaskAt(t, "look") /\ TaskGoto(t, to) /\ UNCHANGED <<dir, tree, commits, request, stranded, dirLeft>>
    BY <1>5 DEF Looks, repository
  <2>2. to \in TaskStages /\ (to = "remove" => ~Live(isolating[t].dir)) /\ to \notin {"git", "record"}
        /\ (Live(isolating[t].dir) /\ ~isolating[t].written => to = "degrade")
    BY DEF TaskStages
  <2>  HIDE DEF to
  <2>3. /\ isolating' \in [IsolationTasks -> {Nil} \cup IsolationRows]
        /\ \A u \in IsolationTasks \ {t} : isolating'[u] = isolating[u]
        /\ isolating'[t] # Nil /\ isolating'[t].pc = to /\ isolating'[t].dir = isolating[t].dir
        /\ isolating'[t].from = isolating[t].from /\ isolating'[t].branch = isolating[t].branch
    BY <1>0, <2>1, <2>2, TaskMoves DEF TaskAt
  <2>4. \A d \in DirIds : Attends(t, d) /\ Live(d) => Attends(t, d)'
    BY <2>1, <2>2, <2>3 DEF Attends, TaskAt
  <2>5. QED
    BY <1>1, <2>1, <2>2, <2>3, <2>4, TaskAlone DEF TaskAt
<1>6. CASE LookFails(t)
  <2>1. TaskAt(t, "look") /\ TaskGoto(t, "remove") /\ Spend("faults")
        /\ UNCHANGED <<dir, tree, commits, request>> /\ stranded' = stranded \cup {isolating[t].dir}
    BY <1>6 DEF LookFails, repository
  <2>2. /\ isolating' \in [IsolationTasks -> {Nil} \cup IsolationRows]
        /\ \A u \in IsolationTasks \ {t} : isolating'[u] = isolating[u]
        /\ isolating'[t] # Nil /\ isolating'[t].pc = "remove" /\ isolating'[t].dir = isolating[t].dir
        /\ isolating'[t].from = isolating[t].from /\ isolating'[t].branch = isolating[t].branch
    BY <1>0, <2>1, TaskMoves DEF TaskStages, TaskAt
  <2>3. \A d \in DirIds : Attends(t, d) => d \in stranded'
    BY <2>1 DEF Attends
  <2>4. stranded \subseteq stranded' /\ stranded' \subseteq DirIds /\ isolating[t].dir \in stranded'
    BY <1>1, <1>2, <2>1 DEF TaskAt
  <2>5. QED
    BY <1>0, <2>1, <2>2, <2>3, <2>4, Paid, TaskAlone DEF TaskAt
<1>7. CASE DegradeFails(t)
  <2>1. isolating[t] # Nil /\ TaskEnds(t) /\ Spend("faults")
        /\ UNCHANGED <<dir, tree, commits, request>> /\ stranded' = stranded \cup {isolating[t].dir}
    BY <1>7 DEF DegradeFails, TaskAt, repository
  <2>2. \A d \in DirIds : Attends(t, d) => d \in stranded'
    BY <2>1 DEF Attends
  <2>3. stranded \subseteq stranded' /\ stranded' \subseteq DirIds
    BY <1>1, <1>2, <2>1
  <2>4. QED
    BY <1>0, <2>1, <2>2, <2>3, Paid, TaskOver, TaskAlone
<1>8. CASE StopsCaptain(t) \/ StartsCaptain(t) \/ CaptainFails(t)
  <2>1. isolating[t] # Nil /\ isolating[t].pc \in {"reroot", "init"}
        /\ (TaskGoto(t, "init") \/ TaskEnds(t)) /\ (UNCHANGED dirLeft \/ Spend("faults"))
        /\ UNCHANGED <<dir, tree, commits, request, stranded>>
    BY <1>8 DEF StopsCaptain, StartsCaptain, CaptainFails, TaskAt, repository
  <2>2. /\ isolating' \in [IsolationTasks -> {Nil} \cup IsolationRows]
        /\ \A u \in IsolationTasks \ {t} : isolating'[u] = isolating[u]
        /\ isolating'[t] # Nil =>
             /\ isolating'[t].pc = "init" /\ isolating'[t].dir = isolating[t].dir
             /\ isolating'[t].from = isolating[t].from /\ isolating'[t].branch = isolating[t].branch
    BY <1>0, <2>1, TaskMoves, TaskOver DEF TaskStages
  <2>3. dirLeft' \in [tasks : 0 .. MaxDirTasks, requests : Nat, faults : Nat, restarts : Nat]
        /\ dirLeft'.tasks = dirLeft.tasks
    BY <1>0, <1>1, <2>1, Paid
  <2>4. \A d \in DirIds : ~Attends(t, d)
    BY <2>1 DEF Attends
  <2>5. QED
    BY <1>1, <2>1, <2>2, <2>3, <2>4, TaskAlone
<1>9. QED
  BY <1>3, <1>4, <1>5, <1>6, <1>7, <1>8

\* A direction is created.
LEMMA DirCreated ==
  ASSUME DirInv, ~NamesAreReused, NEW d \in DirIds, NEW s \in Slugs, NEW st \in {"preparing", "ready"},
         ~Exists(d), SlugIsFree(s), dir' = [dir EXCEPT ![d] = NewDir(s, st)],
         UNCHANGED <<tree, commits, request>>, stranded \subseteq stranded', stranded' \subseteq DirIds,
         dirLeft' \in [tasks : 0 .. MaxDirTasks, requests : Nat, faults : Nat, restarts : Nat],
         isolating' \in [IsolationTasks -> {Nil} \cup IsolationRows],
         MaxDirTasks - dirLeft.tasks <= MaxDirTasks - dirLeft'.tasks,
         \A u \in IsolationTasks : isolating'[u] # isolating[u] =>
           /\ isolating[u] = Nil /\ isolating'[u].dir = d /\ isolating'[u].branch = s
           /\ isolating'[u].pc = "git" /\ ~isolating'[u].written /\ u <= MaxDirTasks - dirLeft'.tasks,
         st = "preparing" /\ d \notin stranded' => \E u \in IsolationTasks : isolating'[u] # isolating[u] /\ isolating'[u] # Nil
  PROVE  DirInv'
<1>0. DirShapes /\ WorkIsAssigned /\ NamesAreOwn
  BY DEF DirInv
<1>  DEFINE n == NewDir(s, st)
<1>a. st \in {"preparing", "ready"} /\ s \in Slugs
  OBVIOUS
<1>1. n \in DirRows /\ n.slug = s /\ n.cwd = Project /\ n.branch = Nil /\ n.isolation = "shared"
      /\ n.state = st /\ n.alive = TRUE
  BY <1>a, NewRow
<1>2. n # Nil
  BY <1>1, DirAssumption
<1>3. dir' = [dir EXCEPT ![d] = n]
  OBVIOUS
<1>  HIDE DEF n
<1>4. /\ dir' \in [DirIds -> {Nil} \cup DirRows] /\ dir'[d] = n
      /\ \A e \in DirIds \ {d} : dir'[e] = dir[e]
  BY <1>0, <1>1, <1>3 DEF DirShapes
<1>5. \A e \in DirIds : Exists(e) => e # d /\ dir[e].slug # s
  BY DEF SlugIsFree
<1>6. \A u \in IsolationTasks : isolating[u] # Nil =>
        isolating'[u] = isolating[u] /\ isolating[u].dir \in DirIds \ {d}
  <2>1. \A u \in IsolationTasks : isolating[u] # Nil => isolating[u].dir \in DirIds /\ Exists(isolating[u].dir)
    BY <1>0, DirFields DEF DirShapes, WorkIsAssigned
  <2>2. QED
    BY <1>5, <2>1
<1>7. \A h \in Requests : request[h] # Nil => request[h].dir \in DirIds \ {d}
  <2>1. \A h \in Requests : request[h] # Nil => request[h].dir \in DirIds /\ Exists(request[h].dir)
    BY <1>0, DirFields DEF DirShapes, WorkIsAssigned
  <2>2. QED
    BY <1>5, <2>1
<1>8. DirShapes'
  BY <1>0, <1>4 DEF DirShapes
<1>9. WorkIsAssigned'
  <2>1. \A h \in Requests : request'[h] # Nil => Exists(request[h].dir)'
    BY <1>0, <1>4, <1>7 DEF WorkIsAssigned, Exists
  <2>2. ASSUME NEW t \in IsolationTasks, isolating'[t] # Nil
        PROVE  /\ Exists(isolating[t].dir)' /\ t <= MaxDirTasks - dirLeft'.tasks
               /\ isolating'[t].pc \in {"git", "record"} => ~isolating'[t].written
    <3>1. CASE isolating[t] = Nil
      BY <1>2, <1>4, <2>2, <3>1 DEF Exists
    <3>2. CASE isolating[t] # Nil
      <4>1. /\ isolating'[t] = isolating[t] /\ isolating[t].dir \in DirIds \ {d} /\ Exists(isolating[t].dir)
            /\ t <= MaxDirTasks - dirLeft.tasks
            /\ isolating[t].pc \in {"git", "record"} => ~isolating[t].written
        BY <1>0, <1>6, <3>2 DEF WorkIsAssigned
      <4>2. t \in Nat /\ MaxDirTasks - dirLeft.tasks \in Int /\ MaxDirTasks - dirLeft'.tasks \in Int
        BY <1>0, DirAssumption DEF IsolationTasks, DirShapes
      <4>3. t <= MaxDirTasks - dirLeft'.tasks
        BY <4>1, <4>2
      <4>4. QED
        BY <1>4, <4>1, <4>3 DEF Exists
    <3>3. QED
      BY <3>1, <3>2
  <2>3. QED
    BY <2>1, <2>2 DEF WorkIsAssigned
<1>10. NamesAreOwn'
  <2>1. \A e, f \in DirIds : Exists(e)' /\ Exists(f)' /\ dir'[e].slug = dir'[f].slug => e = f
    BY <1>0, <1>1, <1>4, <1>5 DEF NamesAreOwn, Exists
  <2>2. \A e \in DirIds : Exists(e)' => HasOwn(dir'[e])
    BY <1>0, <1>1, <1>4 DEF NamesAreOwn, Exists, HasOwn
  <2>3. \A h \in Requests : request'[h] # Nil =>
          HasOwn(request'[h].row) /\ request'[h].row.slug = dir'[request'[h].dir].slug
    BY <1>0, <1>4, <1>7 DEF NamesAreOwn
  <2>4. \A t \in IsolationTasks : isolating'[t] # Nil => isolating'[t].branch = dir'[isolating'[t].dir].slug
    BY <1>0, <1>1, <1>4, <1>6 DEF NamesAreOwn
  <2>5. QED
    BY <1>0, <2>1, <2>2, <2>3, <2>4 DEF NamesAreOwn, HasOwn
<1>11. RemovalIsLate'
  BY <1>4, <1>6, <1>7 DEF DirInv, RemovalIsLate, TaskAt, Live, Exists
<1>12. TreesAreThere'
  <2>1. ASSUME NEW e \in DirIds, Kept(e)', dir'[e].cwd # Project PROVE dir'[e].cwd \in DOMAIN tree
    BY <1>1, <1>4, <2>1 DEF DirInv, TreesAreThere, Kept, Live, Exists
  <2>2. ASSUME NEW t \in IsolationTasks, TaskAt(t, "record")', Kept(isolating[t].dir)' PROVE Dest(t)' \in DOMAIN tree
    <3>1. isolating'[t] = isolating[t] /\ isolating[t] # Nil
      BY <2>2 DEF TaskAt
    <3>2. isolating[t].dir \in DirIds \ {d} /\ TaskAt(t, "record") /\ Kept(isolating[t].dir)
      BY <1>4, <1>6, <2>2, <3>1 DEF TaskAt, Kept, Live, Exists
    <3>3. QED
      BY <3>1, <3>2 DEF DirInv, TreesAreThere, Dest
  <2>3. QED
    BY <2>1, <2>2 DEF TreesAreThere
<1>13. AllAttended'
  <2> SUFFICES ASSUME NEW e \in DirIds, Kept(e)', dir'[e].state = "preparing"
               PROVE  \E u \in IsolationTasks : Attends(u, e)'
    BY DEF AllAttended
  <2>1. CASE e = d
    BY <1>1, <1>4, <2>1 DEF Kept, Attends
  <2>2. CASE e # d
    <3>1. PICK u \in IsolationTasks : Attends(u, e)
      BY <1>4, <2>2 DEF DirInv, AllAttended, Kept, Live, Exists
    <3>2. QED
      BY <1>6, <3>1 DEF Attends
  <2>3. QED
    BY <2>1, <2>2
<1>14. MergesBringAll'
  BY <1>4, <1>7 DEF DirInv, MergesBringAll, Kept, Live, Exists, Uncommitted, OnBranch
<1>15. QED
  BY <1>8, <1>9, <1>10, <1>11, <1>12, <1>13, <1>14 DEF DirInv

LEMMA CreationSteps ==
  ASSUME DirInv, ~NamesAreReused, NEW d \in DirIds, NEW s \in Slugs,
         CreateUnnamed(d, s) \/ CreateIsCut(d, s) \/ \E b \in Slugs : CreateNamed(d, s, b)
  PROVE  DirInv'
<1>0. DirShapes /\ WorkIsAssigned
  BY DEF DirInv
<1>1. /\ dirLeft \in [tasks : 0 .. MaxDirTasks, requests : Nat, faults : Nat, restarts : Nat]
      /\ isolating \in [IsolationTasks -> {Nil} \cup IsolationRows] /\ stranded \subseteq DirIds
      /\ MaxDirTasks - dirLeft.tasks <= MaxDirTasks - dirLeft.tasks
  BY <1>0, DirAssumption DEF DirShapes
<1>2. CASE CreateUnnamed(d, s)
  <2>1. /\ ~Exists(d) /\ SlugIsFree(s) /\ dir' = [dir EXCEPT ![d] = NewDir(s, "ready")]
        /\ UNCHANGED <<tree, commits, request, isolating, stranded, dirLeft>>
    BY <1>2 DEF CreateUnnamed, repository
  <2>2. QED
    BY <1>1, <2>1, DirCreated
<1>3. CASE CreateIsCut(d, s)
  <2>1. /\ ~Exists(d) /\ SlugIsFree(s) /\ dir' = [dir EXCEPT ![d] = NewDir(s, "preparing")]
        /\ UNCHANGED <<tree, commits, request, isolating>> /\ Spend("faults")
        /\ stranded' = stranded \cup {d}
    BY <1>3 DEF CreateIsCut, repository
  <2>2. /\ dirLeft' \in [tasks : 0 .. MaxDirTasks, requests : Nat, faults : Nat, restarts : Nat]
        /\ MaxDirTasks - dirLeft.tasks <= MaxDirTasks - dirLeft'.tasks
    BY <1>0, <1>1, <2>1, Paid
  <2>3. QED
    BY <1>1, <2>1, <2>2, DirCreated
<1>4. CASE \E b \in Slugs : CreateNamed(d, s, b)
  <2>1. /\ ~Exists(d) /\ SlugIsFree(s) /\ dir' = [dir EXCEPT ![d] = NewDir(s, "preparing")]
        /\ UNCHANGED <<tree, commits, request, stranded>>
        /\ Spend("tasks") /\ TaskFor(d, Project, s)
    BY <1>4 DEF CreateNamed, repository
  <2>2. Project \in Seq(Slugs)
    BY DEF Project
  <2>3. PICK t \in IsolationTasks :
           /\ isolating' \in [IsolationTasks -> {Nil} \cup IsolationRows]
           /\ isolating[t] = Nil /\ \A u \in IsolationTasks \ {t} : isolating'[u] = isolating[u]
           /\ isolating'[t] # Nil /\ isolating'[t].pc = "git"
           /\ isolating'[t].dir = d /\ isolating'[t].branch = s /\ ~isolating'[t].written
           /\ t <= MaxDirTasks - dirLeft'.tasks
           /\ MaxDirTasks - dirLeft.tasks <= MaxDirTasks - dirLeft'.tasks
           /\ dirLeft' \in [tasks : 0 .. MaxDirTasks, requests : Nat, faults : Nat, restarts : Nat]
    BY <1>0, <2>1, <2>2, TaskStarts
  <2>4. QED
    BY <1>1, <2>1, <2>3, DirCreated
<1>5. QED
  BY <1>2, <1>3, <1>4


-----------------------------------------------------------------------------
(* Steps on the disk.                                                       *)

\* What the invariant does not speak of.
LEMMA DirUntouched ==
  ASSUME DirInv, UNCHANGED <<dir, tree, commits, request, isolating, stranded, dirLeft>>
  PROVE  DirInv'
  BY DEF DirInv, DirShapes, WorkIsAssigned, NamesAreOwn, HasOwn, RemovalIsLate, TreesAreThere, Kept,
         AllAttended, Attends, MergesBringAll, Exists, Live, TaskAt, Dest, Uncommitted, OnBranch

\* Worktrees that stay where they are and branches that only grow keep the
\* invariant; a handler may go on to merge what its branch then holds.
LEMMA WorkIsKept ==
  ASSUME DirInv, UNCHANGED <<dir, isolating, stranded, dirLeft>>,
         DOMAIN tree' = DOMAIN tree,
         \A p \in DOMAIN tree : tree'[p] \in [branch : Slugs, dirty : SUBSET DirIds],
         \A p \in DOMAIN tree : tree'[p].branch = tree[p].branch,
         commits' \in [Slugs -> {Nil} \cup SUBSET DirIds],
         \A b \in Slugs : commits[b] # Nil => commits'[b] # Nil /\ commits[b] \subseteq commits'[b],
         \A p \in DOMAIN tree : tree[p].dirty \subseteq tree'[p].dirty \cup commits'[tree[p].branch],
         request' \in [Requests -> {Nil} \cup RequestRows],
         \A k \in Requests : request'[k] # request[k] =>
           /\ request[k] # Nil /\ request'[k].dir = request[k].dir /\ request'[k].row = request[k].row
           /\ request[k].row.isolation = "worktree" /\ request'[k].pc = "merge"
           /\ Kept(request[k].dir) => request'[k].seen \subseteq commits'[request[k].row.branch]
                                      /\ commits'[request[k].row.branch] # Nil /\ request[k].row.branch # Nil
  PROVE  DirInv'
<1>0. DirShapes /\ WorkIsAssigned /\ NamesAreOwn /\ RemovalIsLate
  BY DEF DirInv
<1>1. DirShapes'
  BY <1>0 DEF DirShapes
<1>2. WorkIsAssigned'
  BY <1>0 DEF WorkIsAssigned, Exists
<1>3. NamesAreOwn'
  <2>1. \A h \in Requests : request'[h] # Nil =>
          HasOwn(request'[h].row) /\ request'[h].row.slug = dir'[request'[h].dir].slug
    BY <1>0 DEF NamesAreOwn
  <2>2. \A p \in DOMAIN tree' : tree'[p].branch = BranchOf(p) /\ commits'[tree'[p].branch] # Nil
    BY <1>0 DEF NamesAreOwn, DirShapes
  <2>3. \A d, e \in DirIds : Exists(d)' /\ Exists(e)' /\ dir'[d].slug = dir'[e].slug => d = e
    BY <1>0 DEF NamesAreOwn, Exists
  <2>4. \A d \in DirIds : Exists(d)' => HasOwn(dir'[d])
    BY <1>0 DEF NamesAreOwn, Exists
  <2>5. \A t \in IsolationTasks : isolating'[t] # Nil => isolating'[t].branch = dir'[isolating'[t].dir].slug
    BY <1>0 DEF NamesAreOwn
  <2>6. QED
    BY <2>1, <2>2, <2>3, <2>4, <2>5 DEF NamesAreOwn, HasOwn
<1>4. RemovalIsLate'
  BY <1>0 DEF RemovalIsLate, TaskAt, Live, Exists
<1>5. TreesAreThere'
  BY DEF DirInv, TreesAreThere, TaskAt, Dest, Kept, Live, Exists
<1>6. AllAttended'
  BY DEF DirInv, AllAttended, Attends, Kept, Live, Exists
<1>7. MergesBringAll'
  <2>1. \A b \in Slugs \cup {Nil} : OnBranch(b) \subseteq OnBranch(b)'
    BY DEF OnBranch
  <2>2. ASSUME NEW k \in Requests, request'[k] = request[k], request[k] # Nil, Kept(request[k].dir)
        PROVE  /\ request[k].pc = "commit" =>
                    /\ request[k].row.cwd \in DOMAIN tree'
                    /\ request[k].seen \subseteq Uncommitted(request[k].row.cwd)' \cup OnBranch(request[k].row.branch)'
               /\ request[k].pc = "merge" => request[k].seen \subseteq OnBranch(request[k].row.branch)'
    <3>1. request[k].row \in DirRows /\ request[k].row.branch \in Slugs \cup {Nil}
      BY <1>0, <2>2, DirFields DEF DirShapes
    <3>2. CASE request[k].pc = "commit"
      <4>  DEFINE c == request[k].row.cwd
                  b == request[k].row.branch
      <4>1. c \in DOMAIN tree /\ request[k].seen \subseteq Uncommitted(c) \cup OnBranch(b)
        BY <2>2, <3>2 DEF DirInv, MergesBringAll
      <4>2. b = BranchOf(c) /\ tree[c].branch = b /\ commits[b] # Nil
        BY <1>0, <2>2, <3>2, <4>1 DEF NamesAreOwn, HasOwn, RemovalIsLate, DirShapes
      <4>3. b \in Slugs
        BY <1>0, <4>1, <4>2 DEF DirShapes
      <4>4. b # Nil
        BY <4>3, DirAssumption
      <4>5. OnBranch(b)' = commits'[b]
        BY <4>2, <4>3, <4>4 DEF OnBranch
      <4>6. Uncommitted(c) = tree[c].dirty /\ Uncommitted(c)' = tree'[c].dirty
        BY <4>1 DEF Uncommitted
      <4>7. OnBranch(b) \subseteq OnBranch(b)' /\ tree[c].dirty \subseteq tree'[c].dirty \cup commits'[b]
        BY <2>1, <4>1, <4>2, <4>3
      <4>  HIDE DEF c, b
      <4>8. request[k].seen \subseteq Uncommitted(c)' \cup OnBranch(b)'
        BY <4>1, <4>5, <4>6, <4>7
      <4>9. QED
        BY <3>2, <4>1, <4>8 DEF c, b
    <3>3. CASE request[k].pc = "merge"
      <4>1. request[k].seen \subseteq OnBranch(request[k].row.branch)
        BY <2>2, <3>3 DEF DirInv, MergesBringAll
      <4>2. QED
        BY <2>1, <3>1, <3>3, <4>1
    <3>4. QED
      BY <3>2, <3>3
  <2>3. ASSUME NEW k \in Requests, request'[k] # request[k], request'[k] # Nil, Kept(request[k].dir)
        PROVE  request'[k].pc = "merge" /\ request'[k].seen \subseteq OnBranch(request[k].row.branch)'
    BY <2>3 DEF OnBranch
  <2>4. \A k \in Requests : request'[k] # Nil =>
          request[k] # Nil /\ (Kept(request[k].dir)' <=> Kept(request[k].dir)) /\ request'[k].dir = request[k].dir
    BY DEF Kept, Live, Exists
  <2>5. ASSUME NEW k \in Requests, request'[k] # Nil, Kept(request[k].dir)'
        PROVE  /\ request'[k].pc = "commit" =>
                    /\ request'[k].row.cwd \in DOMAIN tree'
                    /\ request'[k].seen \subseteq Uncommitted(request[k].row.cwd)' \cup OnBranch(request[k].row.branch)'
               /\ request'[k].pc = "merge" => request'[k].seen \subseteq OnBranch(request[k].row.branch)'
    <3>1. CASE request'[k] = request[k]
      BY <2>2, <2>4, <2>5, <3>1
    <3>2. CASE request'[k] # request[k]
      BY <2>3, <2>4, <2>5, <3>2
    <3>3. QED
      BY <3>1, <3>2
  <2>6. QED
    BY <2>5 DEF MergesBringAll
<1>8. QED
  BY <1>1, <1>2, <1>3, <1>4, <1>5, <1>6, <1>7 DEF DirInv

\* Somebody works, or what lies in a worktree is committed.
LEMMA WorkSteps ==
  ASSUME DirInv, \/ \E d \in DirIds : Work(d)
                 \/ \E h \in Requests : Commits(h)
  PROVE  DirInv'
<1>0. DirShapes /\ NamesAreOwn /\ RemovalIsLate
  BY DEF DirInv
<1>1. CASE \E d \in DirIds : Work(d)
  <2>1. PICK d \in DirIds : Work(d)
    BY <1>1
  <2>2. UNCHANGED <<dir, commits, request, isolating, stranded, dirLeft>>
    BY <2>1 DEF Work
  <2>3. CASE captainIn[d] \in DOMAIN tree
    <3>1. tree' = [tree EXCEPT ![captainIn[d]].dirty = @ \cup {d}]
      BY <2>1, <2>3 DEF Work
    <3>2. \A p \in DOMAIN tree : tree[p] \in [branch : Slugs, dirty : SUBSET DirIds]
      BY <1>0 DEF DirShapes
    <3>3. DOMAIN tree' = DOMAIN tree
      BY <3>1
    <3>4. \A p \in DOMAIN tree : /\ tree'[p] \in [branch : Slugs, dirty : SUBSET DirIds]
                                 /\ tree'[p].branch = tree[p].branch /\ tree[p].dirty \subseteq tree'[p].dirty
      <4>1. \A p \in DOMAIN tree : p # captainIn[d] => tree'[p] = tree[p]
        BY <3>1
      <4>2. tree'[captainIn[d]] = [tree[captainIn[d]] EXCEPT !.dirty = @ \cup {d}]
        BY <2>3, <3>1
      <4>3. /\ tree'[captainIn[d]] \in [branch : Slugs, dirty : SUBSET DirIds]
            /\ tree'[captainIn[d]].branch = tree[captainIn[d]].branch
            /\ tree[captainIn[d]].dirty \subseteq tree'[captainIn[d]].dirty
        BY <2>3, <3>2, <4>2
      <4>4. QED
        BY <3>2, <4>1, <4>3
    <3>5. commits \in [Slugs -> {Nil} \cup SUBSET DirIds] /\ request \in [Requests -> {Nil} \cup RequestRows]
      BY <1>0 DEF DirShapes
    <3>6. QED
      BY <2>2, <3>3, <3>4, <3>5, WorkIsKept
  <2>4. CASE captainIn[d] \notin DOMAIN tree
    <3>1. tree' = tree
      BY <2>1, <2>4 DEF Work
    <3>2. QED
      BY <2>2, <3>1, DirUntouched
  <2>5. QED
    BY <2>3, <2>4
<1>2. CASE \E h \in Requests : Commits(h)
  <2>1. PICK h \in Requests : Commits(h)
    BY <1>2
  <2>  DEFINE p == request[h].row.cwd
              b == request[h].row.branch
  <2>2. /\ request[h] # Nil /\ request[h].pc = "commit" /\ RequestTo(h, "merge")
        /\ UNCHANGED <<dir, isolating, stranded, dirLeft>>
    BY <2>1 DEF Commits, RequestAt
  <2>3. /\ request' \in [Requests -> {Nil} \cup RequestRows]
        /\ \A k \in Requests \ {h} : request'[k] = request[k]
        /\ request'[h].pc = "merge" /\ request'[h].dir = request[h].dir /\ request'[h].row = request[h].row
        /\ request'[h].seen = request[h].seen
    BY <1>0, <2>2, RequestMoves DEF RequestStages
  <2>4. request[h].row.isolation = "worktree" /\ HasOwn(request[h].row) /\ request[h].row \in DirRows
    BY <1>0, <2>2, DirFields DEF RemovalIsLate, NamesAreOwn, DirShapes
  <2>5. p # Project /\ b = BranchOf(p) /\ b \in Slugs /\ b # Nil
    BY <2>4, DirFields, DirAssumption DEF HasOwn
  <2>6. Kept(request[h].dir) => p \in DOMAIN tree /\ request[h].seen \subseteq Uncommitted(p) \cup OnBranch(b)
    BY <2>2 DEF DirInv, MergesBringAll
  <2>7. commits \in [Slugs -> {Nil} \cup SUBSET DirIds]
        /\ \A q \in DOMAIN tree : tree[q] \in [branch : Slugs, dirty : SUBSET DirIds]
    BY <1>0 DEF DirShapes
  <2>8. CASE p \in DOMAIN tree
    <3>1. /\ commits' = [commits EXCEPT ![tree[p].branch] = @ \cup tree[p].dirty]
          /\ tree' = [tree EXCEPT ![p].dirty = {}]
      BY <2>1, <2>8 DEF Commits
    <3>2. tree[p].branch = b /\ commits[b] # Nil /\ commits[b] \subseteq DirIds /\ tree[p].dirty \subseteq DirIds
      BY <1>0, <2>5, <2>7, <2>8 DEF NamesAreOwn
    <3>3. commits' = [commits EXCEPT ![b] = commits[b] \cup tree[p].dirty]
      BY <3>1, <3>2
    <3>  HIDE DEF p, b
    <3>4. /\ commits' \in [Slugs -> {Nil} \cup SUBSET DirIds]
          /\ commits'[b] = commits[b] \cup tree[p].dirty /\ commits'[b] # Nil
          /\ \A c \in Slugs \ {b} : commits'[c] = commits[c]
      <4>1. commits[b] \cup tree[p].dirty \in SUBSET DirIds
        BY <3>2
      <4>2. commits[b] \cup tree[p].dirty # Nil
        BY <4>1, DirAssumption
      <4>3. QED
        BY <2>5, <2>7, <3>3, <4>1, <4>2
    <3>5. \A c \in Slugs : commits[c] # Nil => commits'[c] # Nil /\ commits[c] \subseteq commits'[c]
      BY <3>4
    <3>6. /\ DOMAIN tree' = DOMAIN tree /\ \A q \in DOMAIN tree : q # p => tree'[q] = tree[q]
          /\ tree'[p] = [tree[p] EXCEPT !.dirty = {}]
      BY <2>8, <3>1
    <3>7. tree'[p] \in [branch : Slugs, dirty : SUBSET DirIds] /\ tree'[p].branch = tree[p].branch
      BY <2>7, <2>8, <3>6
    <3>8. \A q \in DOMAIN tree : tree'[q] \in [branch : Slugs, dirty : SUBSET DirIds]
                                 /\ tree'[q].branch = tree[q].branch
      BY <2>7, <3>6, <3>7
    <3>9. \A q \in DOMAIN tree : tree[q].dirty \subseteq tree'[q].dirty \cup commits'[tree[q].branch]
      BY <3>2, <3>4, <3>6
    <3>10. Kept(request[h].dir) => request[h].seen \subseteq commits'[b]
      <4>1. Uncommitted(p) = tree[p].dirty /\ OnBranch(b) = commits[b]
        BY <2>5, <2>8, <3>2 DEF Uncommitted, OnBranch
      <4>2. QED
        BY <2>6, <3>4, <4>1
    <3>11. \A k \in Requests : request'[k] # request[k] => k = h
      BY <2>3
    <3>12. request[h].row.branch = b
      BY DEF b
    <3>13. QED
      BY <2>2, <2>3, <2>4, <2>5, <3>4, <3>5, <3>6, <3>8, <3>9, <3>10, <3>11, <3>12, WorkIsKept
  <2>9. CASE p \notin DOMAIN tree
    <3>1. UNCHANGED <<tree, commits>> /\ ~Kept(request[h].dir)
      BY <2>1, <2>6, <2>9 DEF Commits
    <3>2. \A k \in Requests : request'[k] # request[k] => k = h
      BY <2>3
    <3>3. QED
      BY <2>2, <2>3, <2>4, <2>7, <3>1, <3>2, WorkIsKept
  <2>10. QED
    BY <2>8, <2>9
<1>3. QED
  BY <1>1, <1>2

\* The worktree of a direction that is deleted or cut off goes.
LEMMA TreeRemoved ==
  ASSUME DirInv, NEW d \in DirIds, Exists(d), ~Kept(d), NEW p, p = Project \/ BranchOf(p) = dir[d].slug,
         tree' = Without(p), UNCHANGED <<dir, commits, stranded, dirLeft>>,
         request' \in [Requests -> {Nil} \cup RequestRows],
         \A k \in Requests : request'[k] # request[k] =>
           /\ request[k] # Nil /\ request'[k].dir = request[k].dir /\ request'[k].row = request[k].row
           /\ request'[k].pc = "branch" /\ ~Live(request[k].dir) /\ request[k].row.isolation = "worktree",
         isolating' \in [IsolationTasks -> {Nil} \cup IsolationRows],
         \A u \in IsolationTasks : isolating'[u] # isolating[u] =>
           isolating'[u] = Nil /\ isolating[u].pc = "remove"
  PROVE  DirInv'
<1>0. DirShapes /\ WorkIsAssigned /\ NamesAreOwn /\ RemovalIsLate
  BY DEF DirInv
<1>1. DOMAIN tree' = DOMAIN tree \ {p} /\ \A q \in DOMAIN tree' : tree'[q] = tree[q]
  BY DEF Without
<1>2. DirShapes'
  BY <1>0, <1>1 DEF DirShapes
<1>3. WorkIsAssigned'
  BY <1>0 DEF WorkIsAssigned, Exists
<1>4. NamesAreOwn'
  BY <1>0, <1>1 DEF NamesAreOwn, HasOwn, Exists
<1>5. RemovalIsLate'
  BY <1>0 DEF RemovalIsLate, TaskAt, Live, Exists
<1>6. \A e \in DirIds : Kept(e) => e # d /\ Exists(e) /\ dir[e].slug # dir[d].slug
  BY <1>0 DEF NamesAreOwn, Kept, Live
<1>7. \A q \in DOMAIN tree, e \in DirIds : Kept(e) /\ BranchOf(q) = dir[e].slug => q \in DOMAIN tree'
  BY <1>0, <1>1, <1>6 DEF DirShapes
<1>8. TreesAreThere'
  <2>1. ASSUME NEW e \in DirIds, Kept(e), dir[e].cwd # Project PROVE dir[e].cwd \in DOMAIN tree'
    <3>1. dir[e].cwd \in DOMAIN tree /\ BranchOf(dir[e].cwd) = dir[e].slug
      BY <1>0, <1>6, <2>1 DEF DirInv, TreesAreThere, NamesAreOwn, HasOwn
    <3>2. QED
      BY <1>7, <2>1, <3>1
  <2>2. ASSUME NEW t \in IsolationTasks, TaskAt(t, "record")', Kept(isolating[t].dir)' PROVE Dest(t)' \in DOMAIN tree'
    <3>1. isolating'[t] = isolating[t] /\ isolating[t] # Nil /\ isolating[t].dir \in DirIds
          /\ isolating[t].branch \in Slugs /\ isolating[t].from \in Seq(Slugs)
      BY <1>0, <2>2, DirFields DEF TaskAt, DirShapes
    <3>2. TaskAt(t, "record") /\ Kept(isolating[t].dir)
      BY <2>2, <3>1 DEF TaskAt, Kept, Live, Exists
    <3>3. Dest(t) \in DOMAIN tree /\ isolating[t].branch = dir[isolating[t].dir].slug
      BY <1>0, <3>1, <3>2 DEF DirInv, TreesAreThere, NamesAreOwn
    <3>4. BranchOf(Dest(t)) = isolating[t].branch
      BY <3>1 DEF BranchOf, Dest, WorktreeDest
    <3>5. Dest(t) \in DOMAIN tree'
      BY <1>7, <3>1, <3>2, <3>3, <3>4
    <3>6. QED
      BY <3>1, <3>5 DEF Dest
  <2>3. QED
    BY <2>1, <2>2 DEF TreesAreThere, Kept, Live, Exists
<1>9. AllAttended'
  <2> SUFFICES ASSUME NEW e \in DirIds, Kept(e)', dir'[e].state = "preparing"
               PROVE  \E u \in IsolationTasks : Attends(u, e)'
    BY DEF AllAttended
  <2>1. PICK u \in IsolationTasks : Attends(u, e)
    BY DEF DirInv, AllAttended, Kept, Live, Exists
  <2>2. isolating'[u] = isolating[u]
    BY <2>1 DEF Attends
  <2>3. QED
    BY <2>1, <2>2 DEF Attends
<1>10. MergesBringAll'
  <2> SUFFICES ASSUME NEW k \in Requests, request'[k] # Nil, Kept(request[k].dir)', request'[k].pc \in {"commit", "merge"}
               PROVE  /\ request'[k].pc = "commit" =>
                           /\ request'[k].row.cwd \in DOMAIN tree'
                           /\ request'[k].seen \subseteq Uncommitted(request[k].row.cwd)' \cup OnBranch(request[k].row.branch)'
                      /\ request'[k].pc = "merge" => request'[k].seen \subseteq OnBranch(request[k].row.branch)'
    BY DEF MergesBringAll
  <2>1. request'[k] = request[k] /\ request[k].dir \in DirIds /\ Kept(request[k].dir)
    BY <1>0, DirFields DEF DirShapes, Kept, Live, Exists
  <2>2. /\ request[k].pc = "commit" =>
             /\ request[k].row.cwd \in DOMAIN tree
             /\ request[k].seen \subseteq Uncommitted(request[k].row.cwd) \cup OnBranch(request[k].row.branch)
        /\ request[k].pc = "merge" => request[k].seen \subseteq OnBranch(request[k].row.branch)
    BY <2>1 DEF DirInv, MergesBringAll
  <2>3. OnBranch(request[k].row.branch)' = OnBranch(request[k].row.branch)
    BY <2>1 DEF OnBranch
  <2>4. CASE request[k].pc = "commit"
    <3>1. request[k].row.cwd # Project /\ BranchOf(request[k].row.cwd) = dir[request[k].dir].slug
      BY <1>0, <2>1, <2>4 DEF RemovalIsLate, NamesAreOwn, HasOwn
    <3>2. request[k].row.cwd \in DOMAIN tree'
      BY <1>7, <2>1, <2>2, <2>4, <3>1
    <3>3. Uncommitted(request[k].row.cwd)' = Uncommitted(request[k].row.cwd)
      BY <1>1, <2>1, <2>2, <2>4, <3>2 DEF Uncommitted
    <3>4. QED
      BY <2>1, <2>2, <2>3, <2>4, <3>2, <3>3
  <2>5. CASE request[k].pc = "merge"
    BY <2>1, <2>2, <2>3, <2>5
  <2>6. QED
    BY <2>1, <2>4, <2>5
<1>11. QED
  BY <1>2, <1>3, <1>4, <1>5, <1>8, <1>9, <1>10 DEF DirInv

\* A worktree or a branch is removed.
LEMMA RemovalSteps ==
  ASSUME DirInv, \/ \E h \in Requests : RemovesTree(h) \/ DeletesBranch(h)
                 \/ \E t \in IsolationTasks : Discards(t)
  PROVE  DirInv'
<1>0. DirShapes /\ WorkIsAssigned /\ NamesAreOwn /\ RemovalIsLate
  BY DEF DirInv
<1>1. request \in [Requests -> {Nil} \cup RequestRows] /\ isolating \in [IsolationTasks -> {Nil} \cup IsolationRows]
  BY <1>0 DEF DirShapes
<1>2. CASE \E h \in Requests : RemovesTree(h)
  <2>1. PICK h \in Requests : RemovesTree(h)
    BY <1>2
  <2>2. /\ request[h] # Nil /\ request[h].pc = "remove" /\ RequestTo(h, "branch")
        /\ tree' = Without(request[h].row.cwd) /\ UNCHANGED <<dir, commits, isolating, stranded, dirLeft>>
    BY <2>1 DEF RemovesTree, RequestAt
  <2>3. /\ request' \in [Requests -> {Nil} \cup RequestRows]
        /\ \A k \in Requests \ {h} : request'[k] = request[k]
        /\ request'[h].pc = "branch" /\ request'[h].dir = request[h].dir /\ request'[h].row = request[h].row
    BY <1>0, <2>2, RequestMoves DEF RequestStages
  <2>4. /\ ~Live(request[h].dir) /\ request[h].row.isolation = "worktree" /\ HasOwn(request[h].row)
        /\ request[h].row.slug = dir[request[h].dir].slug /\ request[h].dir \in DirIds /\ Exists(request[h].dir)
    BY <1>0, <2>2, DirFields DEF RemovalIsLate, NamesAreOwn, WorkIsAssigned, DirShapes
  <2>5. ~Kept(request[h].dir) /\ (request[h].row.cwd = Project \/ BranchOf(request[h].row.cwd) = dir[request[h].dir].slug)
    BY <2>4 DEF Kept, HasOwn
  <2>6. \A k \in Requests : request'[k] # request[k] => k = h
    BY <2>3
  <2>7. QED
    BY <1>1, <2>2, <2>3, <2>4, <2>5, <2>6, TreeRemoved
<1>3. CASE \E t \in IsolationTasks : Discards(t)
  <2>1. PICK t \in IsolationTasks : Discards(t)
    BY <1>3
  <2>2. /\ isolating[t] # Nil /\ isolating[t].pc = "remove" /\ TaskEnds(t)
        /\ tree' = Without(Dest(t)) /\ UNCHANGED <<dir, commits, request, stranded, dirLeft>>
    BY <2>1 DEF Discards, TaskAt
  <2>3. /\ isolating' \in [IsolationTasks -> {Nil} \cup IsolationRows]
        /\ \A u \in IsolationTasks \ {t} : isolating'[u] = isolating[u]
        /\ isolating'[t] = Nil
    BY <1>0, <2>2, TaskOver
  <2>4. /\ isolating[t].dir \in DirIds /\ isolating[t].branch \in Slugs /\ isolating[t].from \in Seq(Slugs)
        /\ Exists(isolating[t].dir) /\ isolating[t].branch = dir[isolating[t].dir].slug
    BY <1>0, <2>2, DirFields DEF NamesAreOwn, WorkIsAssigned, DirShapes
  <2>5. ~Kept(isolating[t].dir)
    BY <1>0, <2>2 DEF RemovalIsLate, TaskAt, Kept
  <2>6. BranchOf(Dest(t)) = isolating[t].branch
    BY <2>4 DEF BranchOf, Dest, WorktreeDest
  <2>7. \A u \in IsolationTasks : isolating'[u] # isolating[u] => u = t
    BY <2>3
  <2>8. QED
    BY <1>1, <2>2, <2>3, <2>4, <2>5, <2>6, <2>7, TreeRemoved
<1>4. CASE \E h \in Requests : DeletesBranch(h)
  <2>1. PICK h \in Requests : DeletesBranch(h)
    BY <1>4
  <2>  DEFINE b == request[h].row.branch
  <2>2. /\ request[h] # Nil /\ request[h].pc = "branch" /\ RequestEnds(h)
        /\ commits' = IF b = Nil \/ CheckedOut(b) THEN commits ELSE [commits EXCEPT ![b] = Nil]
        /\ UNCHANGED <<dir, tree, isolating, stranded, dirLeft>>
    BY <2>1 DEF DeletesBranch, RequestAt
  <2>3. /\ request' \in [Requests -> {Nil} \cup RequestRows]
        /\ \A k \in Requests \ {h} : request'[k] = request[k]
        /\ request'[h] = Nil
    BY <1>0, <2>2, RequestOver
  <2>4. /\ ~Live(request[h].dir) /\ HasOwn(request[h].row) /\ request[h].row \in DirRows
        /\ request[h].row.slug = dir[request[h].dir].slug /\ request[h].dir \in DirIds /\ Exists(request[h].dir)
    BY <1>0, <2>2, DirFields DEF RemovalIsLate, NamesAreOwn, WorkIsAssigned, DirShapes
  <2>5. b = Nil \/ b = dir[request[h].dir].slug
    BY <2>4 DEF HasOwn
  <2>  HIDE DEF b
  <2>6. /\ commits' \in [Slugs -> {Nil} \cup SUBSET DirIds]
        /\ \A c \in Slugs : c # b \/ CheckedOut(c) => commits'[c] = commits[c]
    BY <1>0, <2>2 DEF DirShapes
  <2>7. DirShapes'
    BY <1>0, <2>2, <2>3, <2>6 DEF DirShapes
  <2>8. WorkIsAssigned'
    BY <1>0, <2>2, <2>3 DEF WorkIsAssigned, Exists
  <2>9. NamesAreOwn'
    <3>1. \A p \in DOMAIN tree : tree[p].branch \in Slugs /\ CheckedOut(tree[p].branch)
      BY <1>0 DEF DirShapes, CheckedOut
    <3>2. \A p \in DOMAIN tree : tree[p].branch = BranchOf(p) /\ commits'[tree[p].branch] # Nil
      BY <1>0, <2>6, <3>1 DEF NamesAreOwn
    <3>3. QED
      BY <1>0, <2>2, <2>3, <3>2 DEF NamesAreOwn, HasOwn, Exists
  <2>10. RemovalIsLate'
    BY <1>0, <2>2, <2>3 DEF RemovalIsLate, TaskAt, Live, Exists
  <2>11. TreesAreThere'
    BY <2>2 DEF DirInv, TreesAreThere, TaskAt, Dest, Kept, Live, Exists
  <2>12. AllAttended'
    BY <2>2 DEF DirInv, AllAttended, Attends, Kept, Live, Exists
  <2>13. MergesBringAll'
    <3> SUFFICES ASSUME NEW k \in Requests, request'[k] # Nil, Kept(request[k].dir)', request'[k].pc \in {"commit", "merge"}
                 PROVE  /\ request'[k].pc = "commit" =>
                             /\ request'[k].row.cwd \in DOMAIN tree'
                             /\ request'[k].seen \subseteq Uncommitted(request[k].row.cwd)' \cup OnBranch(request[k].row.branch)'
                        /\ request'[k].pc = "merge" => request'[k].seen \subseteq OnBranch(request[k].row.branch)'
      BY DEF MergesBringAll
    <3>1. request'[k] = request[k] /\ request[k].dir \in DirIds /\ Kept(request[k].dir) /\ Exists(request[k].dir)
      BY <1>0, <2>2, <2>3, DirFields DEF DirShapes, WorkIsAssigned, Kept, Live, Exists
    <3>2. /\ request[k].pc = "commit" =>
               /\ request[k].row.cwd \in DOMAIN tree
               /\ request[k].seen \subseteq Uncommitted(request[k].row.cwd) \cup OnBranch(request[k].row.branch)
          /\ request[k].pc = "merge" => request[k].seen \subseteq OnBranch(request[k].row.branch)
      BY <3>1 DEF DirInv, MergesBringAll
    <3>3. request[k].dir # request[h].dir
      BY <2>4, <3>1 DEF Kept
    <3>4. dir[request[k].dir].slug # dir[request[h].dir].slug
      BY <1>0, <2>4, <3>1, <3>3 DEF NamesAreOwn
    <3>5. request[k].row.branch \in Slugs /\ request[k].row.branch = dir[request[k].dir].slug
      <4>1. request[k].row.isolation = "worktree" /\ request[k].row \in DirRows
        BY <1>0, <3>1, DirFields DEF RemovalIsLate, DirShapes
      <4>2. request[k].row.slug = dir[request[k].dir].slug /\ request[k].row.branch = request[k].row.slug
        BY <1>0, <3>1, <4>1 DEF NamesAreOwn, HasOwn
      <4>3. QED
        BY <4>1, <4>2, DirFields
    <3>6. request[k].row.branch # b
      BY <2>5, <3>4, <3>5, DirAssumption
    <3>7. OnBranch(request[k].row.branch)' = OnBranch(request[k].row.branch)
      BY <2>6, <3>1, <3>5, <3>6 DEF OnBranch
    <3>8. Uncommitted(request[k].row.cwd)' = Uncommitted(request[k].row.cwd)
      BY <2>2, <3>1 DEF Uncommitted
    <3>9. QED
      BY <2>2, <3>1, <3>2, <3>7, <3>8
  <2>14. QED
    BY <2>7, <2>8, <2>9, <2>10, <2>11, <2>12, <2>13 DEF DirInv
<1>5. QED
  BY <1>2, <1>3, <1>4

-----------------------------------------------------------------------------
(* Steps on the rows.                                                       *)

\* A handler starts from the row as it is.
LEMMA Asked ==
  ASSUME DirInv, NEW h \in Requests, NEW d \in DirIds, NEW pc \in {"name", "stop", "commit"}, Ask(h, d, pc),
         pc = "commit" => dir[d].isolation = "worktree"
  PROVE  DirInv'
<1>0. DirShapes /\ WorkIsAssigned /\ NamesAreOwn /\ RemovalIsLate
  BY DEF DirInv
<1>  DEFINE work == Uncommitted(dir[d].cwd) \cup OnBranch(dir[d].branch)
            q == [dir |-> d, row |-> dir[d], pc |-> pc, seen |-> work]
<1>1. /\ request[h] = Nil /\ Exists(d) /\ Spend("requests") /\ request' = [request EXCEPT ![h] = q]
      /\ UNCHANGED <<dir, tree, commits, isolating, stranded>>
  BY DEF Ask, repository
<1>2. dir[d] \in DirRows /\ HasOwn(dir[d])
  BY <1>0, <1>1, LiveIsRow DEF NamesAreOwn
<1>3. work \subseteq DirIds
  <2>1. Uncommitted(dir[d].cwd) \subseteq DirIds
    BY <1>0 DEF DirShapes, Uncommitted
  <2>2. dir[d].branch \in Slugs \cup {Nil}
    BY <1>2, DirFields
  <2>3. OnBranch(dir[d].branch) \subseteq DirIds
    BY <1>0, <2>2 DEF DirShapes, OnBranch
  <2>4. QED
    BY <2>1, <2>3
<1>  HIDE DEF work
<1>4. q \in RequestRows /\ q.dir = d /\ q.row = dir[d] /\ q.pc = pc /\ q.seen = work
  BY <1>2, <1>3 DEF RequestRows
<1>5. q # Nil
  BY <1>4, DirAssumption
<1>  HIDE DEF q
<1>6. /\ request' \in [Requests -> {Nil} \cup RequestRows] /\ request'[h] = q
      /\ \A k \in Requests \ {h} : request'[k] = request[k]
  BY <1>0, <1>1, <1>4 DEF DirShapes
<1>7. dirLeft' \in [tasks : 0 .. MaxDirTasks, requests : Nat, faults : Nat, restarts : Nat]
      /\ dirLeft'.tasks = dirLeft.tasks
  BY <1>0, <1>1, Paid
<1>8. DirShapes'
  BY <1>0, <1>1, <1>6, <1>7 DEF DirShapes
<1>9. WorkIsAssigned'
  BY <1>0, <1>1, <1>4, <1>6, <1>7 DEF WorkIsAssigned, Exists
<1>10. NamesAreOwn'
  BY <1>0, <1>1, <1>2, <1>4, <1>6 DEF NamesAreOwn, HasOwn, Exists
<1>11. RemovalIsLate'
  BY <1>0, <1>1, <1>4, <1>6 DEF RemovalIsLate, TaskAt, Live, Exists
<1>12. TreesAreThere'
  BY <1>1 DEF DirInv, TreesAreThere, TaskAt, Dest, Kept, Live, Exists
<1>13. AllAttended'
  BY <1>1 DEF DirInv, AllAttended, Attends, Kept, Live, Exists
<1>14. MergesBringAll'
  <2>1. ASSUME pc = "commit", Kept(d)
        PROVE  dir[d].cwd \in DOMAIN tree
    BY <1>2, <2>1 DEF DirInv, TreesAreThere, HasOwn
  <2>2. \A p, b : Uncommitted(p)' = Uncommitted(p) /\ OnBranch(b)' = OnBranch(b)
    BY <1>1 DEF Uncommitted, OnBranch
  <2>3. \A e \in DirIds : Kept(e)' <=> Kept(e)
    BY <1>1 DEF Kept, Live, Exists
  <2> SUFFICES ASSUME NEW k \in Requests, request'[k] # Nil, Kept(request[k].dir)', request'[k].pc \in {"commit", "merge"}
               PROVE  /\ request'[k].pc = "commit" =>
                           /\ request'[k].row.cwd \in DOMAIN tree'
                           /\ request'[k].seen \subseteq Uncommitted(request[k].row.cwd)' \cup OnBranch(request[k].row.branch)'
                      /\ request'[k].pc = "merge" => request'[k].seen \subseteq OnBranch(request[k].row.branch)'
    BY DEF MergesBringAll
  <2>4. CASE k = h
    <3>1. request'[k].pc = "commit" /\ request'[k].dir = d /\ request'[k].row = dir[d] /\ request'[k].seen = work
      BY <1>4, <1>6, <2>4
    <3>2. Kept(d) /\ pc = "commit"
      BY <1>1, <1>4, <1>6, <2>4, <3>1 DEF Kept, Live, Exists
    <3>3. dir[d].cwd \in DOMAIN tree
      BY <2>1, <3>2
    <3>4. Uncommitted(request[k].row.cwd)' = Uncommitted(dir[d].cwd)
          /\ OnBranch(request[k].row.branch)' = OnBranch(dir[d].branch)
      BY <1>1, <3>1 DEF Uncommitted, OnBranch
    <3>5. QED
      BY <1>1, <3>1, <3>3, <3>4 DEF work
  <2>5. CASE k # h
    <3>1. request'[k] = request[k] /\ Kept(request[k].dir)
      BY <1>1, <1>6, <2>5 DEF Kept, Live, Exists
    <3>2. /\ request[k].pc = "commit" =>
               /\ request[k].row.cwd \in DOMAIN tree
               /\ request[k].seen \subseteq Uncommitted(request[k].row.cwd) \cup OnBranch(request[k].row.branch)
          /\ request[k].pc = "merge" => request[k].seen \subseteq OnBranch(request[k].row.branch)
      BY <3>1 DEF DirInv, MergesBringAll
    <3>3. Uncommitted(request[k].row.cwd)' = Uncommitted(request[k].row.cwd)
          /\ OnBranch(request[k].row.branch)' = OnBranch(request[k].row.branch)
      BY <1>1, <3>1 DEF Uncommitted, OnBranch
    <3>4. QED
      BY <1>1, <3>1, <3>2, <3>3
  <2>6. QED
    BY <2>4, <2>5
<1>15. QED
  BY <1>8, <1>9, <1>10, <1>11, <1>12, <1>13, <1>14 DEF DirInv

\* A row changes, and with it the handler or the task that changes it.
LEMMA RowChanged ==
  ASSUME DirInv, NEW d \in DirIds, NEW r, UpdateThread(d, r),
         Live(d) => /\ r \in DirRows /\ r.slug = dir[d].slug /\ HasOwn(r)
                    /\ r.alive /\ d \notin stranded /\ r.cwd # Project => r.cwd \in DOMAIN tree,
         UNCHANGED <<tree, commits, stranded>>,
         dirLeft' \in [tasks : 0 .. MaxDirTasks, requests : Nat, faults : Nat, restarts : Nat],
         MaxDirTasks - dirLeft.tasks <= MaxDirTasks - dirLeft'.tasks,
         request' \in [Requests -> {Nil} \cup RequestRows],
         \A k \in Requests : request'[k] # Nil /\ request'[k] # request[k] =>
           /\ request[k] # Nil /\ request'[k].dir = request[k].dir /\ request'[k].row = request[k].row
           /\ request'[k].pc = "purge" /\ ~Live(request[k].dir)',
         isolating' \in [IsolationTasks -> {Nil} \cup IsolationRows],
         \A u \in IsolationTasks : isolating'[u] # Nil /\ isolating'[u] # isolating[u] =>
           /\ Exists(isolating'[u].dir) /\ isolating'[u].branch = dir[isolating'[u].dir].slug
           /\ u <= MaxDirTasks - dirLeft'.tasks
           /\ isolating'[u].pc \in {"git", "look"} /\ (isolating'[u].pc = "git" => ~isolating'[u].written),
         AllAttended'
  PROVE  DirInv'
<1>0. DirShapes /\ WorkIsAssigned /\ NamesAreOwn /\ RemovalIsLate
  BY DEF DirInv
<1>1. /\ dir' \in [DirIds -> {Nil} \cup DirRows]
      /\ \A e \in DirIds \ {d} : dir'[e] = dir[e]
      /\ Live(d) => dir'[d] = r
      /\ ~Live(d) => dir' = dir
  BY <1>0, RowUpdated
<1>2. \A x \in DirRows : x # Nil
  BY DirAssumption
<1>3. \A e \in DirIds : /\ Exists(e)' <=> Exists(e)
                        /\ Exists(e) => dir'[e].slug = dir[e].slug /\ HasOwn(dir'[e])
                        /\ Live(e)' => Live(e)
  <2>1. ASSUME NEW e \in DirIds, e # d \/ ~Live(d)
        PROVE  /\ Exists(e)' <=> Exists(e)
               /\ Exists(e) => dir'[e].slug = dir[e].slug /\ HasOwn(dir'[e])
               /\ Live(e)' => Live(e)
    <3>1. dir'[e] = dir[e]
      BY <1>1, <2>1
    <3>2. QED
      BY <1>0, <3>1 DEF NamesAreOwn, Exists, Live
  <2>2. CASE Live(d)
    <3>1. dir'[d] = r /\ r # Nil /\ r.slug = dir[d].slug /\ HasOwn(r) /\ dir[d] # Nil
      BY <1>1, <1>2, <2>2 DEF Live, Exists
    <3>2. /\ Exists(d)' <=> Exists(d)
          /\ Exists(d) => dir'[d].slug = dir[d].slug /\ HasOwn(dir'[d])
          /\ Live(d)' => Live(d)
      BY <2>2, <3>1 DEF Exists
    <3>3. QED
      BY <2>1, <3>2
  <2>3. QED
    BY <2>1, <2>2
<1>4. \A e \in DirIds : Kept(e)' => Kept(e)
  BY <1>3 DEF Kept
<1>5. DirShapes'
  BY <1>0, <1>1 DEF DirShapes
<1>6. \A h \in Requests : request'[h] # Nil =>
        /\ request[h] # Nil /\ request'[h].dir = request[h].dir /\ request'[h].row = request[h].row
        /\ request[h].dir \in DirIds /\ Exists(request[h].dir) /\ Exists(request[h].dir)'
        /\ HasOwn(request[h].row) /\ request[h].row.slug = dir[request[h].dir].slug
  <2>1. \A h \in Requests : request'[h] # Nil =>
          /\ request[h] # Nil /\ request'[h].dir = request[h].dir /\ request'[h].row = request[h].row
    OBVIOUS
  <2>2. \A h \in Requests : request[h] # Nil => request[h].dir \in DirIds
    BY <1>0, DirFields DEF DirShapes
  <2>3. \A h \in Requests : request[h] # Nil =>
          /\ Exists(request[h].dir) /\ HasOwn(request[h].row) /\ request[h].row.slug = dir[request[h].dir].slug
    BY <1>0 DEF WorkIsAssigned, NamesAreOwn
  <2>4. \A h \in Requests : request'[h] # Nil => (Exists(request[h].dir)' <=> Exists(request[h].dir))
    BY <1>1, <1>3, <2>1, <2>2 DEF Exists
  <2>5. QED
    BY <2>1, <2>2, <2>3, <2>4
<1>7. \A t \in IsolationTasks : isolating'[t] # Nil =>
        /\ isolating'[t].dir \in DirIds /\ dir[isolating'[t].dir] # Nil
        /\ isolating'[t].branch = dir[isolating'[t].dir].slug
        /\ t <= MaxDirTasks - dirLeft'.tasks
        /\ isolating'[t].pc \in {"git", "record"} => ~isolating'[t].written
  <2> SUFFICES ASSUME NEW t \in IsolationTasks, isolating'[t] # Nil
               PROVE  /\ isolating'[t].dir \in DirIds /\ dir[isolating'[t].dir] # Nil
                      /\ isolating'[t].branch = dir[isolating'[t].dir].slug
                      /\ t <= MaxDirTasks - dirLeft'.tasks
                      /\ isolating'[t].pc \in {"git", "record"} => ~isolating'[t].written
    OBVIOUS
  <2>1. isolating'[t].dir \in DirIds
    BY DirFields
  <2>2. CASE isolating'[t] # isolating[t]
    BY <2>1, <2>2 DEF Exists
  <2>3. CASE isolating'[t] = isolating[t]
    <3>1. /\ dir[isolating[t].dir] # Nil /\ isolating[t].branch = dir[isolating[t].dir].slug
          /\ t <= MaxDirTasks - dirLeft.tasks
          /\ isolating[t].pc \in {"git", "record"} => ~isolating[t].written
      BY <1>0, <2>3 DEF WorkIsAssigned, NamesAreOwn, Exists
    <3>2. t \in Nat /\ MaxDirTasks - dirLeft.tasks \in Int /\ MaxDirTasks - dirLeft'.tasks \in Int
      BY <1>0, DirAssumption DEF IsolationTasks, DirShapes
    <3>3. t <= MaxDirTasks - dirLeft'.tasks
      BY <3>1, <3>2
    <3>4. QED
      BY <2>1, <2>3, <3>1, <3>3
  <2>4. QED
    BY <2>2, <2>3
<1>8. WorkIsAssigned'
  <2>1. \A h \in Requests : request'[h] # Nil => Exists(request[h].dir)'
    BY <1>6
  <2>2. \A t \in IsolationTasks : isolating'[t] # Nil => Exists(isolating[t].dir)'
    BY <1>3, <1>7 DEF Exists
  <2>3. QED
    BY <1>7, <2>1, <2>2 DEF WorkIsAssigned
<1>9. NamesAreOwn'
  <2>1. \A e, f \in DirIds : Exists(e)' /\ Exists(f)' /\ dir'[e].slug = dir'[f].slug => e = f
    BY <1>0, <1>3 DEF NamesAreOwn
  <2>2. \A e \in DirIds : Exists(e)' => HasOwn(dir'[e])
    BY <1>3
  <2>3. \A h \in Requests : request'[h] # Nil =>
          HasOwn(request'[h].row) /\ request'[h].row.slug = dir'[request'[h].dir].slug
    BY <1>3, <1>6
  <2>4. \A t \in IsolationTasks : isolating'[t] # Nil => isolating'[t].branch = dir'[isolating'[t].dir].slug
    BY <1>3, <1>7 DEF Exists
  <2>5. \A p \in DOMAIN tree' : tree'[p].branch = BranchOf(p) /\ commits'[tree'[p].branch] # Nil
    BY <1>0 DEF NamesAreOwn
  <2>6. QED
    BY <2>1, <2>2, <2>3, <2>4, <2>5 DEF NamesAreOwn, HasOwn
<1>10. RemovalIsLate'
  <2>1. ASSUME NEW h \in Requests, request'[h] # Nil
        PROVE  /\ request'[h].pc \in {"purge", "remove", "branch"} => ~Live(request[h].dir)'
               /\ request'[h].pc \in {"remove", "branch", "commit", "merge"} => request'[h].row.isolation = "worktree"
    <3>1. CASE request'[h] # request[h]
      BY <2>1, <3>1
    <3>2. CASE request'[h] = request[h]
      <4>1. Live(request[h].dir)' => Live(request[h].dir)
        BY <1>3, <1>6, <2>1, <3>2 DEF Live, Exists
      <4>2. QED
        BY <1>0, <2>1, <3>2, <4>1 DEF RemovalIsLate
    <3>3. QED
      BY <3>1, <3>2
  <2>2. ASSUME NEW t \in IsolationTasks, TaskAt(t, "remove")'
        PROVE  ~Live(isolating[t].dir)' \/ (isolating[t].dir \in stranded)'
    <3>1. isolating'[t] = isolating[t] /\ TaskAt(t, "remove")
      BY <2>2 DEF TaskAt
    <3>2. isolating[t].dir \in DirIds
      BY <1>0, <3>1, DirFields DEF TaskAt, DirShapes
    <3>3. Live(isolating[t].dir)' => Live(isolating[t].dir)
      BY <1>3, <3>1, <3>2 DEF Live, Exists
    <3>4. QED
      BY <1>0, <3>1, <3>3 DEF RemovalIsLate
  <2>3. QED
    BY <2>1, <2>2 DEF RemovalIsLate
<1>11. TreesAreThere'
  <2>1. ASSUME NEW e \in DirIds, Kept(e)', dir'[e].cwd # Project PROVE dir'[e].cwd \in DOMAIN tree'
    <3>1. CASE dir'[e] = dir[e]
      BY <1>4, <2>1, <3>1 DEF DirInv, TreesAreThere
    <3>2. CASE dir'[e] # dir[e]
      <4>1. e = d /\ dir'[d] = r /\ Live(d)
        BY <1>1, <3>2
      <4>2. r.alive /\ d \notin stranded
        BY <2>1, <4>1 DEF Kept, Live
      <4>3. QED
        BY <2>1, <4>1, <4>2
    <3>3. QED
      BY <3>1, <3>2
  <2>2. ASSUME NEW t \in IsolationTasks, TaskAt(t, "record")', Kept(isolating[t].dir)' PROVE Dest(t)' \in DOMAIN tree'
    <3>1. isolating'[t] = isolating[t] /\ TaskAt(t, "record")
      BY <2>2 DEF TaskAt
    <3>2. isolating[t].dir \in DirIds
      BY <1>0, <3>1, DirFields DEF TaskAt, DirShapes
    <3>3. Kept(isolating[t].dir)
      BY <1>4, <2>2, <3>1, <3>2 DEF Kept, Live, Exists
    <3>4. Dest(t) \in DOMAIN tree
      BY <3>1, <3>3 DEF DirInv, TreesAreThere
    <3>5. QED
      BY <3>1, <3>4 DEF Dest
  <2>3. QED
    BY <2>1, <2>2 DEF TreesAreThere
<1>12. MergesBringAll'
  <2> SUFFICES ASSUME NEW k \in Requests, request'[k] # Nil, Kept(request[k].dir)', request'[k].pc \in {"commit", "merge"}
               PROVE  /\ request'[k].pc = "commit" =>
                           /\ request'[k].row.cwd \in DOMAIN tree'
                           /\ request'[k].seen \subseteq Uncommitted(request[k].row.cwd)' \cup OnBranch(request[k].row.branch)'
                      /\ request'[k].pc = "merge" => request'[k].seen \subseteq OnBranch(request[k].row.branch)'
    BY DEF MergesBringAll
  <2>1. request'[k] = request[k] /\ request[k].dir \in DirIds
    BY <1>6
  <2>2. Kept(request[k].dir)
    BY <1>4, <2>1 DEF Kept, Live, Exists
  <2>3. Uncommitted(request[k].row.cwd)' = Uncommitted(request[k].row.cwd)
        /\ OnBranch(request[k].row.branch)' = OnBranch(request[k].row.branch)
    BY <2>1 DEF Uncommitted, OnBranch
  <2>4. QED
    BY <2>1, <2>2, <2>3 DEF DirInv, MergesBringAll
<1>13. QED
  BY <1>5, <1>8, <1>9, <1>10, <1>11, <1>12 DEF DirInv

\* The handlers that write the row.
LEMMA RowHandlers ==
  ASSUME DirInv, NEW h \in Requests, NamesAndIsolates(h) \/ MarksDeleted(h)
  PROVE  DirInv'
<1>0. DirShapes /\ WorkIsAssigned /\ NamesAreOwn /\ RemovalIsLate
  BY DEF DirInv
<1>  DEFINE d == request[h].dir
<1>1. request[h] # Nil
  BY DEF NamesAndIsolates, MarksDeleted, RequestAt
<1>2. d \in DirIds /\ Exists(d) /\ request[h].row \in DirRows /\ request[h].row.slug = dir[d].slug
  BY <1>0, <1>1, DirFields DEF DirShapes, WorkIsAssigned, NamesAreOwn
<1>3. dir[d] \in DirRows /\ HasOwn(dir[d]) /\ request[h].row.cwd \in Seq(Slugs) /\ request[h].row.slug \in Slugs
  BY <1>0, <1>2, LiveIsRow, DirFields DEF NamesAreOwn
<1>4. Kept(d) /\ dir[d].cwd # Project => dir[d].cwd \in DOMAIN tree
  BY <1>2 DEF DirInv, TreesAreThere
<1>5. CASE NamesAndIsolates(h)
  <2>  DEFINE n == [dir[d] EXCEPT !.state = "preparing"]
  <2>1. /\ UpdateThread(d, n) /\ RequestEnds(h) /\ UNCHANGED <<tree, commits, stranded>>
        /\ Spend("tasks") /\ TaskFor(d, request[h].row.cwd, request[h].row.slug)
    BY <1>5 DEF NamesAndIsolates, repository
  <2>2. n \in DirRows /\ n.slug = dir[d].slug /\ n.cwd = dir[d].cwd /\ n.branch = dir[d].branch
        /\ n.isolation = dir[d].isolation /\ n.alive = dir[d].alive
    BY <1>3 DEF DirRows
  <2>  HIDE DEF n, d
  <2>3. HasOwn(n) /\ (Live(d) /\ d \notin stranded /\ n.cwd # Project => n.cwd \in DOMAIN tree)
    BY <1>3, <1>4, <2>2 DEF HasOwn, Kept
  <2>4. PICK t \in IsolationTasks :
           /\ isolating' \in [IsolationTasks -> {Nil} \cup IsolationRows]
           /\ isolating[t] = Nil /\ \A u \in IsolationTasks \ {t} : isolating'[u] = isolating[u]
           /\ isolating'[t] # Nil /\ isolating'[t].pc = "git"
           /\ isolating'[t].dir = d /\ isolating'[t].from = request[h].row.cwd
           /\ isolating'[t].branch = request[h].row.slug /\ ~isolating'[t].written
           /\ t <= MaxDirTasks - dirLeft'.tasks
           /\ MaxDirTasks - dirLeft.tasks <= MaxDirTasks - dirLeft'.tasks
           /\ dirLeft' \in [tasks : 0 .. MaxDirTasks, requests : Nat, faults : Nat, restarts : Nat]
    BY <1>0, <1>2, <1>3, <2>1, TaskStarts
  <2>5. /\ request' \in [Requests -> {Nil} \cup RequestRows]
        /\ \A k \in Requests : request'[k] = request[k] \/ request'[k] = Nil
    BY <1>0, <2>1, RequestOver
  <2>6. \A u \in IsolationTasks : isolating'[u] # isolating[u] => u = t
    BY <2>4
  <2>7. \A e \in DirIds \ {d} : dir'[e] = dir[e]
    BY <1>0, <1>2, <2>1, <2>2, RowUpdated
  <2>8. AllAttended'
    <3> SUFFICES ASSUME NEW e \in DirIds, Kept(e)', dir'[e].state = "preparing"
                 PROVE  \E u \in IsolationTasks : Attends(u, e)'
      BY DEF AllAttended
    <3>1. CASE e = d
      BY <2>4, <3>1 DEF Attends
    <3>2. CASE e # d
      <4>1. PICK u \in IsolationTasks : Attends(u, e)
        BY <2>1, <2>7, <3>2 DEF DirInv, AllAttended, Kept, Live, Exists
      <4>2. u # t
        BY <2>4, <4>1 DEF Attends
      <4>3. QED
        BY <2>4, <4>1, <4>2 DEF Attends
    <3>3. QED
      BY <3>1, <3>2
  <2>9. n.alive /\ d \notin stranded /\ n.cwd # Project /\ Live(d) => n.cwd \in DOMAIN tree
    BY <2>3
  <2>10. QED
    BY <1>2, <2>1, <2>2, <2>3, <2>4, <2>5, <2>6, <2>8, <2>9, RowChanged
<1>6. CASE MarksDeleted(h)
  <2>  DEFINE n == [dir[d] EXCEPT !.alive = FALSE]
  <2>1. /\ UpdateThread(d, n) /\ RequestTo(h, "purge")
        /\ UNCHANGED <<tree, commits, stranded, isolating, dirLeft>>
    BY <1>6 DEF MarksDeleted, repository
  <2>2. n \in DirRows /\ n.slug = dir[d].slug /\ n.cwd = dir[d].cwd /\ n.branch = dir[d].branch
        /\ n.isolation = dir[d].isolation /\ ~n.alive
    BY <1>3 DEF DirRows
  <2>3. /\ request' \in [Requests -> {Nil} \cup RequestRows]
        /\ \A k \in Requests \ {h} : request'[k] = request[k]
        /\ request'[h].pc = "purge" /\ request'[h].dir = d /\ request'[h].row = request[h].row
    BY <1>0, <1>1, <2>1, RequestMoves DEF RequestStages
  <2>4. request[h].dir = d /\ request'[h].dir = request[h].dir
    BY <2>3
  <2>  HIDE DEF n, d
  <2>5. HasOwn(n)
    BY <1>3, <2>2 DEF HasOwn
  <2>6. /\ \A e \in DirIds \ {d} : dir'[e] = dir[e]
        /\ Live(d) => dir'[d] = n
        /\ ~Live(d) => dir' = dir
    BY <1>0, <1>2, <2>1, <2>2, RowUpdated
  <2>7. dir'[d] = Nil \/ ~dir'[d].alive
    BY <2>2, <2>6 DEF Live, Exists
  <2>8. AllAttended'
    <3> SUFFICES ASSUME NEW e \in DirIds, Kept(e)', dir'[e].state = "preparing"
                 PROVE  \E u \in IsolationTasks : Attends(u, e)'
      BY DEF AllAttended
    <3>1. e # d
      BY <2>7 DEF Kept, Live, Exists
    <3>2. PICK u \in IsolationTasks : Attends(u, e)
      BY <2>1, <2>6, <3>1 DEF DirInv, AllAttended, Kept, Live, Exists
    <3>3. QED
      BY <2>1, <3>2 DEF Attends
  <2>9. /\ isolating' \in [IsolationTasks -> {Nil} \cup IsolationRows]
        /\ dirLeft' \in [tasks : 0 .. MaxDirTasks, requests : Nat, faults : Nat, restarts : Nat]
        /\ MaxDirTasks - dirLeft.tasks <= MaxDirTasks - dirLeft'.tasks
    BY <1>0, <2>1, DirAssumption DEF DirShapes
  <2>10. ~Live(request[h].dir)'
    BY <2>4, <2>7 DEF Live, Exists
  <2>11. \A k \in Requests : request'[k] # request[k] => k = h
    BY <2>3
  <2>12. QED
    BY <1>1, <1>2, <2>1, <2>2, <2>3, <2>4, <2>5, <2>8, <2>9, <2>10, <2>11, RowChanged
<1>7. QED
  BY <1>5, <1>6

\* The tasks that write the row.
LEMMA RowTasks ==
  ASSUME DirInv, NEW t \in IsolationTasks, Records(t) \/ Degrades(t)
  PROVE  DirInv'
<1>0. DirShapes /\ WorkIsAssigned /\ NamesAreOwn
  BY DEF DirInv
<1>  DEFINE d == isolating[t].dir
            b == isolating[t].branch
<1>1. isolating[t] # Nil
  BY DEF Records, Degrades, TaskAt
<1>2. d \in DirIds /\ Exists(d) /\ b \in Slugs /\ b = dir[d].slug /\ isolating[t].from \in Seq(Slugs)
      /\ t <= MaxDirTasks - dirLeft.tasks
  BY <1>0, <1>1, DirFields DEF DirShapes, WorkIsAssigned, NamesAreOwn
<1>3. dir[d] \in DirRows /\ HasOwn(dir[d])
  BY <1>0, <1>2, LiveIsRow DEF NamesAreOwn
<1>4. Dest(t) \in Seq(Slugs) /\ BranchOf(Dest(t)) = b /\ Dest(t) # Project
  BY <1>2 DEF BranchOf, Dest, WorktreeDest, Project
<1>5. /\ request \in [Requests -> {Nil} \cup RequestRows]
      /\ dirLeft \in [tasks : 0 .. MaxDirTasks, requests : Nat, faults : Nat, restarts : Nat]
      /\ MaxDirTasks - dirLeft.tasks <= MaxDirTasks - dirLeft.tasks
  BY <1>0, DirAssumption DEF DirShapes
<1>6. ASSUME NEW n, n \in DirRows, n.state = "ready", n.alive = dir[d].alive, UpdateThread(d, n),
             \A u \in IsolationTasks \ {t} : isolating'[u] = isolating[u]
      PROVE  AllAttended'
  <2>1. /\ \A e \in DirIds \ {d} : dir'[e] = dir[e]
        /\ Live(d) => dir'[d] = n
        /\ ~Live(d) => dir' = dir
    BY <1>0, <1>2, <1>6, RowUpdated
  <2> SUFFICES ASSUME NEW e \in DirIds, Kept(e)', dir'[e].state = "preparing"
               PROVE  \E u \in IsolationTasks : Attends(u, e)'
    BY DEF AllAttended
  <2>2. e \notin stranded' /\ dir'[e] # Nil /\ dir'[e].alive
    BY DEF Kept, Live, Exists
  <2>3. e # d
    BY <1>6, <2>1, <2>2 DEF Live, Exists
  <2>4. dir'[e] = dir[e]
    BY <2>1, <2>3
  <2>5. stranded \subseteq stranded'
    BY DEF Records, Degrades
  <2>6. PICK u \in IsolationTasks : Attends(u, e)
    BY <2>2, <2>4, <2>5 DEF DirInv, AllAttended, Kept, Live, Exists
  <2>7. u # t
    BY <2>3, <2>6 DEF Attends
  <2>8. QED
    BY <1>6, <2>6, <2>7 DEF Attends
<1>7. CASE Records(t)
  <2>  DEFINE n == [dir[d] EXCEPT !.isolation = "worktree", !.branch = b, !.cwd = Dest(t), !.state = "ready"]
              q == [isolating[t] EXCEPT !.pc = "look", !.written = TRUE]
  <2>1. /\ UpdateThread(d, n) /\ TaskAt(t, "record") /\ UNCHANGED <<tree, commits, stranded, request, dirLeft>>
        /\ isolating' = [isolating EXCEPT ![t].pc = "look", ![t].written = TRUE]
    BY <1>7 DEF Records, repository
  <2>2. n \in DirRows /\ n.slug = dir[d].slug /\ n.cwd = Dest(t) /\ n.branch = b
        /\ n.isolation = "worktree" /\ n.alive = dir[d].alive /\ n.state = "ready"
    BY <1>2, <1>3, <1>4 DEF DirRows
  <2>3. isolating' = [isolating EXCEPT ![t] = q] /\ isolating[t] \in IsolationRows
    BY <1>0, <1>1, <2>1 DEF DirShapes
  <2>4. q \in IsolationRows /\ q.pc = "look" /\ q.dir = d /\ q.branch = b
    BY <2>3 DEF IsolationRows
  <2>  HIDE DEF n, q
  <2>5. /\ isolating' \in [IsolationTasks -> {Nil} \cup IsolationRows] /\ isolating'[t] = q
        /\ \A u \in IsolationTasks \ {t} : isolating'[u] = isolating[u]
    BY <1>0, <2>3, <2>4 DEF DirShapes
  <2>6. HasOwn(n) /\ (Kept(d) => n.cwd \in DOMAIN tree)
    BY <1>2, <1>4, <2>1, <2>2 DEF HasOwn, DirInv, TreesAreThere
  <2>7. Live(d) => (n.alive /\ d \notin stranded /\ n.cwd # Project => n.cwd \in DOMAIN tree)
    BY <2>6 DEF Kept
  <2>8. AllAttended'
    BY <1>6, <2>1, <2>2, <2>5
  <2>  HIDE DEF d, b
  <2>9. \A u \in IsolationTasks : isolating'[u] # isolating[u] => u = t
    BY <2>5
  <2>10. QED
    BY <1>2, <1>5, <2>1, <2>2, <2>4, <2>5, <2>6, <2>7, <2>8, <2>9, RowChanged
<1>8. CASE Degrades(t)
  <2>  DEFINE n == [dir[d] EXCEPT !.isolation = "degraded", !.state = "ready"]
  <2>1. /\ UpdateThread(d, n) /\ TaskEnds(t) /\ UNCHANGED <<tree, commits, stranded, request, dirLeft>>
    BY <1>8 DEF Degrades, repository
  <2>2. n \in DirRows /\ n.slug = dir[d].slug /\ n.cwd = dir[d].cwd /\ n.branch = dir[d].branch
        /\ n.isolation = "degraded" /\ n.alive = dir[d].alive /\ n.state = "ready"
    BY <1>3 DEF DirRows
  <2>  HIDE DEF n
  <2>3. /\ isolating' \in [IsolationTasks -> {Nil} \cup IsolationRows] /\ isolating'[t] = Nil
        /\ \A u \in IsolationTasks \ {t} : isolating'[u] = isolating[u]
    BY <1>0, <2>1, TaskOver
  <2>4. HasOwn(n) /\ (Kept(d) /\ n.cwd # Project => n.cwd \in DOMAIN tree)
    BY <1>2, <1>3, <2>2 DEF HasOwn, DirInv, TreesAreThere
  <2>5. Live(d) => (n.alive /\ d \notin stranded /\ n.cwd # Project => n.cwd \in DOMAIN tree)
    BY <2>4 DEF Kept
  <2>6. AllAttended'
    BY <1>6, <2>1, <2>2, <2>3
  <2>  HIDE DEF d, b
  <2>7. \A u \in IsolationTasks : isolating'[u] # isolating[u] => isolating'[u] = Nil
    BY <2>3
  <2>8. QED
    BY <1>2, <1>5, <2>1, <2>2, <2>3, <2>4, <2>5, <2>6, <2>7, RowChanged
<1>9. QED
  BY <1>7, <1>8

\* git makes the worktree of a task.
LEMMA WorktreeAdded ==
  ASSUME DirInv, base \subseteq DirIds, NEW t \in IsolationTasks, GitAdds(t)
  PROVE  DirInv'
<1>0. DirShapes /\ WorkIsAssigned /\ NamesAreOwn /\ RemovalIsLate
  BY DEF DirInv
<1>  DEFINE b == isolating[t].branch
            from == isolating[t].from
            at == Dest(t)
<1>1. /\ TaskAt(t, "git") /\ at \notin DOMAIN tree /\ TaskGoto(t, "record")
      /\ commits' = IF commits[b] = Nil THEN [commits EXCEPT ![b] = Held(from)] ELSE commits
      /\ tree' = [p \in DOMAIN tree \cup {at} |-> IF p = at THEN [branch |-> b, dirty |-> {}] ELSE tree[p]]
      /\ UNCHANGED <<dir, request, stranded, dirLeft>>
  BY DEF GitAdds, GitCan
<1>2. /\ isolating' \in [IsolationTasks -> {Nil} \cup IsolationRows]
      /\ \A u \in IsolationTasks \ {t} : isolating'[u] = isolating[u]
      /\ isolating'[t] # Nil /\ isolating'[t].pc = "record"
      /\ isolating'[t].dir = isolating[t].dir /\ isolating'[t].from = isolating[t].from
      /\ isolating'[t].branch = isolating[t].branch /\ isolating'[t].written = isolating[t].written
  BY <1>0, <1>1, TaskMoves DEF TaskStages, TaskAt
<1>3. b \in Slugs /\ from \in Seq(Slugs) /\ ~isolating[t].written
  BY <1>0, <1>1, DirFields DEF TaskAt, DirShapes, WorkIsAssigned
<1>4. at \in Seq(Slugs) \ {Project} /\ BranchOf(at) = b
  BY <1>3 DEF BranchOf, Dest, WorktreeDest, Project
<1>5. at = WorktreeDest(from, b)
  BY DEF Dest
<1>6. Held(from) \in SUBSET DirIds
  <2>1. CASE from \in DOMAIN tree
    <3>1. commits[tree[from].branch] # Nil /\ tree[from].branch \in Slugs
      BY <1>0, <2>1 DEF NamesAreOwn, DirShapes
    <3>2. commits[tree[from].branch] \in SUBSET DirIds
      BY <1>0, <3>1 DEF DirShapes
    <3>3. QED
      BY <2>1, <3>2 DEF Held
  <2>2. CASE from \notin DOMAIN tree
    BY <2>2 DEF Held
  <2>3. QED
    BY <2>1, <2>2
<1>  HIDE DEF b, from, at
<1>7. Held(from) # Nil
  BY <1>6, DirAssumption
<1>8. /\ commits' \in [Slugs -> {Nil} \cup SUBSET DirIds] /\ commits'[b] # Nil
      /\ \A c \in Slugs : commits[c] # Nil => commits'[c] = commits[c]
  <2>1. commits \in [Slugs -> {Nil} \cup SUBSET DirIds]
    BY <1>0 DEF DirShapes
  <2>2. CASE commits[b] = Nil
    BY <1>1, <1>3, <1>6, <1>7, <2>1, <2>2
  <2>3. CASE commits[b] # Nil
    BY <1>1, <1>3, <2>1, <2>3
  <2>4. QED
    BY <2>2, <2>3
<1>9. /\ DOMAIN tree' = DOMAIN tree \cup {at} /\ tree'[at].branch = b
      /\ tree'[at] \in [branch : Slugs, dirty : SUBSET DirIds]
      /\ \A p \in DOMAIN tree : tree'[p] = tree[p]
  BY <1>1, <1>3
<1>10. DirShapes'
  <2>1. DOMAIN tree' \subseteq Seq(Slugs) \ {Project}
        /\ \A p \in DOMAIN tree' : tree'[p] \in [branch : Slugs, dirty : SUBSET DirIds]
    BY <1>0, <1>4, <1>9 DEF DirShapes
  <2>2. QED
    BY <1>0, <1>1, <1>2, <1>8, <2>1 DEF DirShapes
<1>11. WorkIsAssigned'
  <2>1. \A u \in IsolationTasks : isolating'[u] # Nil =>
          /\ isolating[u] # Nil /\ isolating'[u].dir = isolating[u].dir
          /\ isolating'[u].pc \in {"git", "record"} => ~isolating'[u].written
    BY <1>0, <1>1, <1>2, <1>3 DEF WorkIsAssigned, TaskAt
  <2>2. QED
    BY <1>0, <1>1, <2>1 DEF WorkIsAssigned, Exists
<1>12. NamesAreOwn'
  <2>1. \A u \in IsolationTasks : isolating'[u] # Nil => isolating'[u].branch = dir'[isolating'[u].dir].slug
    BY <1>0, <1>1, <1>2 DEF NamesAreOwn, TaskAt
  <2>2. \A p \in DOMAIN tree' : tree'[p].branch = BranchOf(p) /\ commits'[tree'[p].branch] # Nil
    BY <1>0, <1>4, <1>8, <1>9 DEF NamesAreOwn, DirShapes
  <2>3. QED
    BY <1>0, <1>1, <2>1, <2>2 DEF NamesAreOwn, HasOwn, Exists
<1>13. RemovalIsLate'
  BY <1>0, <1>1, <1>2 DEF RemovalIsLate, TaskAt, Live, Exists
<1>14. TreesAreThere'
  <2>1. \A e \in DirIds : Kept(e)' <=> Kept(e)
    BY <1>1 DEF Kept, Live, Exists
  <2>2. \A e \in DirIds : Kept(e)' /\ dir'[e].cwd # Project => dir'[e].cwd \in DOMAIN tree'
    BY <1>1, <1>9, <2>1 DEF DirInv, TreesAreThere
  <2>3. ASSUME NEW u \in IsolationTasks, TaskAt(u, "record")', Kept(isolating[u].dir)' PROVE Dest(u)' \in DOMAIN tree'
    <3>1. CASE u = t
      <4>1. Dest(u)' = at
        BY <1>2, <1>5, <3>1 DEF Dest, from, b
      <4>2. QED
        BY <1>9, <4>1
    <3>2. CASE u # t
      <4>1. isolating'[u] = isolating[u] /\ TaskAt(u, "record") /\ Kept(isolating[u].dir)
        BY <1>1, <1>2, <2>3, <3>2 DEF TaskAt, Kept, Live, Exists
      <4>2. Dest(u) \in DOMAIN tree
        BY <4>1 DEF DirInv, TreesAreThere
      <4>3. QED
        BY <1>9, <4>1, <4>2 DEF Dest
    <3>3. QED
      BY <3>1, <3>2
  <2>4. QED
    BY <2>2, <2>3 DEF TreesAreThere
<1>15. AllAttended'
  <2> SUFFICES ASSUME NEW e \in DirIds, Kept(e)', dir'[e].state = "preparing"
               PROVE  \E u \in IsolationTasks : Attends(u, e)'
    BY DEF AllAttended
  <2>1. PICK u \in IsolationTasks : Attends(u, e)
    BY <1>1 DEF DirInv, AllAttended, Kept, Live, Exists
  <2>2. CASE u = t
    BY <1>2, <2>1, <2>2 DEF Attends
  <2>3. CASE u # t
    BY <1>2, <2>1, <2>3 DEF Attends
  <2>4. QED
    BY <2>2, <2>3
<1>16. MergesBringAll'
  <2> SUFFICES ASSUME NEW k \in Requests, request'[k] # Nil, Kept(request[k].dir)', request'[k].pc \in {"commit", "merge"}
               PROVE  /\ request'[k].pc = "commit" =>
                           /\ request'[k].row.cwd \in DOMAIN tree'
                           /\ request'[k].seen \subseteq Uncommitted(request[k].row.cwd)' \cup OnBranch(request[k].row.branch)'
                      /\ request'[k].pc = "merge" => request'[k].seen \subseteq OnBranch(request[k].row.branch)'
    BY DEF MergesBringAll
  <2>1. request'[k] = request[k] /\ Kept(request[k].dir) /\ request[k].row.branch \in Slugs \cup {Nil}
    BY <1>0, <1>1, DirFields DEF Kept, Live, Exists, DirShapes
  <2>2. /\ request[k].pc = "commit" =>
             /\ request[k].row.cwd \in DOMAIN tree
             /\ request[k].seen \subseteq Uncommitted(request[k].row.cwd) \cup OnBranch(request[k].row.branch)
        /\ request[k].pc = "merge" => request[k].seen \subseteq OnBranch(request[k].row.branch)
    BY <2>1 DEF DirInv, MergesBringAll
  <2>3. OnBranch(request[k].row.branch) \subseteq OnBranch(request[k].row.branch)'
    BY <1>8, <2>1 DEF OnBranch
  <2>4. CASE request[k].pc = "commit"
    <3>1. Uncommitted(request[k].row.cwd)' = Uncommitted(request[k].row.cwd)
      BY <1>9, <2>1, <2>2, <2>4 DEF Uncommitted
    <3>2. QED
      BY <1>9, <2>1, <2>2, <2>3, <2>4, <3>1
  <2>5. CASE request[k].pc = "merge"
    BY <2>1, <2>2, <2>3, <2>5
  <2>6. QED
    BY <2>1, <2>4, <2>5
<1>17. QED
  BY <1>10, <1>11, <1>12, <1>13, <1>14, <1>15, <1>16 DEF DirInv

\* A restart leaves no handler and no task.
LEMMA Restarted ==
  ASSUME DirInv, ServerRestarts
  PROVE  DirInv'
<1>0. DirShapes /\ NamesAreOwn
  BY DEF DirInv
<1>1. /\ UNCHANGED <<dir, tree, commits>>
      /\ request' = [h \in Requests |-> Nil] /\ isolating' = [t \in IsolationTasks |-> Nil]
      /\ stranded' = stranded \cup {d \in DirIds : Live(d) /\ dir[d].state = "preparing"}
      /\ dirLeft' \in [tasks : 0 .. MaxDirTasks, requests : Nat, faults : Nat, restarts : Nat]
  BY <1>0, Paid DEF ServerRestarts, repository
<1>2. DirShapes'
  BY <1>0, <1>1 DEF DirShapes
<1>3. WorkIsAssigned' /\ RemovalIsLate' /\ MergesBringAll'
  BY <1>1 DEF WorkIsAssigned, RemovalIsLate, MergesBringAll, TaskAt
<1>4. NamesAreOwn'
  BY <1>0, <1>1 DEF NamesAreOwn, HasOwn, Exists
<1>5. TreesAreThere'
  BY <1>1 DEF DirInv, TreesAreThere, TaskAt, Kept, Live, Exists
<1>6. AllAttended'
  BY <1>1 DEF AllAttended, Kept, Live, Exists
<1>7. QED
  BY <1>2, <1>3, <1>4, <1>5, <1>6 DEF DirInv

-----------------------------------------------------------------------------
(* The directions, whole.                                                   *)

\* The shapes of what the invariant does not need.
RestShapes ==
  /\ base \subseteq DirIds /\ merging \in {Nil} \cup SUBSET DirIds
  /\ board \in [Slugs -> SUBSET DirIds] /\ captainIn \in [DirIds -> {Nil} \cup Seq(Slugs)]

LEMMA DirStart == DirInit => DirInv /\ RestShapes
<1> SUFFICES ASSUME DirInit PROVE DirInv /\ RestShapes
  OBVIOUS
<1>1. \A d \in DirIds : ~Exists(d)
  BY DEF DirInit, Exists
<1>2. {} # Nil /\ MaxDirTasks \in Nat /\ MaxDirRequests \in Nat /\ MaxDirFaults \in Nat /\ DirRestarts \in Nat
  BY DirAssumption
<1>3. PICK old \in SUBSET Slugs : commits = [s \in Slugs |-> IF s \in old THEN {} ELSE Nil]
  BY DEF DirInit
<1>4. commits \in [Slugs -> {Nil} \cup SUBSET DirIds] /\ DOMAIN tree = {}
  BY <1>3 DEF DirInit
<1>5. dirLeft \in [tasks : 0 .. MaxDirTasks, requests : Nat, faults : Nat, restarts : Nat]
  BY <1>2 DEF DirInit
<1>6. DirShapes
  BY <1>4, <1>5 DEF DirInit, DirShapes
<1>7. WorkIsAssigned /\ RemovalIsLate /\ MergesBringAll
  BY DEF DirInit, WorkIsAssigned, RemovalIsLate, MergesBringAll, TaskAt
<1>8. NamesAreOwn
  BY <1>1, <1>4 DEF DirInit, NamesAreOwn
<1>9. TreesAreThere /\ AllAttended
  BY <1>1 DEF DirInit, TreesAreThere, AllAttended, Kept, Live, TaskAt
<1>10. RestShapes
  BY DEF DirInit, RestShapes
<1>11. QED
  BY <1>6, <1>7, <1>8, <1>9, <1>10 DEF DirInv

\* A step leaves the rest in shape.
LEMMA RestStep == ASSUME DirInv, RestShapes, [DirNext]_dirVars PROVE RestShapes'
<1>0. DirShapes
  BY DEF DirInv
<1>1. ASSUME UNCHANGED <<base, merging, board, captainIn>> PROVE RestShapes'
  BY <1>1 DEF RestShapes
<1>2. \A d \in DirIds : Exists(d) => dir[d].cwd \in Seq(Slugs)
  BY <1>0, LiveIsRow, DirFields
<1>3. \A t \in IsolationTasks : isolating[t] # Nil => Dest(t) \in Seq(Slugs) /\ isolating[t].dir \in DirIds
  BY <1>0, DirFields DEF DirShapes, Dest, WorktreeDest
<1>4. ASSUME UNCHANGED <<base, merging, board>>, NEW x, NEW v \in {Nil} \cup Seq(Slugs),
             captainIn' = [captainIn EXCEPT ![x] = v]
      PROVE  RestShapes'
  BY <1>4 DEF RestShapes
<1>5. ASSUME NEW d \in DirIds, Open(d) PROVE RestShapes'
  BY <1>2, <1>4, <1>5 DEF Open, Live, repository
<1>6. ASSUME NEW d \in DirIds, Work(d) PROVE RestShapes'
  BY <1>6 DEF Work, RestShapes
<1>7. ASSUME NEW d \in DirIds, NEW s \in Slugs, CreateUnnamed(d, s) \/ CreateIsCut(d, s) \/ \E b \in Slugs : CreateNamed(d, s, b)
      PROVE  RestShapes'
  BY <1>1, <1>7 DEF CreateUnnamed, CreateIsCut, CreateNamed, repository
<1>8. ASSUME NEW h \in Requests, NEW d \in DirIds, AskToName(h, d) \/ AskToDelete(h, d) \/ AskToMerge(h, d)
      PROVE  RestShapes'
  BY <1>1, <1>8 DEF AskToName, AskToDelete, AskToMerge, Ask, repository
<1>9. ASSUME NEW h \in Requests, HandlerStep(h) \/ HandlerFails(h) PROVE RestShapes'
  <2>1. CASE StopsAgents(h)
    BY <1>4, <2>1 DEF StopsAgents, repository
  <2>2. CASE Purges(h)
    BY <2>2 DEF Purges, RestShapes, repository
  <2>3. CASE MergesClean(h) \/ MergeConflicts(h)
    <3>1. request[h] # Nil /\ commits[request[h].row.branch] # Nil
          /\ UNCHANGED <<board, captainIn>>
          /\ \/ base' = base \cup commits[request[h].row.branch] /\ merging' = merging
             \/ base' = base /\ merging' = commits[request[h].row.branch]
      BY <2>3 DEF MergesClean, MergeConflicts, CanMerge, RequestAt
    <3>2. request[h].row.branch \in Slugs \cup {Nil}
      BY <1>0, <3>1, DirFields DEF DirShapes
    <3>3. request[h].row.isolation = "worktree" /\ HasOwn(request[h].row) /\ request[h].row \in DirRows
      BY <1>0, <2>3, DirFields DEF DirInv, RemovalIsLate, NamesAreOwn, MergesClean, MergeConflicts, RequestAt, DirShapes
    <3>4. request[h].row.branch \in Slugs
      BY <3>3, DirFields DEF HasOwn
    <3>5. commits[request[h].row.branch] \subseteq DirIds
      BY <1>0, <3>1, <3>4 DEF DirShapes
    <3>6. QED
      BY <3>1, <3>5 DEF RestShapes
  <2>4. CASE NamesAndIsolates(h) \/ Renames(h) \/ MarksDeleted(h) \/ RemovesTree(h) \/ DeletesBranch(h)
             \/ Commits(h) \/ MergeRefused(h) \/ HandlerFails(h)
    BY <1>1, <2>4 DEF NamesAndIsolates, Renames, MarksDeleted, RemovesTree, DeletesBranch, Commits,
                      MergeRefused, HandlerFails, repository
  <2>5. QED
    BY <1>9, <2>1, <2>2, <2>3, <2>4 DEF HandlerStep
<1>10. ASSUME NEW t \in IsolationTasks, TaskStep(t) \/ TaskFault(t) PROVE RestShapes'
  <2>1. CASE StopsCaptain(t)
    BY <1>4, <2>1 DEF StopsCaptain, repository
  <2>2. CASE StartsCaptain(t)
    BY <1>3, <1>4, <2>2 DEF StartsCaptain, TaskAt, repository
  <2>3. CASE GitAdds(t) \/ GitRefuses(t) \/ Records(t) \/ Looks(t) \/ Discards(t) \/ Degrades(t) \/ TaskFault(t)
    BY <1>1, <2>3 DEF GitAdds, GitRefuses, Records, Looks, Discards, Degrades, TaskFault,
                      GitFails, RecordFails, LookFails, DegradeFails, CaptainFails, repository
  <2>4. QED
    BY <1>10, <2>1, <2>2, <2>3 DEF TaskStep
<1>11. ASSUME Resolves PROVE RestShapes'
  BY <1>11 DEF Resolves, RestShapes
<1>12. ASSUME ServerRestarts PROVE RestShapes'
  BY <1>12 DEF ServerRestarts, RestShapes, repository
<1>13. ASSUME UNCHANGED dirVars PROVE RestShapes'
  BY <1>1, <1>13 DEF dirVars, repository
<1>14. QED
  BY <1>5, <1>6, <1>7, <1>8, <1>9, <1>10, <1>11, <1>12, <1>13 DEF DirNext

\* A step keeps the invariant.
LEMMA DirStep ==
  ASSUME DirInv, RestShapes, ~NamesAreReused, [DirNext]_dirVars
  PROVE  DirInv'
<1>1. ASSUME NEW d \in DirIds, Open(d) PROVE DirInv'
  BY <1>1, DirUntouched DEF Open, repository
<1>2. ASSUME NEW d \in DirIds, Work(d) PROVE DirInv'
  BY <1>2, WorkSteps
<1>3. ASSUME NEW d \in DirIds, NEW s \in Slugs, CreateUnnamed(d, s) \/ CreateIsCut(d, s) \/ \E b \in Slugs : CreateNamed(d, s, b)
      PROVE  DirInv'
  BY <1>3, CreationSteps
<1>4. ASSUME NEW h \in Requests, NEW d \in DirIds, AskToName(h, d) \/ AskToDelete(h, d) \/ AskToMerge(h, d)
      PROVE  DirInv'
  BY <1>4, Asked DEF AskToName, AskToDelete, AskToMerge
<1>5. ASSUME NEW h \in Requests, HandlerStep(h) \/ HandlerFails(h) PROVE DirInv'
  BY <1>5, HandlerSteps, RowHandlers, RemovalSteps, WorkSteps DEF HandlerStep
<1>6. ASSUME NEW t \in IsolationTasks, TaskStep(t) \/ TaskFault(t) PROVE DirInv'
  BY <1>6, TaskSteps, RowTasks, RemovalSteps, WorktreeAdded DEF TaskStep, TaskFault, RestShapes
<1>7. ASSUME Resolves PROVE DirInv'
  BY <1>7, DirUntouched DEF Resolves
<1>8. ASSUME ServerRestarts PROVE DirInv'
  BY <1>8, Restarted
<1>9. ASSUME UNCHANGED dirVars PROVE DirInv'
  BY <1>9, DirUntouched DEF dirVars, repository
<1>10. QED
  BY <1>1, <1>2, <1>3, <1>4, <1>5, <1>6, <1>7, <1>8, <1>9 DEF DirNext

\* The invariant holds as long as no name is used twice: what removes the
\* worktree of a deleted direction knows it by its path alone.
THEOREM DirectionsAreSound ==
  ASSUME ~NamesAreReused
  PROVE  DirSpec => [](DirInv /\ RestShapes)
<1>1. DirInit => DirInv /\ RestShapes
  BY DirStart
<1>2. DirInv /\ RestShapes /\ [DirNext]_dirVars => (DirInv /\ RestShapes)'
  BY DirStep, RestStep
<1>3. QED
  BY <1>1, <1>2, PTL DEF DirSpec

\* The types of the directions.
THEOREM DirTypeCorrect ==
  ASSUME ~NamesAreReused
  PROVE  DirSpec => []DirTypeOK
<1>1. DirInv /\ RestShapes => DirTypeOK
  BY DEF DirInv, DirShapes, NamesAreOwn, RestShapes, DirTypeOK
<1>2. QED
  BY <1>1, DirectionsAreSound, PTL

\* A live direction in preparation has a task at it, unless a fault or a
\* restart cut that task off.
THEOREM PreparationIsAttended ==
  ASSUME ~NamesAreReused
  PROVE  DirSpec => []PreparingIsAttended
<1>1. DirInv /\ RestShapes => PreparingIsAttended
  BY DEF DirInv, AllAttended, Attends, Kept, PreparingIsAttended
<1>2. QED
  BY <1>1, DirectionsAreSound, PTL

\* No clean-up removes the worktree a live direction is recorded in.
THEOREM WorktreesAreThere ==
  ASSUME ~NamesAreReused
  PROVE  DirSpec => []WorktreeIsReal
<1>1. DirInv /\ RestShapes => WorktreeIsReal
  BY DEF DirInv, TreesAreThere, NamesAreOwn, HasOwn, Kept, Live, WorktreeIsReal
<1>2. QED
  BY <1>1, DirectionsAreSound, PTL

\* A merge reported clean has brought everything the direction had when the
\* merge was asked for.
THEOREM MergesAreWhole ==
  ASSUME ~NamesAreReused
  PROVE  DirSpec => MergedIsWhole
<1>1. ASSUME DirInv, NEW h \in Requests, MergesClean(h), Live(request[h].dir), request[h].dir \notin stranded
      PROVE  request[h].seen \subseteq base'
  <2>1. request[h].seen \subseteq OnBranch(request[h].row.branch)
    BY <1>1 DEF DirInv, MergesBringAll, MergesClean, RequestAt, Kept
  <2>2. base' = base \cup commits[request[h].row.branch]
    BY <1>1 DEF MergesClean
  <2>3. QED
    BY <2>1, <2>2 DEF OnBranch
<1>2. DirInv /\ RestShapes /\ [DirNext]_dirVars =>
        [\A h \in Requests :
           MergesClean(h) /\ Live(request[h].dir) /\ request[h].dir \notin stranded
             /\ request[h].row.cwd = dir[request[h].dir].cwd
             => request[h].seen \subseteq base']_dirVars
  BY <1>1
<1>3. QED
  BY <1>2, DirectionsAreSound, PTL DEF DirSpec, MergedIsWhole
=============================================================================
