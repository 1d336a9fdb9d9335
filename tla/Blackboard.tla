----------------------------- MODULE Blackboard -----------------------------
(***************************************************************************)
(* The blackboard: files under one root, the op-log in SQLite that makes   *)
(* them discoverable, and the watcher that records what people change by   *)
(* hand.  A write primes seen_sha, writes a temporary file, renames it     *)
(* over the key, appends the op-log row and broadcasts; the watcher reads  *)
(* a changed file, compares it with seen_sha, refreshes seen_sha and       *)
(* appends in four separate steps; a booting server backfills the rows of  *)
(* files the op-log does not know.  A crash may come between any two       *)
(* steps: files and rows survive it, seen_sha and every task do not.       *)
(*                                                                         *)
(* A content stands for its sha256 too.  A row is [key, op, val]; its id   *)
(* is its place in the log.                                                *)
(***************************************************************************)
EXTENDS Naturals, FiniteSets, Sequences

CONSTANTS
  Keys,        \* blackboard keys
  Direction,   \* the keys under the prefix of a direction that may be deleted
  Contents,    \* texts a file can hold
  Calls,       \* REST calls served at the same time
  Tasks,       \* reconcile tasks the watcher can have running at once
  ListLimit,   \* rows list_blackboard_ops(None) returns: 200 in the code
  OneShots,    \* permits of oneshot_limiter
  MaxRequests, MaxEdits, MaxCrashes,  \* calls, edits by hand, crashes
  MaxBoardEvents,                     \* and all of them together
  MaxBoardFaults                      \* failing database and file writes

Absent == "absent"
Half == "torn"          \* a file of which only a part was written

ASSUME BlackboardAssumption ==
  /\ Direction \subseteq Keys /\ IsFiniteSet(Calls)
  /\ Contents \cap {Absent, Half, ""} = {}
  /\ {ListLimit, OneShots, MaxRequests, MaxEdits, MaxCrashes, MaxBoardEvents, MaxBoardFaults} \subseteq Nat

VARIABLES
  disk,        \* the file of each key
  tmp,         \* the temporary file of each call
  seen,        \* seen_sha
  oplog,       \* the table blackboard_ops
  call,        \* the REST calls
  task,        \* the reconcile_external tasks
  undelivered,         \* keys whose change the debouncer has not delivered yet
  published,   \* BlackboardChanged events of the running server
  server,        \* the server's phase and, while it boots, its reconcile
  env          \* how much of each bound is used up

boardVars == <<disk, tmp, seen, oplog, call, task, undelivered, published, server, env>>

OpRow(k, o, v) == [key |-> k, op |-> o, val |-> v]
RowsOf(k) == {i \in DOMAIN oplog : oplog[i].key = k}
LatestOf(k) == oplog[CHOOSE i \in RowsOf(k) : \A j \in RowsOf(k) : j <= i]
LoggedKeys == {oplog[i].key : i \in DOMAIN oplog}

\* list_blackboard_ops(None): the keys of the newest ListLimit latest rows.
LatestIds == {CHOOSE i \in RowsOf(k) : \A j \in RowsOf(k) : j <= i : k \in LoggedKeys}
KnownKeys == {oplog[i].key : i \in {j \in LatestIds :
                 Cardinality({l \in LatestIds : l > j}) < ListLimit}}
\* list_blackboard_paths, blackboard_paths_present: a tombstone hides its key.
ListedKey(k) == RowsOf(k) # {} /\ LatestOf(k).op # "delete"

\* The log when only the rows at ids are left, in their order.
Nth(ids, n) == CHOOSE i \in ids : Cardinality({j \in ids : j <= i}) = n
LogOf(ids) == [n \in 1 .. Cardinality(ids) |-> oplog[Nth(ids, n)]]

NoTask == [pc |-> "free"]
\* One more call, edit or crash.
Event == env.requests + env.edits + env.crashes < MaxBoardEvents
CanFault == env.faults < MaxBoardFaults
Fault == env' = [env EXCEPT !.faults = @ + 1]
Append1(r) == oplog' = Append(oplog, r)
\* A new request takes a connection that serves none.
Accept(c) ==
  /\ server.phase = "up" /\ call[c].pc \in {"free", "ok", "error", "lost"}
  /\ Event /\ env.requests < MaxRequests /\ env' = [env EXCEPT !.requests = @ + 1]
CallTo(c, p) == call' = [call EXCEPT ![c].pc = p]
Changed(k, v) == /\ disk' = [disk EXCEPT ![k] = v]
                 /\ undelivered' = undelivered \cup {k}

BoardInit ==
  /\ disk = [k \in Keys |-> Absent] /\ tmp = [c \in Calls |-> Absent]
  /\ seen = [k \in Keys |-> Absent] /\ oplog = <<>>
  /\ call = [c \in Calls |-> NoTask] /\ task = [t \in Tasks |-> NoTask]
  /\ undelivered = {} /\ published = {}
  /\ server = [phase |-> "up", known |-> {}, files |-> {}, found |-> {}, missed |-> {}]
  /\ env = [requests |-> 0, edits |-> 0, faults |-> 0, crashes |-> 0]

-----------------------------------------------------------------------------
(* A write: write_blackboard of the swarm crate, step by step.              *)

StartWrite(c, k, v) ==
  /\ Accept(c)
  /\ call' = [call EXCEPT ![c] = [pc |-> "prime", op |-> "write", key |-> k, val |-> v]]
  /\ UNCHANGED <<disk, tmp, seen, oplog, task, undelivered, published, server>>

\* The cache is primed before the file changes.
Prime(c) ==
  /\ call[c].pc = "prime"
  /\ seen' = [seen EXCEPT ![call[c].key] = call[c].val]
  /\ CallTo(c, "create")
  /\ UNCHANGED <<disk, tmp, oplog, task, undelivered, published, server, env>>

CreateTmp(c) ==
  /\ call[c].pc = "create"
  /\ tmp' = [tmp EXCEPT ![c] = Half]
  /\ CallTo(c, "fill")
  /\ UNCHANGED <<disk, seen, oplog, task, undelivered, published, server, env>>

\* A crash before this step leaves a torn temporary file; the watcher and
\* the boot walk both skip it, since its name starts with a dot.
FillTmp(c) ==
  /\ call[c].pc = "fill"
  /\ tmp' = [tmp EXCEPT ![c] = call[c].val]
  /\ CallTo(c, "rename")
  /\ UNCHANGED <<disk, seen, oplog, task, undelivered, published, server, env>>

Rename(c) ==
  /\ call[c].pc = "rename"
  /\ Changed(call[c].key, tmp[c])
  /\ tmp' = [tmp EXCEPT ![c] = Absent]
  /\ CallTo(c, "log")
  /\ UNCHANGED <<seen, oplog, task, published, server, env>>

\* The write fails (disk full): the temporary file goes, the call returns
\* the error, and seen_sha keeps the content that never reached the disk.
WriteFails(c) ==
  /\ call[c].pc \in {"create", "fill", "rename"} /\ CanFault /\ Fault
  /\ tmp' = [tmp EXCEPT ![c] = Absent]
  /\ CallTo(c, "error")
  /\ UNCHANGED <<disk, seen, oplog, task, undelivered, published, server>>

(* A delete: the REST handler, with the same posture as a write.            *)

StartDelete(c, k) ==
  /\ Accept(c) /\ disk[k] # Absent
  /\ call' = [call EXCEPT ![c] = [pc |-> "remove", op |-> "delete", key |-> k, val |-> ""]]
  /\ UNCHANGED <<disk, tmp, seen, oplog, task, undelivered, published, server>>

\* A file that went meanwhile is no error: the tombstone is still recorded.
RemoveFile(c) ==
  /\ call[c].pc = "remove"
  /\ Changed(call[c].key, Absent)
  /\ CallTo(c, "log")
  /\ UNCHANGED <<tmp, seen, oplog, task, published, server, env>>

(* A compaction: the ledger is read, summarised by a one-shot agent that    *)
(* takes up to two minutes, and written back.                               *)

StartCompact(c, k) ==
  /\ Accept(c) /\ disk[k] # Absent
  /\ Cardinality({d \in Calls : call[d].pc = "summarise"}) < OneShots
  /\ call' = [call EXCEPT ![c] = [pc |-> "summarise", op |-> "compact", key |-> k, val |-> disk[k]]]
  /\ UNCHANGED <<disk, tmp, seen, oplog, task, undelivered, published, server>>

\* The write that follows is tagged with the agent "compact" and the op "write".
Summarised(c, v) ==
  /\ call[c].pc = "summarise" /\ v # call[c].val
  /\ call' = [call EXCEPT ![c] = [@ EXCEPT !.pc = "prime", !.op = "write", !.val = v]]
  /\ UNCHANGED <<disk, tmp, seen, oplog, task, undelivered, published, server, env>>

\* Timeout, no login, or no smaller summary: the ledger is left alone.
NoSummary(c) ==
  /\ call[c].pc = "summarise"
  /\ CallTo(c, "error")
  /\ UNCHANGED <<disk, tmp, seen, oplog, task, undelivered, published, server, env>>

(* The op-log row and the broadcast, which a failed insert must not stop.   *)

LogRow(c) ==
  /\ call[c].pc = "log"
  /\ Append1(OpRow(call[c].key, call[c].op, call[c].val))
  /\ CallTo(c, "announce")
  /\ UNCHANGED <<disk, tmp, seen, task, undelivered, published, server, env>>

LogFails(c) ==
  /\ call[c].pc = "log" /\ CanFault /\ Fault
  /\ CallTo(c, "announce")
  /\ UNCHANGED <<disk, tmp, seen, oplog, task, undelivered, published, server>>

Announce(c) ==
  /\ call[c].pc = "announce"
  /\ published' = published \cup {OpRow(call[c].key, call[c].op, call[c].val)}
  /\ CallTo(c, "ok")
  /\ UNCHANGED <<disk, tmp, seen, oplog, task, undelivered, server, env>>

-----------------------------------------------------------------------------
(* People and git change files; the watcher reconciles them.                *)

Edit(k, v) ==
  /\ Event /\ env.edits < MaxEdits /\ v # disk[k]
  /\ env' = [env EXCEPT !.edits = @ + 1]
  /\ Changed(k, v)
  /\ UNCHANGED <<tmp, seen, oplog, call, task, published, server>>

\* handle_batch spawns a task for every path of every event: one change may
\* spawn several, so delivering an event may leave the key due once more.
Dispatch(t, k) ==
  /\ server.phase # "down" /\ k \in undelivered /\ task[t] = NoTask
  /\ task' = [task EXCEPT ![t] = [pc |-> "read", key |-> k, val |-> Absent]]
  /\ \/ undelivered' = undelivered \ {k}
     \/ undelivered' = undelivered /\ \A u \in Tasks : task[u] = NoTask
  /\ UNCHANGED <<disk, tmp, seen, oplog, call, published, server, env>>

FinishTask(t) == task' = [task EXCEPT ![t] = NoTask]

\* canonicalize and read: a file that is gone is nothing to reconcile.
TaskRead(t) ==
  /\ task[t].pc = "read"
  /\ IF disk[task[t].key] = Absent THEN FinishTask(t)
     ELSE task' = [task EXCEPT ![t].pc = "compare", ![t].val = disk[task[t].key]]
  /\ UNCHANGED <<disk, tmp, seen, oplog, call, undelivered, published, server, env>>

\* The lock on seen_sha is dropped after the comparison ...
TaskCompare(t) ==
  /\ task[t].pc = "compare"
  /\ IF seen[task[t].key] = task[t].val THEN FinishTask(t)
     ELSE task' = [task EXCEPT ![t].pc = "mark"]
  /\ UNCHANGED <<disk, tmp, seen, oplog, call, undelivered, published, server, env>>

\* ... and taken again to store the new hash.
TaskMark(t) ==
  /\ task[t].pc = "mark"
  /\ seen' = [seen EXCEPT ![task[t].key] = task[t].val]
  /\ task' = [task EXCEPT ![t].pc = "insert"]
  /\ UNCHANGED <<disk, tmp, oplog, call, undelivered, published, server, env>>

TaskInsert(t) ==
  /\ task[t].pc = "insert"
  /\ Append1(OpRow(task[t].key, "external", task[t].val))
  /\ task' = [task EXCEPT ![t].pc = "announce"]
  /\ UNCHANGED <<disk, tmp, seen, call, undelivered, published, server, env>>

\* The insert fails: the task only logs it, and seen_sha already holds the hash.
TaskInsertFails(t) ==
  /\ task[t].pc = "insert" /\ CanFault /\ Fault
  /\ FinishTask(t)
  /\ UNCHANGED <<disk, tmp, seen, oplog, call, undelivered, published, server>>

TaskAnnounce(t) ==
  /\ task[t].pc = "announce"
  /\ published' = published \cup {OpRow(task[t].key, "external", task[t].val)}
  /\ FinishTask(t)
  /\ UNCHANGED <<disk, tmp, seen, oplog, call, undelivered, server, env>>

-----------------------------------------------------------------------------
(* Deleting a direction drops the rows under its prefix, then its files.    *)

DropRows(c) ==
  /\ Accept(c)
  /\ oplog' = LogOf({i \in DOMAIN oplog : oplog[i].key \notin Direction})
  /\ call' = [call EXCEPT ![c] = [pc |-> "rmdir", op |-> "drop", key |-> "", val |-> ""]]
  /\ UNCHANGED <<disk, tmp, seen, task, undelivered, published, server>>

DropFiles(c) ==
  /\ call[c].pc = "rmdir"
  /\ disk' = [k \in Keys |-> IF k \in Direction THEN Absent ELSE disk[k]]
  /\ undelivered' = undelivered \cup {k \in Direction : disk[k] # Absent}
  /\ CallTo(c, "ok")
  /\ UNCHANGED <<tmp, seen, oplog, task, published, server, env>>

-----------------------------------------------------------------------------
(* A crash, and the boot that follows.                                      *)

Crash ==
  /\ server.phase # "down" /\ Event /\ env.crashes < MaxCrashes
  /\ env' = [env EXCEPT !.crashes = @ + 1]
  /\ server' = [server EXCEPT !.phase = "down"]
  /\ seen' = [k \in Keys |-> Absent]
  /\ call' = [c \in Calls |-> [call[c] EXCEPT !.pc = "lost"]]
  /\ task' = [t \in Tasks |-> NoTask] /\ undelivered' = {} /\ published' = {}
  /\ UNCHANGED <<disk, tmp, oplog>>

\* The watcher starts before the reconcile, which first reads the op-log.
BootKnown ==
  /\ server.phase = "down"
  /\ undelivered' = {}                           \* nothing was watched while down
  /\ server' = [phase |-> "walk", known |-> KnownKeys, files |-> {},
                found |-> {}, missed |-> {}]
  /\ UNCHANGED <<disk, tmp, seen, oplog, call, task, published, env>>

\* collect_blackboard_files: every regular file whose name has no leading dot.
BootWalk ==
  /\ server.phase = "walk"
  /\ server' = [server EXCEPT !.phase = "backfill",
                !.found = {k \in Keys : disk[k] # Absent},
                !.files = {[key |-> k, val |-> disk[k]] : k \in {l \in Keys : disk[l] # Absent}}]
  /\ UNCHANGED <<disk, tmp, seen, oplog, call, task, undelivered, published, env>>

\* The next file, in the order the walk met them: skipped when the log knows
\* its key, else backfilled.
Backfill ==
  /\ server.phase = "backfill"
  /\ \E f \in server.files :
       /\ oplog' = IF f.key \in server.known THEN oplog
                   ELSE Append(oplog, OpRow(f.key, "reconcile", f.val))
       /\ server' = [server EXCEPT !.files = @ \ {f}]
  /\ UNCHANGED <<disk, tmp, seen, call, task, undelivered, published, env>>

\* A failed backfill is logged and the next file is tried.
BackfillFails ==
  /\ server.phase = "backfill" /\ CanFault /\ Fault
  /\ \E f \in server.files :
       /\ f.key \notin server.known
       /\ server' = [server EXCEPT !.files = @ \ {f}, !.missed = @ \cup {f.key}]
  /\ UNCHANGED <<disk, tmp, seen, oplog, call, task, undelivered, published>>

\* KeptAt that also drops the row that describes the key now.
KeptBlindlyAt(cut) == {i \in DOMAIN oplog : i >= cut}

\* prune_expired drops rows older than the window that a newer row of the
\* same key supersedes; cut is the first row inside the window.
KeptAt(cut) == {i \in DOMAIN oplog : i >= cut \/ \A j \in RowsOf(oplog[i].key) : j <= i}
\* Then the server serves requests.
Serve(cut) ==
  /\ server.phase = "backfill" /\ server.files = {}
  /\ oplog' = LogOf(KeptAt(cut))
  /\ server' = [server EXCEPT !.phase = "up"]
  /\ UNCHANGED <<disk, tmp, seen, call, task, undelivered, published, env>>

-----------------------------------------------------------------------------
Writer(c) ==
  \/ \E k \in Keys : StartDelete(c, k) \/ StartCompact(c, k)
                    \/ \E v \in Contents : StartWrite(c, k, v)
  \/ \E v \in Contents : Summarised(c, v)
  \/ NoSummary(c) \/ Prime(c) \/ CreateTmp(c) \/ FillTmp(c) \/ Rename(c) \/ WriteFails(c)
  \/ RemoveFile(c) \/ LogRow(c) \/ LogFails(c) \/ Announce(c) \/ DropRows(c) \/ DropFiles(c)

Reconciler(t) == TaskRead(t) \/ TaskCompare(t) \/ TaskMark(t) \/ TaskInsert(t)
                 \/ TaskInsertFails(t) \/ TaskAnnounce(t)

Boot == BootKnown \/ BootWalk \/ Backfill \/ BackfillFails
        \/ \E cut \in 1 .. Len(oplog) + 1 : Serve(cut)

BoardNext ==
  \/ \E c \in Calls : Writer(c)
  \/ \E t \in Tasks : Reconciler(t) \/ \E k \in Keys : Dispatch(t, k)
  \/ \E k \in Keys, v \in Contents \cup {Absent} : Edit(k, v)
  \/ Crash \/ Boot

BoardSpec == BoardInit /\ [][BoardNext]_boardVars

-----------------------------------------------------------------------------
\* Every variable has the shape the code gives it.
BoardTypeOK ==
  LET Files == Contents \cup {Absent, Half} IN
  /\ disk \in [Keys -> Files] /\ tmp \in [Calls -> Files]
  /\ seen \in [Keys -> Contents \cup {Absent}]
  /\ \A i \in DOMAIN oplog : oplog[i] \in [key : Keys, op : {"write", "delete", "external", "reconcile"},
                                        val : Contents \cup {""}]
  /\ \A c \in Calls : call[c].pc \in {"free", "prime", "create", "fill", "rename", "remove", "rmdir",
                                     "summarise", "log", "announce", "ok", "error", "lost"}
  /\ \A t \in Tasks : task[t].pc \in {"free", "read", "compare", "mark", "insert", "announce"}
  /\ undelivered \subseteq Keys
  /\ server.phase \in {"up", "down", "walk", "backfill"}

\* The file of a key is always one whole text or none, whatever step of a
\* write a crash, a failure or another write cuts into (write_blackboard).
NeverTorn == \A k \in Keys : disk[k] # Half

\* A write or delete that answered OK was broadcast by the running server,
\* also when its op-log row could not be inserted: a dependent never waits
\* for a key that is there (F6).
OkIsAnnounced == \A c \in Calls :
  call[c].pc = "ok" /\ call[c].op # "drop" => OpRow(call[c].key, call[c].op, call[c].val) \in published

\* When the boot reconcile is through, every file its walk found is in the
\* op-log, but for those whose own backfill failed (reconcile_oplog_from_disk).
BootFindsAll ==
  server.phase = "backfill" /\ server.files = {} => server.found \subseteq LoggedKeys \cup server.missed

\* Only deleting its direction makes the op-log forget a key: retention keeps
\* the row that describes each key now, tombstones included (prune_expired).
NoKeyIsForgotten == [][LoggedKeys \subseteq LoggedKeys' \/ \E c \in Calls : DropRows(c)]_boardVars

\* When the writers and the watcher have come to rest, the text of every file
\* is in its key's history, whoever put it there and however their steps were
\* interleaved, but for failed database writes, crashes and deleted directions
\* (write_blackboard, reconcile_external).
BoardSettled == /\ server.phase = "up" /\ undelivered = {} /\ \A t \in Tasks : task[t] = NoTask
         /\ \A c \in Calls : call[c].pc \in {"free", "ok", "error"}
TextIsRecorded ==
  BoardSettled /\ env.faults = 0 /\ env.crashes = 0 =>
    \A k \in Keys \ Direction : disk[k] = Absent \/ \E i \in RowsOf(k) : oplog[i].val = disk[k]

\* What list_blackboard_paths says of the tombstones it hides: "the file is
\* gone from disk".  seen_sha outlives a delete, so a file put back with its
\* old text is taken for the server's own write and stays hidden.
TombstoneMeansGone == BoardSettled /\ env.faults = 0 =>
  \A k \in Keys : RowsOf(k) # {} /\ ~ListedKey(k) => disk[k] = Absent
=============================================================================
