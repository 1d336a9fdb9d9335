----------------------------- MODULE Directions -----------------------------
(***************************************************************************)
(* The directions (threads) of one workspace and the git worktrees that    *)
(* keep them apart.                                                         *)
(*                                                                         *)
(* A direction is a row: shared or degraded in the project's directory, or *)
(* isolated in a worktree of its own.  Naming a direction starts a         *)
(* background task that builds the worktree, records it and restarts the   *)
(* captain in it; deleting a direction stops its captain, marks the row,   *)
(* purges its ledger and removes worktree and branch in the background;    *)
(* merging commits what lies in the worktree and merges the branch.  The   *)
(* handlers share nothing but the row and the disk.                        *)
(*                                                                         *)
(* A path is the sequence of branches it was derived from, << >> being the *)
(* project's directory.  What an agent did is abstracted to the direction  *)
(* it did it for.  The main direction can be neither isolated nor deleted  *)
(* and is left out.                                                         *)
(***************************************************************************)
EXTENDS Naturals, Sequences

CONSTANTS
  DirIds,            \* the rows that may be created
  Slugs,             \* slugs, which are also the names of branches
  Requests,          \* the handlers that may run at the same time
  MaxDirTasks,       \* isolation tasks
  MaxDirRequests,       \* requests to name, delete or merge a direction
  MaxDirFaults,      \* failing git and store calls, dropped connections
  DirRestarts,       \* restarts of the server
  NamesAreReused,    \* whether a freed slug, or another's branch, may be taken
  Nil                \* no row, no branch, no captain, no merge, nobody

\* What a row, a handler and an isolation task are.
DirRows == [slug : Slugs, isolation : {"shared", "degraded", "worktree"}, branch : Slugs \cup {Nil},
            cwd : Seq(Slugs), state : {"preparing", "ready"}, alive : BOOLEAN]
RequestRows == [dir : DirIds, row : DirRows, seen : SUBSET DirIds,
                pc : {"name", "stop", "mark", "purge", "remove", "branch", "commit", "merge"}]
IsolationRows == [dir : DirIds, from : Seq(Slugs), branch : Slugs, written : BOOLEAN,
                  pc : {"git", "record", "look", "remove", "degrade", "reroot", "init"}]

ASSUME DirAssumption ==
  /\ {MaxDirTasks, MaxDirRequests, MaxDirFaults, DirRestarts} \subseteq Nat
  /\ NamesAreReused \in BOOLEAN
  /\ Nil \notin Slugs /\ Nil \notin DirRows /\ Nil \notin RequestRows /\ Nil \notin IsolationRows
  /\ (\A S \in SUBSET DirIds : S # Nil) /\ Nil \notin Seq(Slugs)

IsolationTasks == 1..MaxDirTasks
Project == <<>>
WorktreeDest(at, branch) == Append(at, branch)

VARIABLES
  dir,        \* the rows of the threads table
  tree,       \* the worktrees on disk: path -> branch and uncommitted work
  commits,    \* what each branch holds
  base,       \* what the project's branch holds
  merging,    \* a merge that stopped on conflicts
  board,     \* what lies on the blackboard under each slug
  captainIn,    \* where the captain of each direction runs
  request,    \* the handlers
  isolating,       \* the isolation tasks
  stranded,   \* the directions a fault or a restart cut off
  dirLeft        \* what is left of the bounds

repository == <<tree, commits, base, merging>>
dirVars == <<dir, repository, board, captainIn, request, isolating, stranded, dirLeft>>

NewDir(s, st) == [slug |-> s, isolation |-> "shared", branch |-> Nil,
                  cwd |-> Project, state |-> st, alive |-> TRUE]

Exists(d) == dir[d] # Nil
Live(d) == Exists(d) /\ dir[d].alive

\* update_thread writes nothing to a deleted row.
UpdateThread(d, row) == dir' = IF Live(d) THEN [dir EXCEPT ![d] = row] ELSE dir

DirInit ==
  /\ dir = [d \in DirIds |-> Nil]
  /\ tree = [p \in {} |-> Nil]
  /\ \E old \in SUBSET Slugs : commits = [s \in Slugs |-> IF s \in old THEN {} ELSE Nil]
  /\ base = {} /\ merging = Nil
  /\ board = [s \in Slugs |-> {}]
  /\ captainIn = [d \in DirIds |-> Nil]
  /\ request = [h \in Requests |-> Nil]
  /\ isolating = [t \in IsolationTasks |-> Nil]
  /\ stranded = {}
  /\ dirLeft = [tasks |-> MaxDirTasks, requests |-> MaxDirRequests,
             faults |-> MaxDirFaults, restarts |-> DirRestarts]

Spend(what) == dirLeft[what] > 0 /\ dirLeft' = [dirLeft EXCEPT ![what] = @ - 1]

\* The next isolation task, which starts with git; `from` is the directory it
\* was told to branch off.
TaskFor(d, from, branch) ==
  isolating' = [isolating EXCEPT ![MaxDirTasks - dirLeft.tasks + 1] =
             [dir |-> d, from |-> from, branch |-> branch, pc |-> "git", written |-> FALSE]]

-----------------------------------------------------------------------------
(* Creating a direction, and what its captain does.                         *)

SlugIsFree(s) ==
  /\ \A d \in DirIds : Live(d) => dir[d].slug # s
  /\ NamesAreReused \/ \A d \in DirIds : Exists(d) => dir[d].slug # s

\* Without a name: shared and ready, to be isolated when it is named.
CreateUnnamed(d, s) ==
  /\ ~Exists(d) /\ SlugIsFree(s)
  /\ dir' = [dir EXCEPT ![d] = NewDir(s, "ready")]
  /\ UNCHANGED <<repository, board, captainIn, request, isolating, stranded, dirLeft>>

\* With a name: preparing, with a task; b is the slug or an existing branch.
CreateNamed(d, s, b) ==
  /\ ~Exists(d) /\ SlugIsFree(s)
  /\ b = s \/ (NamesAreReused /\ commits[b] # Nil)
  /\ dir' = [dir EXCEPT ![d] = NewDir(s, "preparing")]
  /\ Spend("tasks") /\ TaskFor(d, Project, b)
  /\ UNCHANGED <<repository, board, captainIn, request, stranded>>

\* The client hangs up while the row is being inserted: the row lands, the
\* handler is gone before it starts the task.
CreateIsCut(d, s) ==
  /\ ~Exists(d) /\ SlugIsFree(s) /\ Spend("faults")
  /\ dir' = [dir EXCEPT ![d] = NewDir(s, "preparing")]
  /\ stranded' = stranded \cup {d}
  /\ UNCHANGED <<repository, board, captainIn, request, isolating>>

\* The user opens the direction: its captain starts where the row says.
Open(d) ==
  /\ Live(d) /\ captainIn[d] = Nil
  /\ captainIn' = [captainIn EXCEPT ![d] = dir[d].cwd]
  /\ UNCHANGED <<dir, repository, board, request, isolating, stranded, dirLeft>>

\* The captain and its workers write the ledger, and files in their worktree.
Work(d) ==
  /\ captainIn[d] # Nil
  /\ board' = [board EXCEPT ![dir[d].slug] = @ \cup {d}]
  /\ tree' = IF captainIn[d] \in DOMAIN tree
               THEN [tree EXCEPT ![captainIn[d]].dirty = @ \cup {d}] ELSE tree
  /\ UNCHANGED <<dir, commits, base, merging, captainIn, request, isolating, stranded, dirLeft>>

-----------------------------------------------------------------------------
(* The handlers.  Each reads the row, deleted or not, and works on from     *)
(* what it read.                                                            *)

RequestTo(h, pc) == request' = [request EXCEPT ![h].pc = pc]
RequestEnds(h) == request' = [request EXCEPT ![h] = Nil]
RequestAt(h, pc) == request[h] # Nil /\ request[h].pc = pc

Uncommitted(p) == IF p \in DOMAIN tree THEN tree[p].dirty ELSE {}
OnBranch(b) == IF b = Nil \/ commits[b] = Nil THEN {} ELSE commits[b]

Ask(h, d, op) ==
  /\ request[h] = Nil /\ Exists(d) /\ Spend("requests")
  /\ request' = [request EXCEPT ![h] =
       [dir |-> d, row |-> dir[d], pc |-> op,
        seen |-> Uncommitted(dir[d].cwd) \cup OnBranch(dir[d].branch)]]
  /\ UNCHANGED <<dir, repository, board, captainIn, isolating, stranded>>

AskToName(h, d) == Ask(h, d, "name")
AskToDelete(h, d) == Ask(h, d, "stop")
AskToMerge(h, d) ==
  /\ Exists(d) /\ dir[d].isolation = "worktree" /\ dir[d].branch # Nil
  /\ Ask(h, d, "commit")

ShouldIsolate(row) == row.isolation # "worktree" /\ row.state # "preparing"

\* PATCH: preparing and a task, or a mere rename.
NamesAndIsolates(h) ==
  LET d == request[h].dir IN
  /\ RequestAt(h, "name") /\ ShouldIsolate(request[h].row)
  /\ UpdateThread(d, [dir[d] EXCEPT !.state = "preparing"])
  /\ Spend("tasks") /\ TaskFor(d, request[h].row.cwd, request[h].row.slug)
  /\ RequestEnds(h)
  /\ UNCHANGED <<repository, board, captainIn, stranded>>

Renames(h) ==
  /\ RequestAt(h, "name") /\ ~ShouldIsolate(request[h].row) /\ RequestEnds(h)
  /\ UNCHANGED <<dir, repository, board, captainIn, isolating, stranded, dirLeft>>

\* DELETE: the live agents first, then the row.
StopsAgents(h) ==
  /\ RequestAt(h, "stop")
  /\ captainIn' = [captainIn EXCEPT ![request[h].dir] = Nil]
  /\ RequestTo(h, "mark")
  /\ UNCHANGED <<dir, repository, board, isolating, stranded, dirLeft>>

MarksDeleted(h) ==
  LET d == request[h].dir IN
  /\ RequestAt(h, "mark")
  /\ UpdateThread(d, [dir[d] EXCEPT !.alive = FALSE])
  /\ RequestTo(h, "purge")
  /\ UNCHANGED <<repository, board, captainIn, isolating, stranded, dirLeft>>

\* The ledger goes; a worktree, if the row named one, goes in the background.
Purges(h) ==
  /\ RequestAt(h, "purge")
  /\ board' = [board EXCEPT ![request[h].row.slug] = {}]
  /\ IF request[h].row.isolation = "worktree" THEN RequestTo(h, "remove") ELSE RequestEnds(h)
  /\ UNCHANGED <<dir, repository, captainIn, isolating, stranded, dirLeft>>

Without(p) == [q \in DOMAIN tree \ {p} |-> tree[q]]
CheckedOut(b) == \E p \in DOMAIN tree : tree[p].branch = b

RemovesTree(h) ==
  /\ RequestAt(h, "remove")
  /\ tree' = Without(request[h].row.cwd)
  /\ RequestTo(h, "branch")
  /\ UNCHANGED <<dir, commits, base, merging, board, captainIn, isolating, stranded, dirLeft>>

\* git refuses to delete a branch that is checked out.
DeletesBranch(h) ==
  LET b == request[h].row.branch IN
  /\ RequestAt(h, "branch")
  /\ commits' = IF b = Nil \/ CheckedOut(b) THEN commits
                ELSE [commits EXCEPT ![b] = Nil]
  /\ RequestEnds(h)
  /\ UNCHANGED <<dir, tree, base, merging, board, captainIn, isolating, stranded, dirLeft>>

\* Commits that leaves what lies in the worktree where it is.
CommitIsSkipped(h) ==
  /\ RequestAt(h, "commit") /\ RequestTo(h, "merge")
  /\ UNCHANGED <<dir, repository, board, captainIn, isolating, stranded, dirLeft>>

\* Merge: what lies in the worktree is committed to its branch first.
Commits(h) ==
  LET p == request[h].row.cwd IN
  /\ RequestAt(h, "commit")
  /\ IF p \in DOMAIN tree
       THEN /\ commits' = [commits EXCEPT ![tree[p].branch] = @ \cup tree[p].dirty]
            /\ tree' = [tree EXCEPT ![p].dirty = {}]
       ELSE UNCHANGED <<tree, commits>>
  /\ RequestTo(h, "merge")
  /\ UNCHANGED <<dir, base, merging, board, captainIn, isolating, stranded, dirLeft>>

CanMerge(h) == merging = Nil /\ commits[request[h].row.branch] # Nil

MergesClean(h) ==
  /\ RequestAt(h, "merge") /\ CanMerge(h)
  /\ base' = base \cup commits[request[h].row.branch]
  /\ RequestEnds(h)
  /\ UNCHANGED <<dir, tree, commits, merging, board, captainIn, isolating, stranded, dirLeft>>

MergeConflicts(h) ==
  LET held == commits[request[h].row.branch] IN
  /\ RequestAt(h, "merge") /\ CanMerge(h) /\ ~(held \subseteq base)
  /\ merging' = held /\ RequestEnds(h)
  /\ UNCHANGED <<dir, tree, commits, base, board, captainIn, isolating, stranded, dirLeft>>

\* The project has changes that are not committed, or the branch is gone.
MergeRefused(h) ==
  /\ RequestAt(h, "merge") /\ ~CanMerge(h) /\ RequestEnds(h)
  /\ UNCHANGED <<dir, repository, board, captainIn, isolating, stranded, dirLeft>>

\* The agent that resolves the conflicts commits.
Resolves ==
  /\ merging # Nil
  /\ base' = base \cup merging /\ merging' = Nil
  /\ UNCHANGED <<dir, tree, commits, board, captainIn, request, isolating, stranded, dirLeft>>

\* A statement of a handler fails, or its client hangs up.  What runs in the
\* background or on a blocking thread is out of reach of both.
HandlerFails(h) ==
  /\ \E pc \in {"name", "stop", "mark", "purge"} : RequestAt(h, pc)
  /\ Spend("faults") /\ RequestEnds(h)
  /\ UNCHANGED <<dir, repository, board, captainIn, isolating, stranded>>

-----------------------------------------------------------------------------
(* The isolation task.                                                      *)

TaskAt(t, pc) == isolating[t] # Nil /\ isolating[t].pc = pc
TaskGoto(t, pc) == isolating' = [isolating EXCEPT ![t].pc = pc]
TaskEnds(t) == isolating' = [isolating EXCEPT ![t] = Nil]
Dest(t) == WorktreeDest(isolating[t].from, isolating[t].branch)

Held(at) == IF at \in DOMAIN tree THEN commits[tree[at].branch] ELSE base

\* worktree add: a new branch, or else the existing one if it is free.
GitCan(t) ==
  /\ isolating[t].from \in DOMAIN tree \cup {Project}
  /\ Dest(t) \notin DOMAIN tree /\ ~CheckedOut(isolating[t].branch)

GitAdds(t) ==
  LET b == isolating[t].branch IN
  /\ TaskAt(t, "git") /\ GitCan(t)
  /\ commits' = IF commits[b] = Nil
                  THEN [commits EXCEPT ![b] = Held(isolating[t].from)] ELSE commits
  /\ tree' = [p \in DOMAIN tree \cup {Dest(t)} |->
                IF p = Dest(t) THEN [branch |-> b, dirty |-> {}] ELSE tree[p]]
  /\ TaskGoto(t, "record")
  /\ UNCHANGED <<dir, base, merging, board, captainIn, request, stranded, dirLeft>>

GitRefuses(t) ==
  /\ TaskAt(t, "git") /\ ~GitCan(t) /\ TaskGoto(t, "degrade")
  /\ UNCHANGED <<dir, repository, board, captainIn, request, stranded, dirLeft>>

GitFails(t) ==
  /\ TaskAt(t, "git") /\ Spend("faults") /\ TaskGoto(t, "degrade")
  /\ UNCHANGED <<dir, repository, board, captainIn, request, stranded>>

Records(t) ==
  LET d == isolating[t].dir IN
  /\ TaskAt(t, "record")
  /\ UpdateThread(d, [dir[d] EXCEPT !.isolation = "worktree", !.branch = isolating[t].branch,
                                    !.cwd = Dest(t), !.state = "ready"])
  /\ isolating' = [isolating EXCEPT ![t].pc = "look", ![t].written = TRUE]
  /\ UNCHANGED <<repository, board, captainIn, request, stranded, dirLeft>>

RecordFails(t) ==
  /\ TaskAt(t, "record") /\ Spend("faults") /\ TaskGoto(t, "look")
  /\ UNCHANGED <<dir, repository, board, captainIn, request, stranded>>

\* The row is read again: deleted meanwhile, not written, or isolated.
Looks(t) ==
  /\ TaskAt(t, "look")
  /\ TaskGoto(t, IF ~Live(isolating[t].dir) THEN "remove"
                 ELSE IF isolating[t].written THEN "reroot" ELSE "degrade")
  /\ UNCHANGED <<dir, repository, board, captainIn, request, stranded, dirLeft>>

\* A row that cannot be read counts as deleted.
LookFails(t) ==
  /\ TaskAt(t, "look") /\ Spend("faults") /\ TaskGoto(t, "remove")
  /\ stranded' = stranded \cup {isolating[t].dir}
  /\ UNCHANGED <<dir, repository, board, captainIn, request>>

Discards(t) ==
  /\ TaskAt(t, "remove")
  /\ tree' = Without(Dest(t)) /\ TaskEnds(t)
  /\ UNCHANGED <<dir, commits, base, merging, board, captainIn, request, stranded, dirLeft>>

\* degraded and ready, whatever the row says now.
Degrades(t) ==
  LET d == isolating[t].dir IN
  /\ TaskAt(t, "degrade")
  /\ UpdateThread(d, [dir[d] EXCEPT !.isolation = "degraded", !.state = "ready"])
  /\ TaskEnds(t)
  /\ UNCHANGED <<repository, board, captainIn, request, stranded, dirLeft>>

DegradeFails(t) ==
  /\ TaskAt(t, "degrade") /\ Spend("faults") /\ TaskEnds(t)
  /\ stranded' = stranded \cup {isolating[t].dir}
  /\ UNCHANGED <<dir, repository, board, captainIn, request>>

LeavesCaptain(t) ==
  /\ TaskAt(t, "reroot") /\ TaskEnds(t)
  /\ UNCHANGED <<dir, repository, board, captainIn, request, stranded, dirLeft>>

\* The captain moves: it is stopped, and a new one is started in the worktree
\* unless the direction is found deleted.
StopsCaptain(t) ==
  /\ TaskAt(t, "reroot")
  /\ captainIn' = [captainIn EXCEPT ![isolating[t].dir] = Nil]
  /\ IF Live(isolating[t].dir) THEN TaskGoto(t, "init") ELSE TaskEnds(t)
  /\ UNCHANGED <<dir, repository, board, request, stranded, dirLeft>>

StartsCaptain(t) ==
  /\ TaskAt(t, "init")
  /\ captainIn' = [captainIn EXCEPT ![isolating[t].dir] = Dest(t)]
  /\ TaskEnds(t)
  /\ UNCHANGED <<dir, repository, board, request, stranded, dirLeft>>

CaptainFails(t) ==
  /\ TaskAt(t, "init") /\ Spend("faults") /\ TaskEnds(t)
  /\ UNCHANGED <<dir, repository, board, captainIn, request, stranded>>

\* Nothing at boot looks for directions that were being prepared.
ServerRestarts ==
  /\ Spend("restarts")
  /\ captainIn' = [d \in DirIds |-> Nil]
  /\ request' = [h \in Requests |-> Nil]
  /\ isolating' = [t \in IsolationTasks |-> Nil]
  /\ stranded' = stranded \cup {d \in DirIds : Live(d) /\ dir[d].state = "preparing"}
  /\ UNCHANGED <<dir, repository, board>>

-----------------------------------------------------------------------------
TaskStep(t) ==
  \/ GitAdds(t) \/ GitRefuses(t) \/ Records(t) \/ Looks(t) \/ Discards(t)
  \/ Degrades(t) \/ StopsCaptain(t) \/ StartsCaptain(t)

TaskFault(t) ==
  GitFails(t) \/ RecordFails(t) \/ LookFails(t) \/ DegradeFails(t) \/ CaptainFails(t)

HandlerStep(h) ==
  \/ NamesAndIsolates(h) \/ Renames(h) \/ StopsAgents(h) \/ MarksDeleted(h)
  \/ Purges(h) \/ RemovesTree(h) \/ DeletesBranch(h)
  \/ Commits(h) \/ MergesClean(h) \/ MergeConflicts(h) \/ MergeRefused(h)

DirNext ==
  \/ \E d \in DirIds : Open(d) \/ Work(d)
  \/ \E d \in DirIds, s \in Slugs : CreateUnnamed(d, s) \/ CreateIsCut(d, s)
  \/ \E d \in DirIds, s, b \in Slugs : CreateNamed(d, s, b)
  \/ \E h \in Requests, d \in DirIds :
       AskToName(h, d) \/ AskToDelete(h, d) \/ AskToMerge(h, d)
  \/ \E h \in Requests : HandlerStep(h) \/ HandlerFails(h)
  \/ \E t \in IsolationTasks : TaskStep(t) \/ TaskFault(t)
  \/ Resolves \/ ServerRestarts

DirSpec == DirInit /\ [][DirNext]_dirVars

\* Background tasks and handlers are futures the runtime polls to their end.
DirLiveSpec ==
  /\ DirSpec
  /\ \A t \in IsolationTasks : WF_dirVars(TaskStep(t))
  /\ \A h \in Requests : WF_dirVars(HandlerStep(h))

-----------------------------------------------------------------------------
DirTypeOK ==
  /\ dir \in [DirIds -> {Nil} \cup DirRows] /\ request \in [Requests -> {Nil} \cup RequestRows]
  /\ isolating \in [IsolationTasks -> {Nil} \cup IsolationRows]
  /\ DOMAIN tree \subseteq Seq(Slugs) \ {Project}
  /\ \A p \in DOMAIN tree : commits[tree[p].branch] # Nil
  /\ commits \in [Slugs -> {Nil} \cup SUBSET DirIds]
  /\ base \subseteq DirIds /\ merging \in {Nil} \cup SUBSET DirIds
  /\ board \in [Slugs -> SUBSET DirIds]
  /\ captainIn \in [DirIds -> {Nil} \cup Seq(Slugs)]
  /\ stranded \subseteq DirIds

\* A live direction in `preparing` has a task that will settle it, unless a
\* fault or a restart cut that task off: degrade_thread_to_shared and the order
\* of create and PATCH leave no other way to get stuck.
PreparingIsAttended ==
  \A d \in DirIds :
    Live(d) /\ dir[d].state = "preparing" /\ d \notin stranded
      => \E t \in IsolationTasks : isolating[t] # Nil /\ isolating[t].dir = d

\* The worktree a live direction is recorded in exists: neither the task that
\* found a direction deleted nor the clean-up of a DELETE removes the worktree
\* of another direction, or of one that is still there.
WorktreeIsReal ==
  \A d \in DirIds :
    Live(d) /\ dir[d].isolation = "worktree" /\ d \notin stranded
      => dir[d].cwd \in DOMAIN tree

\* A merge that was reported clean brought everything the direction had, the
\* uncommitted work in its worktree included, when the merge was asked for,
\* unless a fault or a DELETE took the worktree away.
MergedIsWhole ==
  [][\A h \in Requests :
       MergesClean(h) /\ Live(request[h].dir) /\ request[h].dir \notin stranded
         /\ request[h].row.cwd = dir[request[h].dir].cwd
         => request[h].seen \subseteq base']_dirVars

\* A direction that was isolated ends up with its captain in the worktree, or
\* with none, unless it is deleted or a failed read made the task give up
\* (reroot_thread_orchestrator).
CaptainMoves ==
  \A d \in DirIds :
    (Live(d) /\ dir[d].isolation = "worktree")
      ~> (~Live(d) \/ d \in stranded \/ captainIn[d] \in {Nil, dir[d].cwd})

\* worktree.rs promises that a same-named direction recreated later starts
\* fresh instead of re-attaching the history of the deleted one.
StartsFresh ==
  \A d \in DirIds :
    Live(d) /\ dir[d].isolation = "worktree" /\ dir[d].branch = dir[d].slug
      => OnBranch(dir[d].branch) \ base \subseteq {d}
=============================================================================
