----------------------------- MODULE FirstTurn -----------------------------
(***************************************************************************)
(* The first turn of one worker: the bootstrap task that holds its prompt  *)
(* until its dependencies are on the blackboard, the one-shot watchdog     *)
(* that flags a worker which never shows a sign of life, and the tailer    *)
(* that takes the flag back.                                               *)
(*                                                                         *)
(* Three clocks run from different starts and meet here, so time is a      *)
(* counter of half minutes; a timer that is due fires before time passes.  *)
(* A dependency is the latest row of its key in the op log, or of the      *)
(* key's failure alias.                                                    *)
(***************************************************************************)
EXTENDS Naturals, FiniteSets

CONSTANTS
  Deps,           \* blackboard keys the worker depends on
  ReadyWait,      \* the bootstrap's patience for ShimReady
  ShieldAfter,    \* from when on the gate stamps activity
  FirstResponse,  \* the watchdog's window after ShimReady
  MaxWait,        \* the gate's patience
  Horizon         \* where time ends

ASSUME FirstTurnAssumption ==
  /\ {ReadyWait, ShieldAfter, FirstResponse, MaxWait, Horizon} \subseteq Nat
  /\ ShieldAfter < FirstResponse /\ FirstResponse < MaxWait

VARIABLES
  time,
  dep,      \* latest op of each key: none, stale (before the spawn), fresh, error, deleted
  shim,     \* the worker's process
  boot,     \* the bootstrap task: where it is, since when, polled at this time, how long it waited
  turn,     \* what the worker does with its prompt
  life,     \* signs of life in the tables: activity, a message
  turnLatch,    \* agents.last_error_kind, or none
  watch,    \* the first-response watchdog: off, over, or when it is due
  tailer,   \* the transcript tailer
  lines     \* the transcript has lines the tailer has not read

turnVars == <<time, dep, shim, boot, turn, life, turnLatch, watch, tailer, lines>>

Never == Horizon + FirstResponse + 1
Off == Never + 1

TurnInit ==
  /\ time = 0 /\ dep \in [Deps -> {"none", "stale"}] /\ shim = "booting"
  /\ boot = [pc |-> "ready", since |-> 0, polled |-> FALSE, waited |-> 0]
  /\ turn = "none" /\ life = {} /\ turnLatch = "none"
  /\ watch = Off /\ tailer = "locating" /\ lines = FALSE

Elapsed == time - boot.since
ReadyOverdue == boot.pc = "ready" /\ Elapsed >= ReadyWait

Tick ==
  /\ time < Horizon /\ ~ReadyOverdue /\ watch > time
  /\ boot.pc = "ready" => shim = "booting"
  /\ boot.pc # "mcp" /\ (boot.pc = "gate" => boot.polled)
  /\ time' = time + 1 /\ boot' = [boot EXCEPT !.polled = FALSE]
  /\ UNCHANGED <<dep, shim, turn, life, turnLatch, watch, tailer, lines>>

-----------------------------------------------------------------------------
(* The others.                                                              *)

\* A producer writes the key, or dies and gets its failure alias written.
Produce(d) ==
  /\ \E op \in {"fresh", "error"} : dep[d] # op /\ dep' = [dep EXCEPT ![d] = op]
  /\ UNCHANGED <<time, shim, boot, turn, life, turnLatch, watch, tailer, lines>>

\* Somebody deletes the key through the API: that is an op too.
DeleteKey(d) ==
  /\ dep[d] \in {"stale", "fresh"} /\ dep' = [dep EXCEPT ![d] = "deleted"]
  /\ UNCHANGED <<time, shim, boot, turn, life, turnLatch, watch, tailer, lines>>

\* ShimReady: the lifecycle task records it and starts the watchdog.
TurnShimReady ==
  /\ shim = "booting" /\ shim' = "ready"
  /\ watch' = time + FirstResponse
  /\ UNCHANGED <<time, dep, boot, turn, life, turnLatch, tailer, lines>>

Die ==
  /\ shim # "dead" /\ shim' = "dead" /\ turn' = "none"
  /\ UNCHANGED <<time, dep, boot, life, turnLatch, watch, tailer, lines>>

-----------------------------------------------------------------------------
(* The bootstrap task: spawn_bootstrap_inject.                              *)

ReadySeen ==
  /\ boot.pc = "ready" /\ shim = "ready" /\ boot' = [boot EXCEPT !.pc = "mcp"]
  /\ UNCHANGED <<time, dep, shim, turn, life, turnLatch, watch, tailer, lines>>

\* No ShimReady in time, or the process is gone: no first turn.
BootAborts ==
  /\ \/ ReadyOverdue /\ shim = "booting"
     \/ shim = "dead" /\ boot.pc \in {"ready", "mcp"}
     \/ shim = "dead" /\ boot.pc = "gate" /\ ~boot.polled
  /\ boot' = [boot EXCEPT !.pc = "aborted"]
  /\ UNCHANGED <<time, dep, shim, turn, life, turnLatch, watch, tailer, lines>>

\* The tools are visible or a few seconds are over: the gate's clock starts.
McpSettles ==
  /\ boot.pc = "mcp" /\ shim = "ready"
  /\ boot' = [boot EXCEPT !.pc = "gate", !.since = time, !.polled = FALSE]
  /\ UNCHANGED <<time, dep, shim, turn, life, turnLatch, watch, tailer, lines>>

\* The latest op of the key or of its alias is newer than the spawn.
Fresh(d) == dep[d] \in {"fresh", "error", "deleted"}
Satisfied == \A d \in Deps : Fresh(d)

\* GateOpens without a bound on the wait.
GateOpensOnDeps ==
  /\ boot.pc = "gate" /\ shim = "ready" /\ ~boot.polled /\ Satisfied
  /\ boot' = [boot EXCEPT !.pc = "injected", !.waited = Elapsed]
  /\ \E t \in {"working", "wedged"} : turn' = t
  /\ UNCHANGED <<time, dep, shim, life, turnLatch, watch, tailer, lines>>

\* The prompt is pasted or handed to the engine: a turn starts, or it is
\* swallowed, or the engine's delivery fails.
GateOpens ==
  /\ boot.pc = "gate" /\ shim = "ready" /\ ~boot.polled
  /\ Satisfied \/ Elapsed >= MaxWait
  /\ boot' = [boot EXCEPT !.pc = "injected", !.waited = Elapsed]
  /\ \E t \in {"working", "wedged"} : turn' = t
  /\ UNCHANGED <<time, dep, shim, life, turnLatch, watch, tailer, lines>>

\* gate_should_shield_watchdog.
Shield(elapsed) == elapsed >= ShieldAfter

GateHolds ==
  /\ boot.pc = "gate" /\ shim = "ready" /\ ~boot.polled
  /\ ~Satisfied /\ Elapsed < MaxWait
  /\ boot' = [boot EXCEPT !.polled = TRUE]
  /\ IF Shield(Elapsed)
     THEN life' = life \cup {"activity"} ELSE UNCHANGED life
  /\ UNCHANGED <<time, dep, shim, turn, turnLatch, watch, tailer, lines>>

-----------------------------------------------------------------------------
(* The worker's turn and its signs of life.                                 *)

\* A tool call or some tokens: a line in the transcript.
Works ==
  /\ turn = "working" /\ shim = "ready" /\ ~lines /\ lines' = TRUE
  /\ UNCHANGED <<time, dep, shim, boot, turn, life, turnLatch, watch, tailer>>

\* swarm_send_message also clears the error latch of its sender.
Speaks ==
  /\ turn = "working" /\ shim = "ready"
  /\ life' = life \cup {"message"} /\ turnLatch' = "none"
  /\ <<life, turnLatch>> # <<life', turnLatch'>>
  /\ UNCHANGED <<time, dep, shim, boot, turn, watch, tailer, lines>>

\* The user logs in at the worker's own terminal.
UserUnblocks ==
  /\ turn = "wedged" /\ shim = "ready" /\ turnLatch # "none" /\ turn' = "working"
  /\ UNCHANGED <<time, dep, shim, boot, life, turnLatch, watch, tailer, lines>>

TailerLocates ==
  /\ tailer = "locating" /\ tailer' = "tailing"
  /\ UNCHANGED <<time, dep, shim, boot, turn, life, turnLatch, watch, lines>>

\* The tailer's poll: activity is persisted, and after a soft error it saw it
\* clears the latch.
Tails ==
  /\ tailer \in {"tailing", "soft"} /\ lines /\ lines' = FALSE
  /\ life' = life \cup {"activity"}
  /\ tailer' = "tailing"
  /\ turnLatch' = IF tailer = "soft" THEN "none" ELSE turnLatch
  /\ UNCHANGED <<time, dep, shim, boot, turn, watch>>

-----------------------------------------------------------------------------
(* Soft errors.                                                             *)

\* Error is published: a tailer that subscribed and finds the process alive
\* keeps it in mind.
PublishError == tailer' = IF tailer = "tailing" THEN "soft" ELSE tailer

\* The HealthScanner matches a banner, once.
HealthFail ==
  /\ shim = "ready" /\ turnLatch = "none" /\ turn = "wedged"
  /\ turnLatch' = "auth" /\ PublishError
  /\ UNCHANGED <<time, dep, shim, boot, turn, life, watch, lines>>

\* agent_silent_since_ready.
Silent == shim # "dead" /\ turnLatch = "none" /\ life = {}

WatchdogFires ==
  /\ watch <= time /\ watch' = Never
  /\ IF Silent THEN turnLatch' = "watchdog" /\ PublishError ELSE UNCHANGED <<turnLatch, tailer>>
  /\ UNCHANGED <<time, dep, shim, boot, turn, life, lines>>

-----------------------------------------------------------------------------
BootSteps == ReadySeen \/ BootAborts \/ McpSettles \/ GateOpens \/ GateHolds

TurnNext ==
  \/ Tick \/ TurnShimReady \/ Die \/ BootSteps
  \/ Works \/ Speaks \/ UserUnblocks \/ TailerLocates \/ Tails \/ HealthFail \/ WatchdogFires
  \/ \E d \in Deps : Produce(d) \/ DeleteKey(d)

TurnSpec == TurnInit /\ [][TurnNext]_turnVars

\* Timers and tasks go on and time passes; nobody owes a key, a ready marker
\* or a login.  A worker that works leaves lines.
TurnFairness ==
  /\ WF_turnVars(Tick) /\ WF_turnVars(BootSteps) /\ WF_turnVars(WatchdogFires)
  /\ WF_turnVars(Tails) /\ WF_turnVars(Works)

TurnLiveSpec == TurnSpec /\ TurnFairness

-----------------------------------------------------------------------------
(* Properties.                                                              *)

TurnTypeOK ==
  /\ time \in 0 .. Horizon /\ dep \in [Deps -> {"none", "stale", "fresh", "error", "deleted"}]
  /\ shim \in {"booting", "ready", "dead"}
  /\ boot \in [pc : {"ready", "mcp", "gate", "injected", "aborted"}, since : 0 .. Horizon,
              polled : BOOLEAN, waited : 0 .. Horizon]
  /\ turn \in {"none", "working", "wedged"} /\ life \subseteq {"activity", "message"}
  /\ turnLatch \in {"none", "auth", "watchdog"}
  /\ watch \in 0 .. Off /\ tailer \in {"locating", "tailing", "soft"} /\ lines \in BOOLEAN

\* A worker that waits for its inputs is silent by design: the watchdog, whose
\* window is shorter than the gate's patience, never flags it.
WaiterIsNotFlagged == turnLatch = "watchdog" => boot.pc \in {"injected", "aborted"}

\* The first turn comes: whatever producers do, a worker that got ready in
\* time is prompted, unless it dies.
FirstTurnComes == (shim = "ready" /\ boot.pc \in {"mcp", "gate"}) ~> (boot.pc = "injected" \/ shim = "dead")

\* A worker that is wedged from its first turn on does not stay behind a green
\* dot, unless it waited so long that the gate vouched for it.
WedgeIsFlagged ==
  (turn = "wedged" /\ boot.waited < ShieldAfter) ~> (turnLatch # "none" \/ shim = "dead")

\* A soft error the tailer saw is taken back once the worker works again: a
\* false alarm never is an unrecoverable fake death.
RecoveryClears == (tailer = "soft" /\ turnLatch # "none" /\ turn = "working") ~> (turnLatch = "none" \/ shim = "dead")

\* What store.rs says of the latch: once an agent recovers in place its
\* last_error is cleared.
EveryRecoveryClears == (turnLatch # "none" /\ turn = "working") ~> (turnLatch = "none" \/ shim = "dead")

\* What agent_lifecycle.rs says of the gate: a worker cannot run its first turn
\* on inputs that do not exist.
NoTurnWithoutInputs ==
  [][boot.pc = "gate" /\ boot'.pc = "injected" /\ Elapsed < MaxWait
       => \A d \in Deps : dep[d] \in {"fresh", "error"}]_turnVars
=============================================================================
