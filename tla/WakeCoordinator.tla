-------------------------- MODULE WakeCoordinator --------------------------
(***************************************************************************)
(* The WakeCoordinator: one loop that reads the swarm's broadcast bus and  *)
(* turns blackboard writes into wakes, handoff writes into auto-kills and  *)
(* deaths of producers into <handoff_signal>.error.                        *)
(*                                                                         *)
(* Around it: the spawn path, which registers an agent only after its      *)
(* process runs; the producers, which write, re-write and die; the verify  *)
(* gate; the operator's teardown; the reaper.  The bus drops its oldest    *)
(* event when it is full.  What a wake does next is WakeDelivery's matter. *)
(***************************************************************************)
EXTENDS Naturals, Sequences

CONSTANTS
    Agents,
    Keys,             \* blackboard keys (their .error alias is not a key)
    NoAgent,          \* the writer of an unattributed or "system" write
    NoKey,            \* the handoff_signal of a role that has none
    Signal,           \* handoff_signal of each agent
    Lead,             \* the agent that spawned it as a worker, or NoAgent
    DependsOn,        \* depends_on of a spell agent, {} for a worker
    Gated,            \* agents whose role has done_checks
    Leftover,         \* keys an earlier run left on the blackboard
    BusCap,           \* capacity of the broadcast channel
    MaxWrites,        \* bound: handoff writes of one agent
    MaxDeaths,        \* bound: exit events of one agent besides a teardown's
    Faults            \* what may go wrong, see FaultKinds

\* other traffic on the bus; a death before registration; an Error event of a
\* live agent; a failing op-log insert; a failing .error write; a write request
\* dropped with its client; the user deleting or editing a key
FaultKinds == {"noise", "early", "soft", "oplog", "disk", "cancel", "delete", "edit"}

ASSUME CoordinatorConstants ==
    /\ NoAgent \notin Agents
    /\ NoKey \notin Keys
    /\ Signal \in [Agents -> Keys \cup {NoKey}]
    /\ Lead \in [Agents -> Agents \cup {NoAgent}]
    /\ DependsOn \in [Agents -> SUBSET Keys]
    /\ Gated \subseteq Agents
    /\ Leftover \subseteq Keys
    /\ BusCap \in Nat \ {0}
    /\ MaxWrites \in Nat \ {0}
    /\ MaxDeaths \in Nat \ {0}
    /\ Faults \subseteq FaultKinds

VARIABLES
    \* the agents
    proc,       \* [Agents -> {"none", "alive", "dead"}]
    slot,       \* [Agents -> BOOLEAN]: in the registry
    retire,     \* [Agents -> RetireStages]: progress of a teardown or auto-kill
    deaths,     \* [Agents -> Nat]: exit events published for it
    \* registrations
    joined,     \* [Agents -> BOOLEAN]: the spawn path has registered it
    subs,       \* [Agents -> SUBSET Keys]: wake_subs
    exitKeys,   \* [Agents -> BOOLEAN]: exit_keys
    \* the blackboard
    writes,     \* [Agents -> Nat]: writes of the own handoff_signal
    writing,    \* [Agents -> BOOLEAN]: file written, event not yet published
    present,    \* [Keys -> BOOLEAN]: the key's file exists
    errors,     \* [Keys -> BOOLEAN]: the file of its .error exists
    disk,       \* [Keys -> SUBSET Agents]: agents older than the file's mtime
    oplog,      \* [Keys -> SUBSET Agents]: agents older than the last op row
    failures,   \* [Agents -> Nat]: .error fallbacks written for it
    \* the bus, the loop and its tasks
    bus,        \* events the coordinator has not received
    lagged,     \* the ring has dropped one of them
    fallback,   \* the agent whose .error the loop is about to write
    try,        \* [Agents -> [1 .. MaxWrites -> TryStages]]: auto-kill tasks
    owes        \* [Agents -> SUBSET {"delivery", "death"}]: what it waits to hear

agentVars == <<proc, slot, retire, deaths>>
regVars   == <<joined, subs, exitKeys>>
boardVars == <<writes, writing, present, errors, disk, oplog, failures>>
busVars   == <<bus, lagged>>
loopVars  == <<fallback, try, owes>>
vars      == <<agentVars, regVars, boardVars, busVars, loopVars>>

RetireStages == {"no", "auto", "autoKilled", "operator", "operatorKilled", "done"}
TryStages    == {"none", "grace", "gate", "passed", "killer", "over"}

Init ==
    /\ proc = [a \in Agents |-> "none"]
    /\ slot = [a \in Agents |-> FALSE]
    /\ retire = [a \in Agents |-> "no"]
    /\ deaths = [a \in Agents |-> 0]
    /\ joined = [a \in Agents |-> FALSE]
    /\ subs = [a \in Agents |-> {}]
    /\ exitKeys = [a \in Agents |-> FALSE]
    /\ writes = [a \in Agents |-> 0]
    /\ writing = [a \in Agents |-> FALSE]
    /\ present = [k \in Keys |-> k \in Leftover]
    /\ errors = [k \in Keys |-> FALSE]
    /\ disk = [k \in Keys |-> {}]
    /\ oplog = [k \in Keys |-> {}]
    /\ failures = [a \in Agents |-> 0]
    /\ bus = <<>>
    /\ lagged = FALSE
    /\ fallback = NoAgent
    /\ try = [a \in Agents |-> [n \in 1 .. MaxWrites |-> "none"]]
    /\ owes = [a \in Agents |-> {}]

-----------------------------------------------------------------------------
(* Building blocks.                                                        *)

\* An event: a write of a key, of its .error, an exit, or one of no interest
Event(kind, key, agent, n) == [kind |-> kind, key |-> key, agent |-> agent, n |-> n]

\* Variant: the channel never drops
PublishUnbounded(e) ==
    /\ bus' = Append(bus, e)
    /\ UNCHANGED lagged

\* broadcast::Sender::send: a full ring loses its oldest event
Publish(e) ==
    /\ bus' = Append(IF Len(bus) = BusCap THEN Tail(bus) ELSE bus, e)
    /\ lagged' = (lagged \/ Len(bus) = BusCap)

Subscribers(k, writer) == {b \in Agents \ {writer} : k \in subs[b]}

\* Every agent in S waits to hear of this
Owe(S, what) == owes' = [b \in Agents |-> IF b \in S THEN owes[b] \cup {what} ELSE owes[b]]

\* spawn_deliver_wake for every agent in S: the turn it gets re-reads the board
Wake(S) == owes' = [b \in Agents |-> IF b \in S THEN {} ELSE owes[b]]

\* The process ends; those who wait for a producer that never wrote are to hear
Die(a) ==
    /\ proc[a] = "alive"
    /\ proc' = [proc EXCEPT ![a] = "dead"]
    /\ IF exitKeys[a] /\ writes[a] = 0
         THEN Owe(Subscribers(Signal[a], a), "death") ELSE UNCHANGED owes

-----------------------------------------------------------------------------
(* The agents.                                                             *)

\* spawn_with_bookkeeping: the process runs and has its registry slot
Spawn(a) ==
    /\ proc[a] = "none"
    /\ Lead[a] # NoAgent => proc[Lead[a]] = "alive" /\ joined[Lead[a]]
    /\ proc' = [proc EXCEPT ![a] = "alive"]
    /\ slot' = [slot EXCEPT ![a] = TRUE]
    /\ UNCHANGED <<retire, deaths, regVars, boardVars, busVars, loopVars>>

\* Only then spawn_worker / run_spell register its signal and the subscriptions
Register(a) ==
    /\ proc[a] # "none"
    /\ ~joined[a]
    /\ joined' = [joined EXCEPT ![a] = TRUE]
    /\ exitKeys' = [exitKeys EXCEPT ![a] = Signal[a] # NoKey]
    /\ subs' = [b \in Agents |->
                  IF b = a THEN DependsOn[a]
                  ELSE IF b = Lead[a] /\ Signal[a] # NoKey THEN subs[b] \cup {Signal[a]}
                  ELSE subs[b]]
    /\ UNCHANGED <<agentVars, boardVars, busVars, loopVars>>

\* write_blackboard of the own handoff_signal, up to the rename of the file
WriteSignal(a) ==
    /\ proc[a] = "alive"
    /\ joined[a]
    /\ Signal[a] # NoKey
    /\ writes[a] < MaxWrites
    /\ ~writing[a]
    /\ writes' = [writes EXCEPT ![a] = writes[a] + 1]
    /\ writing' = [writing EXCEPT ![a] = TRUE]
    /\ present' = [present EXCEPT ![Signal[a]] = TRUE]
    /\ disk' = [disk EXCEPT ![Signal[a]] = {b \in Agents : joined[b]}]
    /\ Owe(Subscribers(Signal[a], a), "delivery")
    /\ UNCHANGED <<agentVars, regVars, errors, oplog, failures, busVars, fallback, try>>

\* ... the op-log row, which may fail, and the event, which is sent anyway
Broadcast(a) ==
    /\ writing[a]
    /\ writing' = [writing EXCEPT ![a] = FALSE]
    /\ \/ oplog' = [oplog EXCEPT ![Signal[a]] = {b \in Agents : joined[b]}]
       \/ "oplog" \in Faults /\ UNCHANGED oplog
    /\ Publish(Event("write", Signal[a], a, writes[a]))
    /\ UNCHANGED <<agentVars, regVars, writes, present, errors, disk, failures, loopVars>>

\* The handler is dropped with the connection of its dead client
DropRequest(a) ==
    /\ "cancel" \in Faults
    /\ writing[a]
    /\ proc[a] = "dead"
    /\ writing' = [writing EXCEPT ![a] = FALSE]
    /\ UNCHANGED <<agentVars, regVars, writes, present, errors, disk, oplog, failures,
                   busVars, loopVars>>

\* The worker reports its own failure under <handoff_signal>.error
WriteOwnError(a) ==
    /\ proc[a] = "alive"
    /\ joined[a]
    /\ Signal[a] # NoKey
    /\ ~errors[Signal[a]]
    /\ errors' = [errors EXCEPT ![Signal[a]] = TRUE]
    /\ Publish(Event("error", Signal[a], a, 0))
    /\ UNCHANGED <<agentVars, regVars, writes, writing, present, disk, oplog, failures, loopVars>>

\* An agent ends after its registration, unless the fault is chosen
MayEnd(a) == joined[a] \/ "early" \in Faults

\* DELETE /api/blackboard: the file goes, a tombstone joins the op log
DeleteKey(k) ==
    /\ "delete" \in Faults
    /\ present[k]
    /\ present' = [present EXCEPT ![k] = FALSE]
    /\ disk' = [disk EXCEPT ![k] = {}]
    /\ oplog' = [oplog EXCEPT ![k] = {b \in Agents : joined[b]}]
    /\ Publish(Event("write", k, NoAgent, 0))
    /\ UNCHANGED <<agentVars, regVars, writes, writing, errors, failures, loopVars>>

\* The watcher finds a key edited outside: an unattributed write
EditKey(k) ==
    /\ "edit" \in Faults
    /\ present' = [present EXCEPT ![k] = TRUE]
    /\ disk' = [disk EXCEPT ![k] = {b \in Agents : joined[b]}]
    /\ oplog' = [oplog EXCEPT ![k] = {b \in Agents : joined[b]}]
    /\ Publish(Event("write", k, NoAgent, 0))
    /\ UNCHANGED <<agentVars, regVars, writes, writing, errors, failures, loopVars>>

\* The process exits or crashes
Exit(a) ==
    /\ MayEnd(a)
    /\ Die(a)
    /\ UNCHANGED <<slot, retire, deaths, regVars, boardVars, busVars, fallback, try>>

\* It is dead; or, with "soft", alive and reported as Error all the same: a health
\* banner, the first-response watchdog, a failed bootstrap
SeemsDead(a) == proc[a] = "dead" \/ ("soft" \in Faults /\ proc[a] = "alive")

\* Shim marker, PTY end, reaper sweep or watchdog: Exited or Error goes out,
\* perhaps twice
AnnounceExit(a) ==
    /\ SeemsDead(a)
    /\ deaths[a] < MaxDeaths
    /\ deaths' = [deaths EXCEPT ![a] = deaths[a] + 1]
    /\ Publish(Event("exit", NoKey, a, 0))
    /\ UNCHANGED <<proc, slot, retire, regVars, boardVars, loopVars>>

\* The reaper evicts an exited slot and leaves the registrations
Evict(a) ==
    /\ slot[a]
    /\ proc[a] = "dead"
    /\ deaths[a] > 0
    /\ slot' = [slot EXCEPT ![a] = FALSE]
    /\ UNCHANGED <<proc, retire, deaths, regVars, boardVars, busVars, loopVars>>

\* Messages, activity and stages share the bus
Noise ==
    /\ "noise" \in Faults
    /\ Publish(Event("other", NoKey, NoAgent, 0))
    /\ UNCHANGED <<agentVars, regVars, boardVars, loopVars>>

-----------------------------------------------------------------------------
(* Retiring an agent: teardown_agent, and the tail of an auto-kill.        *)

Teardown(a) ==
    /\ MayEnd(a)
    /\ slot[a]
    /\ slot' = [slot EXCEPT ![a] = FALSE]
    /\ retire' = [retire EXCEPT ![a] = "operator"]
    /\ UNCHANGED <<proc, deaths, regVars, boardVars, busVars, loopVars>>

\* offload_kill
Kill(a) ==
    /\ retire[a] \in {"operator", "auto"}
    /\ retire' = [retire EXCEPT ![a] = IF retire[a] = "auto" THEN "autoKilled" ELSE "operatorKilled"]
    /\ IF proc[a] = "alive" THEN Die(a) ELSE UNCHANGED <<proc, owes>>
    /\ UNCHANGED <<slot, deaths, regVars, boardVars, busVars, fallback, try>>

\* Variant: every retirement clears its registrations
AlwaysTakesKey(a) == TRUE

\* Only an auto-kill unregisters the exit key; a teardown leaves it to HandleExit
TakesExitKey(a) == retire[a] = "autoKilled"

\* Unsubscribe and publish Exited
FinishRetire(a) ==
    /\ retire[a] \in {"operatorKilled", "autoKilled"}
    /\ retire' = [retire EXCEPT ![a] = "done"]
    /\ subs' = [subs EXCEPT ![a] = {}]
    /\ exitKeys' = [exitKeys EXCEPT ![a] = exitKeys[a] /\ ~TakesExitKey(a)]
    /\ Publish(Event("exit", NoKey, a, 0))
    /\ UNCHANGED <<proc, slot, deaths, joined, boardVars, loopVars>>

-----------------------------------------------------------------------------
(* The coordinator's loop.                                                 *)

\* The key itself, and the base key of an .error (base_key_aliases)
FanOut(e) == {e.key}

\* select_autokill_targets
SelectAutoKill(e) == {a \in Agents : exitKeys[a] /\ Signal[a] = e.key /\ e.agent = a}

\* The head of the bus is received
Receive(kinds) ==
    /\ fallback = NoAgent
    /\ ~lagged
    /\ bus # <<>>
    /\ Head(bus).kind \in kinds
    /\ bus' = Tail(bus)
    /\ UNCHANGED lagged

\* BlackboardChanged: wake the subscribers, then reap a worker that delivered
HandleBlackboard ==
    LET e == Head(bus) IN
    /\ Receive({"write", "error"})
    /\ Wake(UNION {Subscribers(k, e.agent) : k \in FanOut(e)})
    /\ try' = [a \in Agents |->
                 IF e.kind = "write" /\ a \in SelectAutoKill(e)
                   THEN [try[a] EXCEPT ![e.n] = "grace"] ELSE try[a]]
    /\ UNCHANGED <<agentVars, regVars, boardVars, fallback>>

\* Variant: without the mtime fallback (F6)
FreshByOplog(a) == a \in oplog[Signal[a]]

\* The signal was written since the agent was registered, says op log or disk
Fresh(a) == a \in oplog[Signal[a]] \cup disk[Signal[a]]

\* Variant: the exit key survives its first exit event
KeepExitKey(a) == UNCHANGED exitKeys

UnregisterExitKey(a) == exitKeys' = [exitKeys EXCEPT ![a] = FALSE]

\* handle_agent_exit, up to the write of the .error
HandleExit ==
    LET a == Head(bus).agent IN
    /\ Receive({"exit"})
    /\ IF exitKeys[a]
         THEN /\ UnregisterExitKey(a)
              /\ fallback' = IF Fresh(a) THEN NoAgent ELSE a
         ELSE UNCHANGED <<exitKeys, fallback>>
    /\ UNCHANGED <<agentVars, joined, subs, boardVars, try, owes>>

WriteFallback ==
    LET k == Signal[fallback] IN
    /\ fallback # NoAgent
    /\ errors' = [errors EXCEPT ![k] = TRUE]
    /\ failures' = [failures EXCEPT ![fallback] = failures[fallback] + 1]
    /\ fallback' = NoAgent
    /\ Publish(Event("error", k, NoAgent, 0))
    /\ UNCHANGED <<agentVars, regVars, writes, writing, present, disk, oplog, try, owes>>

\* The file could not be written: wake the dependents of the signal directly
FallbackFails ==
    /\ "disk" \in Faults
    /\ fallback # NoAgent
    /\ Wake(Subscribers(Signal[fallback], fallback))
    /\ fallback' = NoAgent
    /\ UNCHANGED <<agentVars, regVars, boardVars, busVars, try>>

HandleOther ==
    /\ Receive({"other"})
    /\ UNCHANGED <<agentVars, regVars, boardVars, loopVars>>

\* Variant: nobody is re-woken after a drop
RewakeNobody == {}

\* agents_to_rewake: a key it waits for, or its .error, is on the blackboard
ToRewake == {b \in Agents : \E k \in subs[b] : present[k] \/ errors[k]}

\* RecvError::Lagged
ReconcileAfterLag ==
    /\ fallback = NoAgent
    /\ lagged
    /\ lagged' = FALSE
    /\ Wake(ToRewake)
    /\ UNCHANGED <<agentVars, regVars, boardVars, bus, fallback, try>>

-----------------------------------------------------------------------------
(* An auto-kill task, one per handoff write.                               *)

Stage(a, n, from, to) ==
    /\ try[a][n] = from
    /\ try' = [try EXCEPT ![a][n] = to]

\* The grace is over; a gated worker must still be there to be verified
GraceOver(a, n) ==
    /\ Stage(a, n, "grace",
             IF a \notin Gated THEN "passed" ELSE IF slot[a] THEN "gate" ELSE "over")
    /\ UNCHANGED <<agentVars, regVars, boardVars, busVars, fallback, owes>>

GatePasses(a, n) ==
    /\ Stage(a, n, "gate", "passed")
    /\ UNCHANGED <<agentVars, regVars, boardVars, busVars, fallback, owes>>

\* A check failed: the findings bounce back to the worker as a wake.  The count
\* of bounces only selects the wording.
GateFails(a, n) ==
    /\ Stage(a, n, "gate", "over")
    /\ UNCHANGED <<agentVars, regVars, boardVars, busVars, fallback, owes>>

\* Variant: the slot is not asked for again after the grace
ReapBlind(a, n) ==
    /\ Stage(a, n, "passed", "killer")
    /\ slot' = [slot EXCEPT ![a] = FALSE]
    /\ retire' = [retire EXCEPT ![a] = "auto"]
    /\ UNCHANGED <<proc, deaths, regVars, boardVars, busVars, fallback, owes>>

\* registry.remove decides who retires the worker
Reap(a, n) ==
    /\ slot[a]
    /\ Stage(a, n, "passed", "killer")
    /\ slot' = [slot EXCEPT ![a] = FALSE]
    /\ retire' = [retire EXCEPT ![a] = "auto"]
    /\ UNCHANGED <<proc, deaths, regVars, boardVars, busVars, fallback, owes>>

ReapGone(a, n) ==
    /\ ~slot[a]
    /\ Stage(a, n, "passed", "over")
    /\ UNCHANGED <<agentVars, regVars, boardVars, busVars, fallback, owes>>

-----------------------------------------------------------------------------
Agent(a) ==
    \/ Spawn(a) \/ Register(a) \/ WriteSignal(a) \/ Broadcast(a) \/ DropRequest(a)
    \/ WriteOwnError(a) \/ Exit(a) \/ AnnounceExit(a) \/ Evict(a)

Retirement(a) == Teardown(a) \/ Kill(a) \/ FinishRetire(a)

Loop ==
    \/ HandleBlackboard \/ HandleExit \/ WriteFallback \/ FallbackFails
    \/ HandleOther \/ ReconcileAfterLag

AutoKill(a, n) ==
    \/ GraceOver(a, n) \/ GatePasses(a, n) \/ GateFails(a, n)
    \/ Reap(a, n) \/ ReapGone(a, n)

Next ==
    \/ \E a \in Agents : Agent(a) \/ Retirement(a)
    \/ \E a \in Agents, n \in 1 .. MaxWrites : AutoKill(a, n)
    \/ \E k \in Keys : DeleteKey(k) \/ EditKey(k)
    \/ Loop
    \/ Noise

Spec == Init /\ [][Next]_vars

(* The loop and its tasks are polled for as long as the server runs; a     *)
(* request under way is finished; a death is noticed at the latest by the  *)
(* reaper's next sweep.  No agent is obliged to write or to die.           *)
Answers(a) == Broadcast(a) \/ DropRequest(a)
Notices(a) == proc[a] = "dead" /\ deaths[a] = 0 /\ AnnounceExit(a)
Retires(a) == Kill(a) \/ FinishRetire(a)

FairSpec ==
    /\ Spec
    /\ WF_vars(Loop)
    /\ \A a \in Agents :
          /\ WF_vars(Register(a)) /\ WF_vars(Answers(a))
          /\ WF_vars(Notices(a)) /\ WF_vars(Retires(a))
          /\ \A n \in 1 .. MaxWrites : WF_vars(AutoKill(a, n))

-----------------------------------------------------------------------------
(* Properties.                                                             *)

\* What travels on the bus
Events == [kind : {"write", "error", "exit", "other"}, key : Keys \cup {NoKey},
           agent : Agents \cup {NoAgent}, n : 0 .. MaxWrites]

AgentTypes ==
    /\ proc \in [Agents -> {"none", "alive", "dead"}]
    /\ slot \in [Agents -> BOOLEAN]
    /\ retire \in [Agents -> RetireStages]
    /\ deaths \in [Agents -> Nat]

RegTypes ==
    /\ joined \in [Agents -> BOOLEAN]
    /\ subs \in [Agents -> SUBSET Keys]
    /\ exitKeys \in [Agents -> BOOLEAN]

BoardTypes ==
    /\ writes \in [Agents -> 0 .. MaxWrites]
    /\ writing \in [Agents -> BOOLEAN]
    /\ present \in [Keys -> BOOLEAN]
    /\ errors \in [Keys -> BOOLEAN]
    /\ disk \in [Keys -> SUBSET Agents]
    /\ oplog \in [Keys -> SUBSET Agents]
    /\ failures \in [Agents -> Nat]

BusTypes == bus \in Seq(Events) /\ Len(bus) <= BusCap /\ lagged \in BOOLEAN

LoopTypes ==
    /\ fallback \in Agents \cup {NoAgent}
    /\ try \in [Agents -> [1 .. MaxWrites -> TryStages]]
    /\ owes \in [Agents -> SUBSET {"delivery", "death"}]

\* Every variable has the shape the code gives it, and the ring its capacity.
TypeOK == AgentTypes /\ RegTypes /\ BoardTypes /\ BusTypes /\ LoopTypes

\* A worker is auto-killed once, for a handoff it wrote itself and not for that of
\* a sibling with the same signal (F13), and is never reported failed for it.
AutoKillIsEarned ==
    \A a \in Agents, n \in 1 .. MaxWrites :
        try[a][n] = "killer" =>
            /\ n <= writes[a]
            /\ failures[a] = 0
            /\ \A m \in 1 .. MaxWrites : try[a][m] = "killer" => m = n

\* A producer's death is reported at most once, however many of pump, reaper and
\* teardown announce it, and never that of one whose handoff reached the disk,
\* even when the op-log row of it was lost (F6).
DeliveredNotFailed ==
    \A a \in Agents : failures[a] <= 1 /\ (writes[a] > 0 => failures[a] = 0)

\* An exit key leaves the table only for a producer that delivered, whose failure
\* was reported, or whose report is the loop's next step: no path through gate,
\* auto-kill, teardown and exit handling forgets one.
NoSilentDeath ==
    \A a \in Agents :
        joined[a] /\ Signal[a] # NoKey /\ ~exitKeys[a] =>
            writes[a] > 0 \/ failures[a] > 0 \/ fallback = a

\* What dependents see of a producer is the Handoff contract.
Outcome ==
    [a \in Agents |-> IF failures[a] > 0 THEN "failed"
                      ELSE IF writes[a] > 0 THEN "delivered" ELSE "pending"]

Contract == INSTANCE Handoff WITH outcome <- Outcome

ImplementsHandoff == Contract!Spec

Listening(b) == proc[b] = "alive" /\ subs[b] # {}

\* Whoever waits for a key is woken after it is written, also when the bus has
\* dropped the event.
DeliveryIsHeard ==
    \A b \in Agents : "delivery" \in owes[b] ~> "delivery" \notin owes[b] \/ ~Listening(b)

\* Whoever waits for a key is woken after its producer died without writing it.
DeathIsHeard ==
    \A b \in Agents : "death" \in owes[b] ~> "death" \notin owes[b] \/ ~Listening(b)

\* A registered producer that dies has its exit handled: no dependent of a dead
\* producer is left without either the key or its .error.
DeadIsAccounted ==
    \A a \in Agents : proc[a] = "dead" /\ exitKeys[a] ~> ~exitKeys[a]

\* An ungated worker that delivered is retired.
DeliveredIsReaped ==
    \A a \in Agents \ Gated : writes[a] > 0 ~> proc[a] = "dead"

-----------------------------------------------------------------------------
(* What the comments say and the code does not do.                         *)

\* wake.rs:963 "agent exited without writing its handoff signal": a producer
\* reported failed is dead.
FailedIsDead == \A a \in Agents : failures[a] > 0 => proc[a] = "dead"
=============================================================================
