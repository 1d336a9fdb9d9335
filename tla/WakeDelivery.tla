---------------------------- MODULE WakeDelivery ----------------------------
(***************************************************************************)
(* Delivery of wakes to one agent at a time.                               *)
(*                                                                         *)
(* Every wake is a task: it inserts a kind="wake" mailbox row, tries the   *)
(* agent's kick lock, and, if it got the lock, kicks the engine.  Against  *)
(* it run the operator (interrupt, resume, teardown) and the agent's own   *)
(* turn-end hook (wake-check for claude/codex, swarmx-wake.js for          *)
(* opencode), which claims the same rows over HTTP.                        *)
(*                                                                         *)
(* A task and the row it inserts share one identity.  A prompt's text is   *)
(* abstracted to the set of wakes it tells the engine about.               *)
(***************************************************************************)
EXTENDS Naturals, FiniteSets

CONSTANTS
    Agents,             \* live agents
    Wakes,              \* wake tasks (= the rows they insert)
    Manual,             \* those of deliver_wake_with_body; the others are auto
    Target,             \* the agent a wake is for
    Engine,             \* live delivery channel: "keystroke" or "opencode"
    MaxConcurrentKicks, \* permits of delivery_sem
    MaxWakesPerWindow,  \* wake-check's throttle
    Faults,             \* which calls may fail: "store", "send", "hook"
    SlowTurns,          \* a turn outlasts the tail of the kick that started it
    NoTask              \* a kick lock nobody holds

ASSUME WakeConstants ==
    /\ Agents \cap Wakes = {}
    /\ Manual \subseteq Wakes
    /\ Target \in [Wakes -> Agents]
    /\ Engine \in [Agents -> {"keystroke", "opencode"}]
    /\ MaxConcurrentKicks \in Nat \ {0}
    /\ MaxWakesPerWindow \in Nat
    /\ Faults \subseteq {"store", "send", "hook"}
    /\ SlowTurns \in BOOLEAN
    /\ NoTask \notin Wakes

VARIABLES
    \* the mailbox
    mail,       \* [Wakes -> {"none", "unread", "read"}]
    by,         \* [Wakes -> SUBSET (Wakes \cup Agents)]: claimers (a hook is its agent)
    carriers,   \* [Wakes -> SUBSET (Wakes \cup Agents)]: prompts that told of the wake
    \* the wake tasks
    pc,         \* [Wakes -> PCs]
    text,       \* [Wakes -> SUBSET Wakes]: what the kick's prompt tells of
    lock,       \* [Agents -> Wakes \cup {NoTask}]: kick_locks
    \* the server's view of the agents
    slot,       \* [Agents -> BOOLEAN]: registered
    subs,       \* [Agents -> BOOLEAN]: in wake_subs
    paused,     \* [Agents -> BOOLEAN]
    ctrlC,      \* [Agents -> BOOLEAN]: an interrupt has paused, its ^C is not sent yet
    \* the agents' processes
    cli,        \* [Agents -> {"idle", "turn", "hook", "claimed", "dead"}]
    composer,   \* [Agents -> Wakes \cup {NoTask}]: whose text is typed and not submitted
    queued,     \* [Agents -> BOOLEAN]: a prompt submitted during a turn
    continued,  \* [Agents -> BOOLEAN]: stop_hook_active
    window,     \* [Agents -> BOOLEAN]: throttle window open
    count,      \* [Agents -> Nat]: wakes of the window
    hookGot     \* [Agents -> SUBSET Wakes]: rows the hook's request claimed

mailVars == <<mail, by, carriers>>
taskVars == <<pc, text, lock>>
slotVars == <<slot, subs, paused, ctrlC>>
hookVars == <<continued, window, count, hookGot>>
cliVars  == <<cli, composer, queued, hookVars>>
vars     == <<mailVars, taskVars, slotVars, cliVars>>

Kicking == {"locked", "kick", "deliver", "typed", "sent", "claimed"}
Ended   == {"swallowed", "coalesced", "done", "failed"}
PCs     == {"idle", "spawned", "insert", "posted"} \cup Kicking \cup Ended

Unread(a) == {w \in Wakes : Target[w] = a /\ mail[w] = "unread"}

Init ==
    /\ mail = [w \in Wakes |-> "none"]
    /\ by = [w \in Wakes |-> {}]
    /\ carriers = [w \in Wakes |-> {}]
    /\ pc = [w \in Wakes |-> "idle"]
    /\ text = [w \in Wakes |-> {}]
    /\ lock = [a \in Agents |-> NoTask]
    /\ slot = [a \in Agents |-> TRUE]
    /\ subs = [a \in Agents |-> TRUE]
    /\ paused = [a \in Agents |-> FALSE]
    /\ ctrlC = [a \in Agents |-> FALSE]
    /\ cli \in [Agents -> {"idle", "turn"}]
    /\ composer = [a \in Agents |-> NoTask]
    /\ queued = [a \in Agents |-> FALSE]
    /\ continued = [a \in Agents |-> FALSE]
    /\ window = [a \in Agents |-> FALSE]
    /\ count = [a \in Agents |-> 0]
    /\ hookGot = [a \in Agents |-> {}]

-----------------------------------------------------------------------------
(* Building blocks.                                                        *)

Goto(w, from, to) == pc[w] = from /\ pc' = [pc EXCEPT ![w] = to]

\* consume_wakes: one UPDATE ... RETURNING over the agent's unread rows
Consume(a, c) ==
    /\ mail' = [w \in Wakes |-> IF w \in Unread(a) THEN "read" ELSE mail[w]]
    /\ by' = [w \in Wakes |-> IF w \in Unread(a) THEN by[w] \cup {c} ELSE by[w]]

\* A prompt by c reaches the engine and tells it of the wakes in S
Carry(S, c) ==
    carriers' = [w \in Wakes |-> IF w \in S THEN carriers[w] \cup {c} ELSE carriers[w]]

\* A prompt starts a turn, or waits for the end of the current one
StartTurn(a) ==
    /\ cli' = [cli EXCEPT ![a] = IF cli[a] = "idle" THEN "turn" ELSE cli[a]]
    /\ queued' = [queued EXCEPT ![a] = IF cli[a] = "idle" THEN queued[a] ELSE TRUE]

Unlock(w) == lock' = [lock EXCEPT ![Target[w]] = NoTask]

\* Variant: permits of finished kicks are never given back
LeakedPermits == {w \in Wakes \ Manual : pc[w] \in (Kicking \ {"locked"}) \cup {"done", "failed"}}

\* Permits of delivery_sem in use: only the coordinator's tasks take one
Permits == {w \in Wakes \ Manual : pc[w] \in Kicking \ {"locked"}}

-----------------------------------------------------------------------------
(* A wake task, up to the lock.                                            *)

\* The coordinator spawns a delivery task for a subscriber
SpawnDeliverWake(w) ==
    /\ w \notin Manual
    /\ subs[Target[w]]
    /\ Goto(w, "idle", "spawned")
    /\ UNCHANGED <<mailVars, text, lock, slotVars, cliVars>>

\* write_wake_mailbox writes nothing for an agent that is paused now
CheckPaused(w) ==
    /\ Goto(w, "spawned", IF slot[Target[w]] /\ paused[Target[w]] THEN "swallowed" ELSE "insert")
    /\ UNCHANGED <<mailVars, text, lock, slotVars, cliVars>>

\* POST /api/agent/:id/wake, and the other callers of deliver_wake_with_body
WakeAgent(w) ==
    /\ w \in Manual
    /\ slot[Target[w]]
    /\ Goto(w, "idle", "insert")
    /\ UNCHANGED <<mailVars, text, lock, slotVars, cliVars>>

\* POST /api/agent/:id/resume: clear the flag, then one manual wake
Resume(w) ==
    /\ w \in Manual
    /\ slot[Target[w]]
    /\ paused[Target[w]]
    /\ paused' = [paused EXCEPT ![Target[w]] = FALSE]
    /\ Goto(w, "idle", "insert")
    /\ UNCHANGED <<mailVars, text, lock, slot, subs, ctrlC, cliVars>>

InsertRow(w) ==
    /\ Goto(w, "insert", "posted")
    /\ mail' = [mail EXCEPT ![w] = "unread"]
    /\ UNCHANGED <<by, carriers, text, lock, slotVars, cliVars>>

InsertRowFails(w) ==
    /\ "store" \in Faults
    /\ Goto(w, "insert", "swallowed")
    /\ UNCHANGED <<mailVars, text, lock, slotVars, cliVars>>

\* Variant: the kick starts whoever holds the lock
TryLockBlind(w) ==
    /\ Goto(w, "posted", IF w \in Manual THEN "kick" ELSE "locked")
    /\ lock' = [lock EXCEPT ![Target[w]] = w]
    /\ UNCHANGED <<mailVars, text, slotVars, cliVars>>

\* try_lock on the agent's kick lock; a coordinator task then wants a permit
TryLock(w) ==
    /\ lock[Target[w]] = NoTask
    /\ Goto(w, "posted", IF w \in Manual THEN "kick" ELSE "locked")
    /\ lock' = [lock EXCEPT ![Target[w]] = w]
    /\ UNCHANGED <<mailVars, text, slotVars, cliVars>>

Coalesce(w) ==
    /\ lock[Target[w]] # NoTask
    /\ Goto(w, "posted", "coalesced")
    /\ UNCHANGED <<mailVars, text, lock, slotVars, cliVars>>

AcquirePermit(w) ==
    /\ Cardinality(Permits) < MaxConcurrentKicks
    /\ Goto(w, "locked", "kick")
    /\ UNCHANGED <<mailVars, text, lock, slotVars, cliVars>>

-----------------------------------------------------------------------------
(* The kick, under the lock.                                               *)

\* kick_agent finds no slot: drop the stale subscription and give up
KickGone(w) ==
    /\ w \notin Manual
    /\ ~slot[Target[w]]
    /\ Goto(w, "kick", "failed")
    /\ subs' = [subs EXCEPT ![Target[w]] = FALSE]
    /\ Unlock(w)
    /\ UNCHANGED <<mailVars, text, slot, paused, ctrlC, cliVars>>

\* Variant: every kick sends the one-key recipe
OwnKeyText(w, S) == {w}

\* The prompt of w when S is the unread backlog it saw: the continuation over
\* the backlog, or the one-key recipe; a manual wake always sends its own body.
KickText(w, S) == IF w \in Manual \/ S = {} THEN {w} ELSE S

\* Variant: a keystroke kick claims before it delivers
PeekConsumes(w) ==
    /\ Engine[Target[w]] = "keystroke" \/ ~slot[Target[w]]
    /\ slot[Target[w]] \/ w \in Manual
    /\ Goto(w, "kick", "deliver")
    /\ text' = [text EXCEPT ![w] = KickText(w, Unread(Target[w]))]
    /\ Consume(Target[w], w)
    /\ UNCHANGED <<carriers, lock, slotVars, cliVars>>

\* keystroke: peek and leave the rows unread
Peek(w) ==
    /\ Engine[Target[w]] = "keystroke" \/ ~slot[Target[w]]
    /\ slot[Target[w]] \/ w \in Manual
    /\ Goto(w, "kick", "deliver")
    /\ text' = [text EXCEPT ![w] = KickText(w, Unread(Target[w]))]
    /\ UNCHANGED <<mailVars, lock, slotVars, cliVars>>

\* opencode: claim before delivering
PreClaim(w) ==
    /\ Engine[Target[w]] = "opencode"
    /\ slot[Target[w]]
    /\ Goto(w, "kick", "deliver")
    /\ text' = [text EXCEPT ![w] = KickText(w, Unread(Target[w]))]
    /\ Consume(Target[w], w)
    /\ UNCHANGED <<carriers, lock, slotVars, cliVars>>

\* peek or claim failed: the one-key recipe is sent all the same
NoBacklog(w) ==
    /\ "store" \in Faults
    /\ slot[Target[w]]
    /\ Goto(w, "kick", "deliver")
    /\ text' = [text EXCEPT ![w] = {w}]
    /\ UNCHANGED <<mailVars, lock, slotVars, cliVars>>

\* deliver_wake_turn over HTTP: opencode starts a turn with the text
DeliverTurn(w) ==
    LET a == Target[w] IN
    /\ Engine[a] = "opencode"
    /\ slot[a]
    /\ cli[a] # "dead"
    /\ Goto(w, "deliver", "claimed")
    /\ Carry(text[w], w)
    /\ StartTurn(a)
    /\ UNCHANGED <<mail, by, text, lock, slotVars, composer, hookVars>>

\* paste_wake_keystroke, first frame: ^U drops what was typed, then the body
TypeBody(w) ==
    /\ Engine[Target[w]] = "keystroke"
    /\ slot[Target[w]]
    /\ Goto(w, "deliver", "typed")
    /\ composer' = [composer EXCEPT ![Target[w]] = w]
    /\ UNCHANGED <<mailVars, text, lock, slotVars, cli, queued, hookVars>>

\* second frame, 150 ms later: carriage return submits what is typed
Submit(w) ==
    LET a == Target[w] IN
    /\ Goto(w, "typed", "sent")
    /\ cli[a] # "dead"
    /\ composer[a] # NoTask
    /\ Carry(text[composer[a]], composer[a])
    /\ composer' = [composer EXCEPT ![a] = NoTask]
    /\ StartTurn(a)
    /\ UNCHANGED <<mail, by, text, lock, slotVars, hookVars>>

\* the carriage return finds nothing typed, or nobody reads it
SubmitNothing(w) ==
    /\ Goto(w, "typed", "sent")
    /\ cli[Target[w]] = "dead" \/ composer[Target[w]] = NoTask
    /\ UNCHANGED <<mailVars, text, lock, slotVars, cliVars>>

\* The slot is gone, or the send or the HTTP call failed.  Only kick_agent on a
\* keystroke agent also drops the subscription.
DeliverFails(w) ==
    LET a == Target[w] IN
    /\ pc[w] \in {"deliver", "typed"}
    /\ \/ pc[w] = "deliver" /\ ~slot[a]
       \/ "send" \in Faults
       \/ cli[a] = "dead"
    /\ pc' = [pc EXCEPT ![w] = "failed"]
    /\ subs' = IF w \notin Manual /\ Engine[a] = "keystroke"
                 THEN [subs EXCEPT ![a] = FALSE] ELSE subs
    /\ Unlock(w)
    /\ UNCHANGED <<mailVars, text, slot, paused, ctrlC, cliVars>>

\* Variant: the rows of the prompt are marked without looking at them again
MarkTextRead(w) ==
    /\ Goto(w, "sent", "claimed")
    /\ mail' = [r \in Wakes |-> IF r \in text[w] THEN "read" ELSE mail[r]]
    /\ by' = [r \in Wakes |-> IF r \in text[w] THEN by[r] \cup {w} ELSE by[r]]
    /\ UNCHANGED <<carriers, text, lock, slotVars, cliVars>>

\* keystroke: the rows are consumed once the prompt went out
PostClaim(w) ==
    /\ Goto(w, "sent", "claimed")
    /\ Consume(Target[w], w)
    /\ UNCHANGED <<carriers, text, lock, slotVars, cliVars>>

PostClaimFails(w) ==
    /\ "store" \in Faults
    /\ Goto(w, "sent", "claimed")
    /\ UNCHANGED <<mailVars, text, lock, slotVars, cliVars>>

Release(w) ==
    /\ Goto(w, "claimed", "done")
    /\ Unlock(w)
    /\ UNCHANGED <<mailVars, text, slotVars, cliVars>>

-----------------------------------------------------------------------------
(* The agent's process and its turn-end hook.                              *)

\* After the hook: a prompt queued during the turn starts the next one
Rest(a) ==
    /\ cli' = [cli EXCEPT ![a] = IF queued[a] THEN "turn" ELSE "idle"]
    /\ queued' = [queued EXCEPT ![a] = FALSE]
    /\ continued' = [continued EXCEPT ![a] = FALSE]
    /\ hookGot' = [hookGot EXCEPT ![a] = {}]

\* With SlowTurns, not before the kick in flight has claimed and let go: a model
\* call takes seconds, the tail of a kick is one UPDATE.
EndTurn(a) ==
    /\ cli[a] = "turn"
    /\ SlowTurns => \A w \in Wakes : lock[a] = w => pc[w] \notin {"sent", "claimed"}
    /\ cli' = [cli EXCEPT ![a] = "hook"]
    /\ UNCHANGED <<mailVars, taskVars, slotVars, composer, queued, hookVars>>

Throttled(a) ==
    /\ Engine[a] = "keystroke"
    /\ continued[a] \/ (window[a] /\ count[a] >= MaxWakesPerWindow)

\* stop_hook_active, or the window is full: no-op without asking the server
HookSkips(a) ==
    /\ cli[a] = "hook"
    /\ Throttled(a) \/ "hook" \in Faults
    /\ Rest(a)
    /\ UNCHANGED <<mailVars, taskVars, slotVars, composer, window, count>>

\* Variant: the hook asks for an agent it is not
HookAsksForAnother(a) ==
    /\ cli[a] = "hook"
    /\ ~Throttled(a)
    /\ cli' = [cli EXCEPT ![a] = "claimed"]
    /\ UNCHANGED <<mailVars, taskVars, slotVars, composer, queued, hookVars>>

\* The server half of POST consume_wakes
HookClaims(a) ==
    /\ cli[a] = "hook"
    /\ ~Throttled(a)
    /\ cli' = [cli EXCEPT ![a] = "claimed"]
    /\ hookGot' = [hookGot EXCEPT ![a] = Unread(a)]
    /\ Consume(a, a)
    /\ UNCHANGED <<carriers, taskVars, slotVars, composer, queued, continued, window, count>>

\* The response arrives empty: drop the throttle file and let the turn end
HookNoop(a) ==
    /\ cli[a] = "claimed"
    /\ hookGot[a] = {}
    /\ window' = [window EXCEPT ![a] = FALSE]
    /\ count' = [count EXCEPT ![a] = 0]
    /\ Rest(a)
    /\ UNCHANGED <<mailVars, taskVars, slotVars, composer>>

\* swarmx-wake.js: the digest re-prompts the session; there is no throttle
PluginPrompts(a) ==
    /\ Engine[a] = "opencode"
    /\ cli[a] = "claimed"
    /\ hookGot[a] # {}
    /\ Carry(hookGot[a], a)
    /\ cli' = [cli EXCEPT ![a] = "turn"]
    /\ hookGot' = [hookGot EXCEPT ![a] = {}]
    /\ UNCHANGED <<mail, by, taskVars, slotVars, composer, queued, continued, window, count>>

\* The response arrives with wakes: block the stop, the digest is the prompt
HookBlocks(a) ==
    /\ Engine[a] = "keystroke"
    /\ cli[a] = "claimed"
    /\ hookGot[a] # {}
    /\ Carry(hookGot[a], a)
    /\ cli' = [cli EXCEPT ![a] = "turn"]
    /\ continued' = [continued EXCEPT ![a] = TRUE]
    /\ window' = [window EXCEPT ![a] = TRUE]
    /\ count' = [count EXCEPT ![a] = IF window[a] THEN count[a] + 1 ELSE 1]
    /\ hookGot' = [hookGot EXCEPT ![a] = {}]
    /\ UNCHANGED <<mail, by, taskVars, slotVars, composer, queued>>

\* The response is lost (HTTP timeout; the plugin's re-prompt throws)
HookLosesAnswer(a) ==
    /\ "hook" \in Faults
    /\ cli[a] = "claimed"
    /\ Rest(a)
    /\ UNCHANGED <<mailVars, taskVars, slotVars, composer, window, count>>

\* Variant: the window forgets one wake at a time and never closes
WindowDecays(a) ==
    /\ window[a]
    /\ count' = [count EXCEPT ![a] = count[a] - 1]
    /\ UNCHANGED <<mailVars, taskVars, slotVars, cli, composer, queued, continued, window, hookGot>>

WindowExpires(a) ==
    /\ window[a]
    /\ window' = [window EXCEPT ![a] = FALSE]
    /\ UNCHANGED <<mailVars, taskVars, slotVars, cli, composer, queued, continued, count, hookGot>>

-----------------------------------------------------------------------------
(* The operator.                                                           *)

\* interrupt_one_inner: the flag first ...
Pause(a) ==
    /\ slot[a]
    /\ ~paused[a]
    /\ ~ctrlC[a]
    /\ paused' = [paused EXCEPT ![a] = TRUE]
    /\ ctrlC' = [ctrlC EXCEPT ![a] = TRUE]
    /\ UNCHANGED <<mailVars, taskVars, slot, subs, cliVars>>

\* ... then ^C, which cancels the turn and what is typed
SendCtrlC(a) ==
    /\ ctrlC[a]
    /\ cli[a] # "dead"
    /\ ctrlC' = [ctrlC EXCEPT ![a] = FALSE]
    /\ cli' = [cli EXCEPT ![a] = "idle"]
    /\ composer' = [composer EXCEPT ![a] = NoTask]
    /\ queued' = [queued EXCEPT ![a] = FALSE]
    /\ continued' = [continued EXCEPT ![a] = FALSE]
    /\ hookGot' = [hookGot EXCEPT ![a] = {}]
    /\ UNCHANGED <<mailVars, taskVars, slot, subs, paused, window, count>>

SendCtrlCFails(a) ==
    /\ ctrlC[a]
    /\ cli[a] = "dead"
    /\ ctrlC' = [ctrlC EXCEPT ![a] = FALSE]
    /\ UNCHANGED <<mailVars, taskVars, slot, subs, paused, cliVars>>

\* teardown_agent / auto-kill, up to the kill
RemoveSlot(a) ==
    /\ slot[a]
    /\ slot' = [slot EXCEPT ![a] = FALSE]
    /\ UNCHANGED <<mailVars, taskVars, subs, paused, ctrlC, cliVars>>

\* The rest of the teardown: kill the process, drop the subscription
KillAndUnsubscribe(a) ==
    /\ ~slot[a]
    /\ cli[a] # "dead" \/ subs[a]
    /\ cli' = [cli EXCEPT ![a] = "dead"]
    /\ subs' = [subs EXCEPT ![a] = FALSE]
    /\ UNCHANGED <<mailVars, taskVars, slot, paused, ctrlC, composer, queued, hookVars>>

-----------------------------------------------------------------------------
Task(w) ==
    \/ SpawnDeliverWake(w) \/ WakeAgent(w) \/ Resume(w)
    \/ CheckPaused(w) \/ InsertRow(w) \/ InsertRowFails(w)
    \/ TryLock(w) \/ Coalesce(w) \/ AcquirePermit(w)
    \/ KickGone(w) \/ Peek(w) \/ PreClaim(w) \/ NoBacklog(w)
    \/ DeliverTurn(w) \/ TypeBody(w) \/ Submit(w) \/ SubmitNothing(w) \/ DeliverFails(w)
    \/ PostClaim(w) \/ PostClaimFails(w) \/ Release(w)

Cli(a) ==
    \/ EndTurn(a) \/ HookSkips(a) \/ HookClaims(a) \/ HookNoop(a)
    \/ HookBlocks(a) \/ PluginPrompts(a) \/ HookLosesAnswer(a) \/ WindowExpires(a)

Operator(a) ==
    \/ Pause(a) \/ SendCtrlC(a) \/ SendCtrlCFails(a)
    \/ RemoveSlot(a) \/ KillAndUnsubscribe(a)

Next ==
    \/ \E w \in Wakes : Task(w)
    \/ \E a \in Agents : Cli(a) \/ Operator(a)

Spec == Init /\ [][Next]_vars

(* A started task is a tokio task: each of its awaits returns, and the     *)
(* runtime polls it again.  Nothing obliges anybody to start a wake.       *)
Started(w) ==
    \/ CheckPaused(w) \/ InsertRow(w) \/ InsertRowFails(w)
    \/ TryLock(w) \/ Coalesce(w) \/ AcquirePermit(w)
    \/ KickGone(w) \/ Peek(w) \/ PreClaim(w) \/ NoBacklog(w)
    \/ DeliverTurn(w) \/ TypeBody(w) \/ Submit(w) \/ SubmitNothing(w) \/ DeliverFails(w)
    \/ PostClaim(w) \/ PostClaimFails(w) \/ Release(w)

FairSpec == Spec /\ \A w \in Wakes : WF_vars(Started(w))

(* The model ends its turns and runs its hooks in finite time.             *)
CliMoves(a) ==
    \/ EndTurn(a) \/ HookSkips(a) \/ HookClaims(a) \/ HookNoop(a)
    \/ HookBlocks(a) \/ PluginPrompts(a)

CliFairSpec == FairSpec /\ \A a \in Agents : WF_vars(CliMoves(a))

-----------------------------------------------------------------------------
(* Properties.                                                             *)

\* Every variable has the shape the code gives it.
MailTypes ==
    /\ mail \in [Wakes -> {"none", "unread", "read"}]
    /\ by \in [Wakes -> SUBSET (Wakes \cup Agents)]
    /\ carriers \in [Wakes -> SUBSET (Wakes \cup Agents)]

TaskTypes ==
    /\ pc \in [Wakes -> PCs]
    /\ text \in [Wakes -> SUBSET Wakes]
    /\ lock \in [Agents -> Wakes \cup {NoTask}]

SlotTypes ==
    /\ slot \in [Agents -> BOOLEAN]
    /\ subs \in [Agents -> BOOLEAN]
    /\ paused \in [Agents -> BOOLEAN]
    /\ ctrlC \in [Agents -> BOOLEAN]

CliTypes ==
    /\ cli \in [Agents -> {"idle", "turn", "hook", "claimed", "dead"}]
    /\ composer \in [Agents -> Wakes \cup {NoTask}]
    /\ queued \in [Agents -> BOOLEAN]
    /\ continued \in [Agents -> BOOLEAN]
    /\ window \in [Agents -> BOOLEAN]
    /\ count \in [Agents -> Nat]
    /\ hookGot \in [Agents -> SUBSET Wakes]

TypeOK == MailTypes /\ TaskTypes /\ SlotTypes /\ CliTypes

\* Two tasks never kick the same agent at the same time, whichever of the
\* coordinator, the operator, cron and the verify gate started them, and
\* whatever dies under them: the single-flight promise of kick_locks.
SingleFlight ==
    \A v, w \in Wakes :
        Target[v] = Target[w] /\ pc[v] \in Kicking /\ pc[w] \in Kicking => v = w

\* The carriage return of a kick never submits another kick's text: between its
\* two frames nothing but the operator's ^C touches the agent's composer.
ComposerIntact ==
    \A w \in Wakes : pc[w] = "typed" => composer[Target[w]] \in {w, NoTask}

\* A keystroke kick that fails has consumed nothing: whatever it peeked is still
\* there for the Stop hook (wake_claim::peek).
FailedKickKeepsMail ==
    \A w \in Wakes :
        pc[w] = "failed" /\ Engine[Target[w]] = "keystroke" => \A r \in Wakes : w \notin by[r]

\* A coordinator kick of an opencode agent tells the engine of every row it
\* claimed, unless the engine refused the turn: pre-claiming loses nothing else.
PreClaimCarries ==
    \A r \in Wakes, w \in Wakes \ Manual :
        w \in by[r] /\ Engine[Target[w]] = "opencode" =>
            \/ pc[w] = "deliver" /\ r \in text[w]
            \/ w \in carriers[r]
            \/ pc[w] = "failed"

\* The rows and claims of all tasks and hooks together behave as WakeMailbox.
Mailbox == INSTANCE WakeMailbox WITH Consumers <- Wakes \cup Agents

ImplementsMailbox == Mailbox!Spec

\* No two tasks or hooks ever claim the same row.
ClaimedByOne == Mailbox!ClaimedByOne

\* Every started wake ends, although kicks hold a lock while they wait for a
\* permit and permits are held while an engine is waited for.
EveryWakeEnds ==
    \A w \in Wakes : pc[w] = "spawned" \/ pc[w] = "insert" ~> pc[w] \in Ended

\* A row left unread by a coalesced task is claimed in the end, by the kick in
\* flight or by the hook after its turn, unless the agent is paused, throttled
\* or gone.
UnreadIsPickedUp ==
    \A w \in Wakes : mail[w] = "unread" ~>
        \/ mail[w] = "read"
        \/ paused[Target[w]] \/ Throttled(Target[w])
        \/ ~slot[Target[w]] \/ cli[Target[w]] = "dead"

-----------------------------------------------------------------------------
(* What the comments say and the code does not do.                         *)

\* A prompt for row r is still on its way to the engine
InFlight(r) ==
    \/ \E w \in Wakes : pc[w] \in {"deliver", "typed"} /\ r \in text[w]
    \/ pc[r] \in {"posted", "locked", "kick"}
    \/ \E a \in Agents : r \in hookGot[a]

\* wake.rs:1067 "its mailbox row is picked up by the in-flight kick's turn, the
\* engine's post-turn drain, or the next Stop hook": a consumed row of a live
\* agent nobody interrupted has been told to the engine, or is about to be.
ConsumedIsTold ==
    \A r \in Wakes :
        mail[r] = "read" /\ slot[Target[r]] /\ ~paused[Target[r]] => carriers[r] # {} \/ InFlight(r)
=============================================================================
