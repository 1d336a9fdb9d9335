--------------------------- MODULE EngineDrivers ---------------------------
(***************************************************************************)
(* Delivery of wakes to an agent whose engine is an HTTP service: zulu,    *)
(* where a driver task runs one turn after another under a `busy` flag and *)
(* drains the mailbox between them, and reasonix, where one long-lived     *)
(* driver follows an event stream and drains the mailbox on turn_done.     *)
(*                                                                         *)
(* Agents share none of this, so there is one agent.  A wake task is taken *)
(* up where WakeDelivery leaves it to deliver_wake_turn: its row is posted *)
(* and it tries the kick lock.  Prompts are the sets of wakes they tell.   *)
(***************************************************************************)
EXTENDS Naturals, FiniteSets

CONSTANTS
    Wakes,      \* wake tasks (= the rows they insert)
    Manual,     \* those that bring a body of their own
    Boot,       \* the driver the bootstrap starts
    Engines,    \* the engines the agent may have been spawned with
    Faults      \* what may fail, see FaultKinds

\* the service hangs or dies; consume_wakes fails; its answer is lost; the
\* event stream breaks
FaultKinds == {"serve", "store", "answer", "stream"}

ASSUME DriverConstants ==
    /\ Manual \subseteq Wakes
    /\ Boot \notin Wakes
    /\ Engines \subseteq {"zulu", "reasonix"}
    /\ Faults \subseteq FaultKinds

Drivers == Wakes \cup {Boot}    \* a zulu kick starts a driver of its own

VARIABLES
    engine,     \* AgentSlot.live_delivery
    slot,       \* BOOLEAN: registered
    serve,      \* BOOLEAN: the service answers
    mail,       \* [Wakes -> {"none", "unread", "read"}]
    by,         \* [Wakes -> SUBSET Drivers]: who claimed the row
    told,       \* [Wakes -> SUBSET Drivers]: prompts that told of the wake
    kick,       \* [Wakes -> KickStages]
    drv,        \* [Drivers -> DriverStages]
    prompt,     \* [Drivers -> SUBSET Wakes]: claimed by it and not submitted yet
    busy,       \* ZuluConv.busy
    turns,      \* reasonix: turns submitted and not ended
    stream,     \* reasonix: /events is connected
    events,     \* reasonix: turn_done events the driver has not read
    seen        \* SUBSET {"failure", "race", "overlap"}: what has happened so far

mailVars  == <<mail, by, told>>
agentVars == <<engine, slot, serve>>
turnVars  == <<turns, stream, events>>
vars      == <<agentVars, mailVars, kick, drv, prompt, busy, turnVars, seen>>

KickStages   == {"idle", "posted", "probe", "claim", "claimed", "left", "ended"}
DriverStages == {"none", "check", "post", "turn", "drain", "drained", "submit", "stream", "done"}

Unread      == {w \in Wakes : mail[w] = "unread"}
HasKickLock(w) == kick[w] \in {"probe", "claim", "claimed", "left"}
Running(d)  == drv[d] \in {"check", "post", "turn", "drain", "drained"}

Init ==
    /\ engine \in Engines
    /\ slot = TRUE
    /\ serve = FALSE
    /\ mail = [w \in Wakes |-> "none"]
    /\ by = [w \in Wakes |-> {}]
    /\ told = [w \in Wakes |-> {}]
    /\ kick = [w \in Wakes |-> "idle"]
    /\ drv = [d \in Drivers |-> "none"]
    /\ prompt = [d \in Drivers |-> {}]
    /\ busy = FALSE
    /\ turns = 0
    /\ stream = FALSE
    /\ events = 0
    /\ seen = {}

-----------------------------------------------------------------------------
(* Building blocks.                                                        *)

KickTo(w, from, to) == kick[w] = from /\ kick' = [kick EXCEPT ![w] = to]
DriverTo(d, from, to) == drv[d] = from /\ drv' = [drv EXCEPT ![d] = to]
Tell(S, d) == told' = [w \in Wakes |-> IF w \in S THEN told[w] \cup {d} ELSE told[w]]

\* Variant: consume_wakes reads the rows and leaves them unread
ConsumePeeks(d) ==
    /\ prompt' = [prompt EXCEPT ![d] = Unread]
    /\ by' = [w \in Wakes |-> IF w \in Unread THEN by[w] \cup {d} ELSE by[w]]
    /\ UNCHANGED <<mail, told, seen>>

\* POST consume_wakes, server side and answer: the whole backlog
Consume(d) ==
    /\ mail' = [w \in Wakes |-> IF w \in Unread THEN "read" ELSE mail[w]]
    /\ by' = [w \in Wakes |-> IF w \in Unread THEN by[w] \cup {d} ELSE by[w]]
    /\ UNCHANGED told
    /\ \/ prompt' = [prompt EXCEPT ![d] = Unread] /\ UNCHANGED seen
       \/ /\ "answer" \in Faults
          /\ prompt' = [prompt EXCEPT ![d] = {}]
          /\ seen' = seen \cup {"failure"}

\* The request fails and claims nothing
ConsumeFails(d) ==
    /\ "store" \in Faults
    /\ prompt' = [prompt EXCEPT ![d] = {}]
    /\ seen' = seen \cup {"failure"}
    /\ UNCHANGED mailVars

-----------------------------------------------------------------------------
(* The kick: deliver_wake_turn under the agent's kick lock.                *)

Post(w) ==
    /\ KickTo(w, "idle", "posted")
    /\ mail' = [mail EXCEPT ![w] = "unread"]
    /\ UNCHANGED <<agentVars, by, told, drv, prompt, busy, turnVars, seen>>

\* Another kick holds the lock; it may have looked at the mailbox already
Coalesce(w) ==
    \E v \in Wakes :
        /\ HasKickLock(v)
        /\ KickTo(w, "posted", "ended")
        /\ seen' = IF kick[v] = "left" \/ (kick[v] = "claimed" /\ prompt[v] = {})
                     THEN seen \cup {"race"} ELSE seen
        /\ UNCHANGED <<agentVars, mailVars, drv, prompt, busy, turnVars>>

\* Variant: busy is set without looking at it
KickZuluBlind(w) ==
    /\ engine = "zulu"
    /\ slot
    /\ ~\E v \in Wakes : HasKickLock(v)
    /\ KickTo(w, "posted", "probe")
    /\ busy' = TRUE
    /\ UNCHANGED <<agentVars, mailVars, drv, prompt, turnVars, seen>>

\* zulu: busy.swap(true); whoever held it is trusted to drain the mailbox, also
\* when it has just found it empty
KickZulu(w) ==
    /\ engine = "zulu"
    /\ slot
    /\ ~\E v \in Wakes : HasKickLock(v)
    /\ KickTo(w, "posted", IF busy THEN "left" ELSE "probe")
    /\ busy' = TRUE
    /\ seen' = IF busy /\ ~\E d \in Drivers : Running(d) /\ ~(drv[d] = "drained" /\ prompt[d] = {})
                 THEN seen \cup {"race"} ELSE seen
    /\ UNCHANGED <<agentVars, mailVars, drv, prompt, turnVars>>

KickReasonix(w) ==
    /\ engine = "reasonix"
    /\ slot
    /\ ~\E v \in Wakes : HasKickLock(v)
    /\ KickTo(w, "posted", "probe")
    /\ UNCHANGED <<agentVars, mailVars, drv, prompt, busy, turnVars, seen>>

KickGone(w) ==
    /\ ~slot
    /\ ~\E v \in Wakes : HasKickLock(v)
    /\ KickTo(w, "posted", "ended")
    /\ UNCHANGED <<agentVars, mailVars, drv, prompt, busy, turnVars, seen>>

\* Variant: the mailbox is claimed whether the service answers or not
ProbeBlind(w) ==
    /\ KickTo(w, "probe", IF turns = 0 THEN "claim" ELSE "left")
    /\ UNCHANGED <<agentVars, mailVars, drv, prompt, busy, turnVars, seen>>

\* serve_reachable / is_running, before anything is claimed
Probe(w) ==
    /\ KickTo(w, "probe", IF serve /\ turns = 0 THEN "claim" ELSE "left")
    /\ busy' = IF engine = "zulu" /\ ~serve THEN FALSE ELSE busy
    /\ UNCHANGED <<agentVars, mailVars, drv, prompt, turnVars, seen>>

KickClaims(w) ==
    /\ KickTo(w, "claim", "claimed")
    /\ Consume(w) \/ ConsumeFails(w)
    /\ UNCHANGED <<agentVars, drv, busy, turnVars>>

\* Nothing claimed: hand busy back
KickFindsNothing(w) ==
    /\ prompt[w] = {}
    /\ KickTo(w, "claimed", "ended")
    /\ busy' = FALSE
    /\ UNCHANGED <<agentVars, mailVars, drv, prompt, turnVars, seen>>

\* zulu: a driver takes over the claimed rows, and busy with them
KickStartsDriver(w) ==
    /\ engine = "zulu"
    /\ prompt[w] # {}
    /\ KickTo(w, "claimed", "ended")
    /\ drv' = [drv EXCEPT ![w] = "check"]
    /\ UNCHANGED <<agentVars, mailVars, prompt, busy, turnVars, seen>>

\* Variant: the submit is repeated for as long as it works
KickResubmits(w) ==
    /\ engine = "reasonix"
    /\ prompt[w] # {}
    /\ serve
    /\ kick[w] = "claimed"
    /\ turns' = turns + 1
    /\ Tell(prompt[w], w)
    /\ UNCHANGED <<agentVars, mail, by, kick, drv, prompt, busy, stream, events, seen>>

\* reasonix: submit the continuation, or the manual wake's own body
KickSubmits(w) ==
    /\ engine = "reasonix"
    /\ prompt[w] # {}
    /\ KickTo(w, "claimed", "ended")
    /\ prompt' = [prompt EXCEPT ![w] = {}]
    /\ IF serve THEN turns' = turns + 1 /\ Tell(IF w \in Manual THEN {w} ELSE prompt[w], w)
                ELSE UNCHANGED <<turns, told>>
    /\ UNCHANGED <<agentVars, mail, by, drv, busy, stream, events, seen>>

\* The kick that left the wake to somebody else returns
KickReturns(w) ==
    /\ KickTo(w, "left", "ended")
    /\ UNCHANGED <<agentVars, mailVars, drv, prompt, busy, turnVars, seen>>

-----------------------------------------------------------------------------
(* The zulu driver: run_driver and drive.                                  *)

\* The bootstrap does not swap, it stores: whoever holds busy is overtaken
BootZulu ==
    /\ engine = "zulu"
    /\ serve
    /\ DriverTo(Boot, "none", "check")
    /\ busy' = TRUE
    /\ seen' = IF busy THEN seen \cup {"overlap"} ELSE seen
    /\ UNCHANGED <<agentVars, mailVars, kick, prompt, turnVars>>

\* wait_serve_ready gives up after 60 s, for both engines
BootGivesUp ==
    /\ ~serve
    /\ DriverTo(Boot, "none", "done")
    /\ seen' = seen \cup {"failure"}
    /\ UNCHANGED <<agentVars, mailVars, kick, prompt, busy, turnVars>>

\* Variant: a driver whose agent is gone keeps busy
CheckSlotKeepsBusy(d) ==
    /\ DriverTo(d, "check", IF slot THEN "post" ELSE "done")
    /\ UNCHANGED <<agentVars, mailVars, kick, prompt, busy, turnVars, seen>>

CheckSlot(d) ==
    /\ DriverTo(d, "check", IF slot THEN "post" ELSE "done")
    /\ busy' = IF slot THEN busy ELSE FALSE
    /\ UNCHANGED <<agentVars, mailVars, kick, prompt, turnVars, seen>>

\* POST /session; an error is logged and the driver goes on to drain
PostSession(d) ==
    /\ DriverTo(d, "post", IF serve THEN "turn" ELSE "drain")
    /\ IF serve THEN Tell(prompt[d], d) ELSE UNCHANGED told
    /\ prompt' = [prompt EXCEPT ![d] = {}]
    /\ UNCHANGED <<agentVars, mail, by, kick, busy, turnVars, seen>>

\* Completed, or the end of the stream
TurnEnds(d) ==
    /\ DriverTo(d, "turn", "drain")
    /\ UNCHANGED <<agentVars, mailVars, kick, prompt, busy, turnVars, seen>>

\* Both drivers: consume_wakes between turns, with busy still held
Drain(d) ==
    /\ DriverTo(d, "drain", "drained")
    /\ Consume(d) \/ ConsumeFails(d)
    /\ UNCHANGED <<agentVars, kick, busy, turnVars>>

NextTurn(d) ==
    /\ engine = "zulu"
    /\ prompt[d] # {}
    /\ DriverTo(d, "drained", "check")
    /\ UNCHANGED <<agentVars, mailVars, kick, prompt, busy, turnVars, seen>>

GoIdle(d) ==
    /\ engine = "zulu"
    /\ prompt[d] = {}
    /\ DriverTo(d, "drained", "done")
    /\ busy' = FALSE
    /\ UNCHANGED <<agentVars, mailVars, kick, prompt, turnVars, seen>>

-----------------------------------------------------------------------------
(* The reasonix driver: run_driver, stream_events, handle_event.           *)

BootReasonix ==
    /\ engine = "reasonix"
    /\ serve
    /\ DriverTo(Boot, "none", "submit")
    /\ UNCHANGED <<agentVars, mailVars, kick, prompt, busy, turnVars, seen>>

\* The bootstrap prompt, or what a turn_done has claimed
Submit ==
    /\ DriverTo(Boot, "submit", "stream")
    /\ prompt' = [prompt EXCEPT ![Boot] = {}]
    /\ IF serve THEN turns' = turns + 1 /\ Tell(prompt[Boot], Boot) ELSE UNCHANGED <<turns, told>>
    /\ UNCHANGED <<agentVars, mail, by, kick, busy, stream, events, seen>>

Connect ==
    /\ drv[Boot] = "stream"
    /\ slot
    /\ serve
    /\ ~stream
    /\ stream' = TRUE
    /\ UNCHANGED <<agentVars, mailVars, kick, drv, prompt, busy, turns, events, seen>>

BreakStream ==
    /\ "stream" \in Faults
    /\ stream
    /\ drv[Boot] = "stream"
    /\ stream' = FALSE
    /\ events' = 0
    /\ seen' = IF events > 0 THEN seen \cup {"failure"} ELSE seen
    /\ UNCHANGED <<agentVars, mailVars, kick, drv, prompt, busy, turns>>

\* The engine ends a turn; nobody hears of it while the stream is down
EngineEndsTurn ==
    /\ turns > 0
    /\ turns' = turns - 1
    /\ events' = IF stream THEN events + 1 ELSE events
    /\ seen' = IF stream THEN seen ELSE seen \cup {"failure"}
    /\ UNCHANGED <<agentVars, mailVars, kick, drv, prompt, busy, stream>>

\* Variant: turn_done is only logged
TurnDoneIgnored ==
    /\ events > 0
    /\ drv[Boot] = "stream"
    /\ events' = events - 1
    /\ UNCHANGED <<agentVars, mailVars, kick, drv, prompt, busy, turns, stream, seen>>

TurnDone ==
    /\ events > 0
    /\ DriverTo(Boot, "stream", "drain")
    /\ events' = events - 1
    /\ UNCHANGED <<agentVars, mailVars, kick, prompt, busy, turns, stream, seen>>

AfterDrain ==
    /\ engine = "reasonix"
    /\ DriverTo(Boot, "drained", IF prompt[Boot] = {} THEN "stream" ELSE "submit")
    /\ UNCHANGED <<agentVars, mailVars, kick, prompt, busy, turnVars, seen>>

DriverExits ==
    /\ ~slot
    /\ DriverTo(Boot, "stream", "done")
    /\ stream' = FALSE
    /\ events' = 0
    /\ UNCHANGED <<agentVars, mailVars, kick, prompt, busy, turns, seen>>

-----------------------------------------------------------------------------
(* The service and the operator.                                           *)

ServeUp ==
    /\ slot
    /\ ~serve
    /\ serve' = TRUE
    /\ UNCHANGED <<engine, slot, mailVars, kick, drv, prompt, busy, turnVars, seen>>

ServeDown ==
    /\ "serve" \in Faults
    /\ serve
    /\ serve' = FALSE
    /\ seen' = seen \cup {"failure"}
    /\ UNCHANGED <<engine, slot, mailVars, kick, drv, prompt, busy, turnVars>>

Teardown ==
    /\ slot
    /\ slot' = FALSE
    /\ serve' = FALSE
    /\ UNCHANGED <<engine, mailVars, kick, drv, prompt, busy, turnVars, seen>>

-----------------------------------------------------------------------------
Kick(w) ==
    \/ Coalesce(w) \/ KickZulu(w) \/ KickReasonix(w) \/ KickGone(w) \/ Probe(w)
    \/ KickClaims(w) \/ KickFindsNothing(w) \/ KickStartsDriver(w) \/ KickSubmits(w)
    \/ KickReturns(w)

Driver(d) ==
    \/ CheckSlot(d) \/ PostSession(d) \/ TurnEnds(d) \/ Drain(d) \/ NextTurn(d) \/ GoIdle(d)

Follower ==
    \/ BootReasonix \/ Submit \/ Connect \/ TurnDone \/ AfterDrain \/ DriverExits

Next ==
    \/ \E w \in Wakes : Post(w) \/ Kick(w)
    \/ \E d \in Drivers : Driver(d)
    \/ BootZulu \/ BootGivesUp
    \/ Follower \/ BreakStream \/ EngineEndsTurn
    \/ ServeUp \/ ServeDown \/ Teardown

(* Tasks are polled while the server runs, a turn ends in finite time, and *)
(* the service either comes up or the driver gives up on it.               *)
Spec ==
    /\ Init
    /\ [][Next]_vars
    /\ \A w \in Wakes : WF_vars(Kick(w))
    /\ \A d \in Drivers : WF_vars(Driver(d))
    /\ WF_vars(BootZulu \/ BootGivesUp)
    /\ WF_vars(Follower)
    /\ WF_vars(EngineEndsTurn)

-----------------------------------------------------------------------------
(* Properties.                                                             *)

\* Every variable has the shape the code gives it.
TypeOK ==
    /\ engine \in Engines
    /\ {slot, serve, busy, stream} \subseteq BOOLEAN
    /\ mail \in [Wakes -> {"none", "unread", "read"}]
    /\ by \in [Wakes -> SUBSET Drivers]
    /\ told \in [Wakes -> SUBSET Drivers]
    /\ kick \in [Wakes -> KickStages]
    /\ drv \in [Drivers -> DriverStages]
    /\ prompt \in [Drivers -> SUBSET Wakes]
    /\ turns \in 0 .. Cardinality(Wakes) + 1
    /\ events \in 0 .. Cardinality(Wakes) + 1
    /\ seen \subseteq {"failure", "race", "overlap"}

\* Kicks and drivers together claim rows as the abstract mailbox allows.
Mailbox == INSTANCE WakeMailbox WITH
    Agents <- {Boot}, Target <- [w \in Wakes |-> Boot], Consumers <- Drivers

ImplementsMailbox == Mailbox!Spec

\* Two prompts never tell of one wake, except that a manual reasonix wake always
\* submits its own body.
ToldOnce ==
    \A w \in Wakes : engine = "zulu" \/ w \notin Manual => Cardinality(told[w]) <= 1

Pending(w) ==
    \E d \in Drivers :
        /\ w \in prompt[d]
        /\ \/ drv[d] \in {"drained", "check", "post", "submit"}
           \/ d \in Wakes /\ kick[d] = "claimed"

\* A claimed row reaches the engine, unless a call has failed, the agent is gone,
\* or a manual reasonix wake claimed the backlog and sent its own body.
ClaimedIsPrompted ==
    \A w \in Wakes : mail[w] = "read" =>
        \/ told[w] # {}
        \/ Pending(w)
        \/ "failure" \in seen
        \/ ~slot
        \/ engine = "reasonix" /\ by[w] \subseteq Manual

\* A zulu conversation has one driver at a time, unless the bootstrap has overtaken
\* a wake.
TurnsAreSerial ==
    engine = "zulu" /\ "overlap" \notin seen =>
        \A c, d \in Drivers : Running(c) /\ Running(d) => c = d

\* No path through kick and driver leaves busy set for good: a leaked flag would
\* leave every later wake to a driver that does not exist.
BusyIsReleased == busy ~> ~busy

\* A row is claimed in the end, unless a call has failed, the agent is gone, or the
\* kick left it to somebody who had just found the mailbox empty.
UnreadIsPickedUp ==
    \A w \in Wakes : mail[w] = "unread" ~>
        mail[w] = "read" \/ ~slot \/ seen \cap {"failure", "race"} # {}

-----------------------------------------------------------------------------
(* What the comments say and the code does not do.                         *)

\* zulu_serve.rs:37 "`busy` serialises turns": no two drivers run turns at once.
BusySerialises ==
    \A c, d \in Drivers : drv[c] = "turn" /\ drv[d] = "turn" => c = d
=============================================================================
