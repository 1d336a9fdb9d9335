------------------------------ MODULE Messages ------------------------------
(***************************************************************************)
(* POST /api/message and the mailbox an agent reads through MCP.           *)
(*                                                                         *)
(* A send is one message a client means to send once: it posts, waits, and *)
(* posts the same content again when the answer does not come.  The server *)
(* looks the fingerprint up in its dedup window, inserts the row, tells    *)
(* every subscriber, remembers the answer and wakes the recipient; when    *)
(* the connection goes, the runtime drops the handler at the await it is   *)
(* in, and what it has done so far stays.  A reader lists its newest       *)
(* messages and marks read the ones it listed.  Meanwhile a direction that *)
(* is re-rooted hands its unread user messages to a new orchestrator.      *)
(*                                                                         *)
(* Left to other modules: the error latch and the thought trace of a send  *)
(* (Activity) and the wake the auto-wake makes (WakeDelivery).  The   *)
(* in-memory inbox is left out: the server registers a sender whose        *)
(* receiver it drops at once, so nothing is ever delivered through it.     *)
(***************************************************************************)
EXTENDS Naturals, Sequences, FiniteSets

CONSTANTS
  Sends,        \* messages clients mean to send, each with its own content
  Agents,       \* agents, each with a mailbox
  FromUser,     \* the sends of the user or the system: the others are agents'
  To,           \* the recipient of each send
  MaxAttempts,  \* times the client of each send posts its content
  MaxDrops,     \* handlers dropped because a connection broke
  MaxWakeRows,     \* wake rows the coordinator writes
  ListMax       \* rows a listing returns: 20 by default

ASSUME MessagesAssumption ==
  /\ FromUser \subseteq Sends /\ To \in [Sends -> Agents] /\ "wake" \notin Sends
  /\ MaxAttempts \in [Sends -> Nat] /\ {MaxDrops, MaxWakeRows, ListMax} \subseteq Nat

VARIABLES
  messages,   \* the table messages; a row's id is its place; shown: a reader has seen it
  handler,    \* the handler of each attempt of each send
  client,     \* what the client of each send knows
  dedup,      \* the answers remembered inside the window
  broadcast,      \* rows broadcast as SwarmEvent::Message
  woken,      \* rows whose recipient was auto-woken
  braked,     \* the workspace is over its budget
  live,       \* agents in the registry
  listing,    \* what each agent's current swarm_list_messages call fetched
  drops       \* handlers dropped, per send

msgVars == <<messages, handler, client, dedup, broadcast, woken, braked, live, listing, drops>>

Attempts(s) == 1 .. MaxAttempts[s]
Ids == DOMAIN messages
Idle == [pc |-> "idle", id |-> 0]
External(s) == s \in FromUser

MsgInit ==
  /\ messages = <<>> /\ handler = [s \in Sends |-> [a \in Attempts(s) |-> Idle]]
  /\ client = [s \in Sends |-> [state |-> "ready", posted |-> 0]]
  /\ dedup = [s \in {} |-> 0] /\ broadcast = {} /\ woken = {}
  /\ braked = FALSE /\ live = Agents
  /\ listing = [a \in Agents |-> {}]
  /\ drops = [s \in Sends |-> 0]

-----------------------------------------------------------------------------
(* Clients.                                                                 *)

\* The first post, or the retry of one whose answer was lost.
Post(s) ==
  /\ client[s].state \in {"ready", "retry"} /\ client[s].posted < MaxAttempts[s]
  /\ client' = [client EXCEPT ![s] = [state |-> "waiting", posted |-> @.posted + 1]]
  /\ handler' = [handler EXCEPT ![s][client[s].posted + 1].pc = "gate"]
  /\ UNCHANGED <<messages, dedup, broadcast, woken, braked, live, listing, drops>>

Awaited(s, a) == client[s].state = "waiting" /\ client[s].posted = a

\* The answer arrives, or is lost on its way: the client retries.
Answer(s, a) ==
  /\ handler[s][a].pc = "answer" /\ Awaited(s, a)
  /\ handler' = [handler EXCEPT ![s][a].pc = "done"]
  /\ \E st \in {"told", "retry"} : client' = [client EXCEPT ![s].state = st]
  /\ UNCHANGED <<messages, dedup, broadcast, woken, braked, live, listing, drops>>

\* The connection breaks, or the client's timeout closes it, while the handler
\* runs: the handler is dropped; an insert already handed to the blocking pool
\* still happens.
DropConnection(s, a) ==
  /\ Awaited(s, a) /\ handler[s][a].pc \in {"gate", "insert", "tell"}
  /\ \A t \in Sends : drops[t] < MaxDrops
  /\ drops' = [drops EXCEPT ![s] = @ + 1]
  /\ client' = [client EXCEPT ![s].state = "retry"]
  /\ handler' = [handler EXCEPT ![s][a].pc = IF @ = "insert" THEN "orphan" ELSE "dropped"]
  /\ UNCHANGED <<messages, dedup, broadcast, woken, braked, live, listing>>

-----------------------------------------------------------------------------
(* The handler of POST /api/message, from await to await.                   *)

\* The budget brake refuses an external message to a live agent; an identical
\* send inside the window gets the first one's answer.  Nothing is awaited
\* between the two.
Refused(s) == External(s) /\ To[s] \in live /\ braked
AcceptSend(s, a) ==
  /\ handler[s][a].pc = "gate"
  /\ handler' = [handler EXCEPT ![s][a] =
       IF Refused(s) THEN [@ EXCEPT !.pc = "done"]
       ELSE IF s \in DOMAIN dedup THEN [pc |-> "answer", id |-> dedup[s]]
       ELSE [@ EXCEPT !.pc = "insert"]]
  /\ client' = IF Refused(s) THEN [client EXCEPT ![s].state = "refused"] ELSE client
  /\ UNCHANGED <<messages, dedup, broadcast, woken, braked, live, listing, drops>>

MessageRow(s) == [send |-> s, to |-> To[s], kind |-> "note", shown |-> FALSE, read |-> FALSE]

Remember(s, id) == dedup' = [t \in DOMAIN dedup \cup {s} |-> IF t = s THEN id ELSE dedup[t]]
AutoWake(s, id) == woken' = IF External(s) /\ To[s] \in live THEN woken \cup {id} ELSE woken

\* Insert that remembers the row at once, before anybody is told.
InsertAndRemember(s, a) ==
  /\ handler[s][a].pc \in {"insert", "orphan"}
  /\ messages' = Append(messages, MessageRow(s))
  /\ Remember(s, Len(messages) + 1)
  /\ handler' = [handler EXCEPT ![s][a] =
       [pc |-> IF @.pc = "insert" THEN "tell" ELSE "dropped", id |-> Len(messages) + 1]]
  /\ UNCHANGED <<client, broadcast, woken, braked, live, listing, drops>>

Insert(s, a) ==
  /\ handler[s][a].pc \in {"insert", "orphan"}
  /\ messages' = Append(messages, MessageRow(s))
  /\ handler' = [handler EXCEPT ![s][a] =
       [pc |-> IF @.pc = "insert" THEN "tell" ELSE "dropped", id |-> Len(messages) + 1]]
  /\ UNCHANGED <<client, dedup, broadcast, woken, braked, live, listing, drops>>

\* From the broadcast to the answer nothing is awaited: the answer is
\* remembered and the auto-wake spawned in one go.
Tell(s, a) ==
  /\ handler[s][a].pc = "tell"
  /\ broadcast' = broadcast \cup {handler[s][a].id}
  /\ Remember(s, handler[s][a].id)
  /\ AutoWake(s, handler[s][a].id)
  /\ handler' = [handler EXCEPT ![s][a].pc = "answer"]
  /\ UNCHANGED <<messages, client, braked, live, listing, drops>>

\* An answer is 60 seconds old.  The window is longer than the client's
\* timeout, so no client waits for an answer while its entry expires.
Expire(s) ==
  /\ s \in DOMAIN dedup /\ client[s].state \in {"told", "refused"}
  /\ dedup' = [t \in DOMAIN dedup \ {s} |-> dedup[t]]
  /\ UNCHANGED <<messages, handler, client, broadcast, woken, braked, live, listing, drops>>

-----------------------------------------------------------------------------
(* Reading: swarm_list_messages fetches, then marks what it fetched.        *)

NewestUnread(a) == {i \in Ids : messages[i].to = a /\
                Cardinality({j \in Ids : j > i /\ messages[j].to = a}) < ListMax}

ListMessages(a) ==
  /\ a \in live /\ listing[a] = {} /\ NewestUnread(a) # {}
  /\ listing' = [listing EXCEPT ![a] = NewestUnread(a)]
  /\ messages' = [i \in Ids |-> [messages[i] EXCEPT !.shown = @ \/ i \in NewestUnread(a)]]
  /\ UNCHANGED <<handler, client, dedup, broadcast, woken, braked, live, drops>>

\* Only rows still addressed to the reader are marked; wakes are left to the
\* Stop hook.
ToMark(a) == {i \in listing[a] : messages[i].to = a /\ messages[i].kind # "wake"}
MarkRead(a) ==
  /\ listing[a] # {}
  /\ messages' = [i \in Ids |-> [messages[i] EXCEPT !.read = @ \/ i \in ToMark(a)]]
  /\ listing' = [listing EXCEPT ![a] = {}]
  /\ UNCHANGED <<handler, client, dedup, broadcast, woken, braked, live, drops>>

\* The coordinator writes a wake row.
WakeRow(a) ==
  /\ a \in live /\ Cardinality({i \in Ids : messages[i].kind = "wake"}) < MaxWakeRows
  /\ messages' = Append(messages, [send |-> "wake", to |-> a, kind |-> "wake", shown |-> FALSE, read |-> FALSE])
  /\ UNCHANGED <<handler, client, dedup, broadcast, woken, braked, live, listing, drops>>

-----------------------------------------------------------------------------
(* The rest of the server.                                                  *)

\* reroot: the old orchestrator is gone when its unread user messages move.
Reassign(old, new) ==
  /\ old \in live /\ new \in live /\ old # new
  /\ live' = live \ {old}
  /\ messages' = [i \in Ids |-> IF messages[i].to = old /\ messages[i].send \in FromUser /\ ~messages[i].read
                                THEN [messages[i] EXCEPT !.to = new] ELSE messages[i]]
  /\ UNCHANGED <<handler, client, dedup, broadcast, woken, braked, listing, drops>>

Brake ==
  /\ ~braked /\ braked' = TRUE
  /\ UNCHANGED <<messages, handler, client, dedup, broadcast, woken, live, listing, drops>>

Handler(s, a) == AcceptSend(s, a) \/ Insert(s, a) \/ Tell(s, a)

MsgNext ==
  \/ \E s \in Sends : Post(s) \/ Expire(s)
  \/ \E s \in Sends : \E a \in Attempts(s) : Handler(s, a) \/ Answer(s, a) \/ DropConnection(s, a)
  \/ \E a \in Agents : ListMessages(a) \/ MarkRead(a) \/ WakeRow(a)
  \/ Brake
  \/ \E old, new \in Agents : Reassign(old, new)

MsgSpec == MsgInit /\ [][MsgNext]_msgVars

-----------------------------------------------------------------------------
RowsOfSend(s) == {i \in Ids : messages[i].send = s}

\* Every variable has the shape the code gives it.
MsgTypeOK ==
  /\ \A i \in Ids : messages[i] \in [send : Sends \cup {"wake"}, to : Agents, kind : {"note", "wake"}, shown : BOOLEAN, read : BOOLEAN]
  /\ \A s \in Sends : \A a \in Attempts(s) :
       handler[s][a] \in [pc : {"idle", "gate", "insert", "orphan", "tell", "answer", "done", "dropped"},
                          id : Ids \cup {0}]
  /\ client \in [Sends -> [state : {"ready", "waiting", "retry", "told", "refused"}, posted : Nat]]
  /\ DOMAIN dedup \subseteq Sends /\ \A s \in DOMAIN dedup : dedup[s] \in RowsOfSend(s)
  /\ broadcast \subseteq Ids /\ woken \subseteq Ids /\ braked \in BOOLEAN /\ live \subseteq Agents
  /\ \A a \in Agents : listing[a] \subseteq Ids

\* A message is in the table once however often its client has to post it,
\* but for the attempts whose handler was dropped half-way: a retry after a
\* lost answer inserts nothing (msg_dedup).
InsertedOnce == \A s \in Sends : Cardinality(RowsOfSend(s)) <= 1 + drops[s]

\* A client that was told its message is sent was told the truth: a row of it
\* was broadcast and, if it came from outside for an agent that was live, that
\* agent was woken, on whichever attempt (send_message).
ToldIsHeard == \A s \in Sends : \A a \in Attempts(s) :
  handler[s][a].pc \in {"answer", "done"} /\ client[s].state # "refused" =>
    /\ handler[s][a].id \in broadcast
    /\ External(s) /\ To[s] \in live => handler[s][a].id \in woken

\* A row is only ever read by somebody who was shown it, whatever arrives or
\* moves to another agent between listing and marking, and a listing never
\* reads a wake (swarm_list_messages, mark_read).
ReadWasShown == \A i \in Ids : messages[i].read =>
  messages[i].kind # "wake" /\ messages[i].shown

\* What routes/swarm.rs says of msg_dedup: a send whose answer the client missed
\* (timeout, dropped connection) is not inserted again by its retry.
RetryInsertsOnce == \A s \in Sends : Cardinality(RowsOfSend(s)) <= 1
=============================================================================
