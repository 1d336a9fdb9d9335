------------------------- MODULE MessageFusionProofs ------------------------
(***************************************************************************)
(* Proofs about messages and about fusion batches: how often a send is in  *)
(* the table, what a client may believe, what a listing may mark; one     *)
(* judge, one verdict, one merge of a batch.                               *)
(***************************************************************************)
EXTENDS Messages, Fusion, FiniteSetTheorems, TLAPS

HandlerStages == {"idle", "gate", "insert", "orphan", "tell", "answer", "done", "dropped"}
HandlerStates == [pc : HandlerStages, id : Nat]
ClientStates == [state : {"ready", "waiting", "retry", "told", "refused"}, posted : Nat]
MessageRows == [send : Sends \cup {"wake"}, to : Agents, kind : {"note", "wake"},
                shown : BOOLEAN, read : BOOLEAN]

\* The table and the listings have their shape.
TableShape == messages \in Seq(MessageRows) /\ listing \in [Agents -> SUBSET Nat]

\* Handlers, clients and what the server remembers have their shape.
SendShapes ==
  /\ DOMAIN handler = Sends /\ \A s \in Sends : handler[s] \in [Attempts(s) -> HandlerStates]
  /\ client \in [Sends -> ClientStates]
  /\ drops \in [Sends -> Nat] /\ DOMAIN dedup \subseteq Sends
  /\ \A s \in DOMAIN dedup : dedup[s] \in Nat

\* A client waits for one handler, its newest; one that inserts is not remembered yet.
OneInFlight ==
  \A s \in Sends : \A a \in Attempts(s) :
    /\ handler[s][a].pc \in {"gate", "insert", "tell", "answer"} =>
         client[s].state = "waiting" /\ client[s].posted = a
    /\ handler[s][a].pc = "insert" => s \notin DOMAIN dedup

\* What was broadcast, and whose recipient was woken if it had to be.
Heard(s, id) == id \in broadcast /\ (External(s) /\ To[s] \in live => id \in woken)

\* Every remembered answer, and every answer given, was heard.
AnswersAreHeard ==
  /\ \A s \in DOMAIN dedup : Heard(s, dedup[s])
  /\ \A s \in Sends : \A a \in Attempts(s) :
       handler[s][a].pc \in {"answer", "done"} /\ client[s].state # "refused" => Heard(s, handler[s][a].id)

\* A send that was told, or is about to be, may have a row no dropped handler left.
Orphans(s) == {a \in Attempts(s) : handler[s][a].pc = "orphan"}
Settled(s) ==
  s \in DOMAIN dedup \/ client[s].state \in {"told", "refused"} \/ \E a \in Attempts(s) : handler[s][a].pc = "tell"

\* The rows of a send, there or on their way.
RowsAreCounted ==
  \A s \in Sends :
    Cardinality(RowsOfSend(s)) + Cardinality(Orphans(s)) <= drops[s] + (IF Settled(s) THEN 1 ELSE 0)

\* What a reader has listed was shown to it, and only what was shown is read.
ListedIsShown ==
  /\ \A a \in Agents : \A i \in listing[a] : i \in Ids /\ messages[i].shown
  /\ ReadWasShown

\* The inductive invariant.
MsgInv == TableShape /\ SendShapes /\ OneInFlight /\ AnswersAreHeard /\ RowsAreCounted /\ ListedIsShown

-----------------------------------------------------------------------------
(* Records, rows and counts.                                                *)

\* What is in a handler and in a client.
LEMMA FieldTypes ==
  /\ \A h \in HandlerStates : h.pc \in HandlerStages /\ h.id \in Nat
  /\ \A c \in ClientStates : /\ c.state \in {"ready", "waiting", "retry", "told", "refused"}
                             /\ c.posted \in Nat
  BY DEF HandlerStates, ClientStates

\* One handler goes to p with row i, the others stay where they are.
HandlerIs(s, a, p, i) ==
  /\ DOMAIN handler' = Sends /\ \A t \in Sends : handler'[t] \in [Attempts(t) -> HandlerStates]
  /\ handler'[s][a].pc = p /\ handler'[s][a].id = i
  /\ \A t \in Sends : \A b \in Attempts(t) : t # s \/ b # a => handler'[t][b] = handler[t][b]

LEMMA HandlerSets ==
  ASSUME SendShapes, NEW s \in Sends, NEW a \in Attempts(s), NEW h \in HandlerStates,
         handler' = [handler EXCEPT ![s][a] = h]
  PROVE  HandlerIs(s, a, h.pc, h.id)
<1>1. handler[s] \in [Attempts(s) -> HandlerStates] /\ DOMAIN handler = Sends
  BY DEF SendShapes
<1>2. handler' = [handler EXCEPT ![s] = [handler[s] EXCEPT ![a] = h]]
  BY <1>1
<1>3. [handler[s] EXCEPT ![a] = h] \in [Attempts(s) -> HandlerStates]
  BY <1>1
<1>4. DOMAIN handler' = Sends /\ \A t \in Sends : handler'[t] \in [Attempts(t) -> HandlerStates]
  BY <1>1, <1>2, <1>3 DEF SendShapes
<1>5. handler'[s][a] = h
  BY <1>1, <1>2
<1>6. ASSUME NEW t \in Sends, NEW b \in Attempts(t), t # s \/ b # a PROVE handler'[t][b] = handler[t][b]
  BY <1>1, <1>2, <1>6
<1>7. QED
  BY <1>4, <1>5, <1>6 DEF HandlerIs

LEMMA HandlerGoes ==
  ASSUME SendShapes, NEW s \in Sends, NEW a \in Attempts(s), NEW p \in HandlerStages,
         handler' = [handler EXCEPT ![s][a].pc = p]
  PROVE  HandlerIs(s, a, p, handler[s][a].id)
<1>1. handler[s][a] \in HandlerStates
  BY DEF SendShapes
<1>2. LET h == [handler[s][a] EXCEPT !.pc = p] IN h \in HandlerStates /\ h.pc = p /\ h.id = handler[s][a].id
  BY <1>1 DEF HandlerStates
<1>3. handler' = [handler EXCEPT ![s][a] = [handler[s][a] EXCEPT !.pc = p]]
  OBVIOUS
<1>4. QED
  BY <1>2, <1>3, HandlerSets

\* One client learns something, the others nothing.
ClientIs(s, st, n) ==
  /\ client' \in [Sends -> ClientStates] /\ client'[s].state = st /\ client'[s].posted = n
  /\ \A t \in Sends : t # s => client'[t] = client[t]

LEMMA ClientGoes ==
  ASSUME SendShapes, NEW s \in Sends, NEW st \in {"ready", "waiting", "retry", "told", "refused"},
         client' = [client EXCEPT ![s].state = st]
  PROVE  ClientIs(s, st, client[s].posted)
<1>1. client[s] \in ClientStates /\ client' = [client EXCEPT ![s] = [client[s] EXCEPT !.state = st]]
  BY DEF SendShapes
<1>2. LET c == [client[s] EXCEPT !.state = st] IN
        c \in ClientStates /\ c.state = st /\ c.posted = client[s].posted
  BY <1>1 DEF ClientStates
<1>3. QED
  BY <1>1, <1>2 DEF SendShapes, ClientIs

\* The places of the rows.
LEMMA PlacesAreNumbers ==
  ASSUME TableShape
  PROVE  Len(messages) \in Nat /\ Ids = 1 .. Len(messages) /\ \A i \in Ids : messages[i] \in MessageRows
  BY DEF TableShape, Ids

\* Rows of a send and orphans of it are finitely many.
LEMMA CountsAreNat ==
  ASSUME TableShape, SendShapes, NEW s \in Sends
  PROVE  /\ IsFiniteSet(RowsOfSend(s)) /\ Cardinality(RowsOfSend(s)) \in Nat
         /\ IsFiniteSet(Orphans(s)) /\ Cardinality(Orphans(s)) \in Nat
         /\ drops[s] \in Nat
<1>1. IsFiniteSet(1 .. Len(messages)) /\ RowsOfSend(s) \subseteq 1 .. Len(messages)
  BY PlacesAreNumbers, FS_Interval DEF RowsOfSend
<1>2. IsFiniteSet(Attempts(s)) /\ Orphans(s) \subseteq Attempts(s)
  BY MessagesAssumption, FS_Interval DEF Attempts, Orphans
<1>3. QED
  BY <1>1, <1>2, FS_Subset, FS_CardinalityType DEF SendShapes

\* The count of a send, and what bounds it.
Counted(s) ==
  Cardinality(RowsOfSend(s)) + Cardinality(Orphans(s)) <= drops[s] + (IF Settled(s) THEN 1 ELSE 0)

\* A step that inserts no row of a send and makes no orphan of it.
LEMMA CountStays ==
  ASSUME TableShape, SendShapes, NEW s \in Sends, Counted(s), UNCHANGED RowsOfSend(s),
         Orphans(s)' \subseteq Orphans(s), drops'[s] \in Nat, drops'[s] >= drops[s],
         Settled(s) => Settled(s)' \/ drops'[s] >= drops[s] + 1
  PROVE  Counted(s)'
<1>1. /\ Cardinality(RowsOfSend(s)) \in Nat /\ drops[s] \in Nat /\ Cardinality(Orphans(s)) \in Nat
      /\ Cardinality(Orphans(s)') \in Nat /\ Cardinality(Orphans(s)') <= Cardinality(Orphans(s))
  BY CountsAreNat, FS_Subset, FS_CardinalityType
<1>2. CASE Settled(s)
  BY <1>1, <1>2 DEF Counted
<1>3. CASE ~Settled(s)
  BY <1>1, <1>3 DEF Counted
<1>4. QED
  BY <1>2, <1>3

\* A step that only moves one handler on, and makes no orphan.
LEMMA OrphansStay ==
  ASSUME SendShapes, NEW s \in Sends, NEW a \in Attempts(s), NEW p, NEW i, HandlerIs(s, a, p, i),
         p # "orphan", NEW t \in Sends
  PROVE  Orphans(t)' \subseteq Orphans(t)
  BY DEF HandlerIs, Orphans

\* An appended row.
LEMMA RowIsAppended ==
  ASSUME TableShape, NEW r \in MessageRows, messages' = Append(messages, r)
  PROVE  /\ messages' \in Seq(MessageRows) /\ Ids' = Ids \cup {Len(messages) + 1}
         /\ Len(messages) + 1 \notin Ids /\ messages'[Len(messages) + 1] = r
         /\ \A i \in Ids : messages'[i] = messages[i]
<1>1. Len(messages) \in Nat /\ Ids = 1 .. Len(messages)
  BY PlacesAreNumbers
<1>2. /\ messages' \in Seq(MessageRows) /\ Len(messages') = Len(messages) + 1
      /\ messages'[Len(messages) + 1] = r /\ \A i \in 1 .. Len(messages) : messages'[i] = messages[i]
  BY DEF TableShape
<1>3. Ids' = 1 .. (Len(messages) + 1)
  BY <1>2 DEF Ids
<1>4. QED
  BY <1>1, <1>2, <1>3

\* Rows that are rewritten in their places.
LEMMA RowsAreRewritten ==
  ASSUME TableShape, DOMAIN messages' = Ids, messages' = [i \in Ids |-> messages'[i]],
         \A i \in Ids : messages'[i] \in MessageRows
  PROVE  messages' \in Seq(MessageRows) /\ Ids' = Ids
  BY PlacesAreNumbers DEF Ids, TableShape

-----------------------------------------------------------------------------
(* Steps that leave the table alone.                                        *)

\* The table's part of the invariant.
LEMMA TableRests ==
  ASSUME MsgInv, UNCHANGED <<messages, listing>>
  PROVE  TableShape' /\ ListedIsShown' /\ \A s \in Sends : UNCHANGED RowsOfSend(s)
  BY DEF MsgInv, TableShape, ListedIsShown, ReadWasShown, RowsOfSend, Ids

\* Any step that keeps the parts.
LEMMA PartsMakeInv ==
  ASSUME TableShape', SendShapes', OneInFlight', AnswersAreHeard', ListedIsShown',
         \A s \in Sends : Counted(s)'
  PROVE  MsgInv'
  BY DEF MsgInv, RowsAreCounted, Counted

\* A client posts.
LEMMA PostStep == ASSUME MsgInv, NEW s \in Sends, Post(s) PROVE MsgInv'
<1>  DEFINE a == client[s].posted + 1
<1>1. /\ TableShape /\ SendShapes /\ OneInFlight /\ \A t \in Sends : Counted(t)
      /\ client[s].state \in {"ready", "retry"} /\ client[s].posted \in Nat
      /\ UNCHANGED <<messages, dedup, broadcast, woken, live, listing, drops>>
  BY FieldTypes DEF Post, MsgInv, SendShapes, RowsAreCounted, Counted
<1>2. a \in Attempts(s)
  BY <1>1, MessagesAssumption DEF Post, Attempts
<1>3. ClientIs(s, "waiting", a)
  <2>1. client' = [client EXCEPT ![s] = [state |-> "waiting", posted |-> a]]
    BY DEF Post
  <2>2. [state |-> "waiting", posted |-> a] \in ClientStates
    BY <1>1 DEF ClientStates
  <2>3. QED
    BY <1>1, <2>1, <2>2 DEF SendShapes, ClientIs
<1>4. HandlerIs(s, a, "gate", handler[s][a].id)
  BY <1>1, <1>2, HandlerGoes DEF Post, HandlerStages
<1>5. \A b \in Attempts(s) : handler[s][b].pc \notin {"gate", "insert", "tell", "answer"}
  BY <1>1 DEF OneInFlight
<1>6. SendShapes'
  BY <1>1, <1>3, <1>4 DEF SendShapes, ClientIs, HandlerIs
<1>7. OneInFlight'
  BY <1>1, <1>2, <1>3, <1>4, <1>5 DEF OneInFlight, ClientIs, HandlerIs
<1>8. AnswersAreHeard'
  BY <1>1, <1>2, <1>3, <1>4, <1>5 DEF MsgInv, AnswersAreHeard, Heard, ClientIs, HandlerIs
<1>9. ASSUME NEW t \in Sends PROVE Counted(t)'
  <2>1. Settled(t) => Settled(t)'
    BY <1>1, <1>2, <1>3, <1>4, <1>5 DEF Settled, ClientIs, HandlerIs
  <2>2. Orphans(t)' \subseteq Orphans(t)
    BY <1>1, <1>2, <1>4, OrphansStay
  <2>3. UNCHANGED RowsOfSend(t) /\ drops'[t] \in Nat /\ drops'[t] >= drops[t]
    BY <1>1, CountsAreNat, TableRests
  <2>4. QED
    BY <1>1, <2>1, <2>2, <2>3, CountStays
<1>10. QED
  BY <1>1, <1>6, <1>7, <1>8, <1>9, TableRests, PartsMakeInv

\* A remembered answer is forgotten: nobody waits for it.
LEMMA ExpireStep == ASSUME MsgInv, NEW s \in Sends, Expire(s) PROVE MsgInv'
<1>1. /\ TableShape /\ SendShapes /\ \A t \in Sends : Counted(t)
      /\ client[s].state \in {"told", "refused"}
      /\ UNCHANGED <<messages, handler, client, broadcast, woken, live, listing, drops>>
      /\ DOMAIN dedup' = DOMAIN dedup \ {s} /\ \A t \in DOMAIN dedup' : dedup'[t] = dedup[t]
  BY DEF Expire, MsgInv, RowsAreCounted, Counted
<1>2. SendShapes'
  BY <1>1 DEF SendShapes
<1>3. OneInFlight' /\ AnswersAreHeard'
  BY <1>1 DEF MsgInv, OneInFlight, AnswersAreHeard, Heard
<1>4. ASSUME NEW t \in Sends PROVE Counted(t)'
  <2>1. Settled(t) => Settled(t)'
    BY <1>1 DEF Settled
  <2>2. Orphans(t)' = Orphans(t)
    BY <1>1 DEF Orphans
  <2>3. UNCHANGED RowsOfSend(t) /\ drops'[t] \in Nat /\ drops'[t] >= drops[t]
    BY <1>1, CountsAreNat, TableRests
  <2>4. QED
    BY <1>1, <2>1, <2>2, <2>3, CountStays
<1>5. QED
  BY <1>1, <1>2, <1>3, <1>4, TableRests, PartsMakeInv

\* A handler passes its gate: refused, answered from memory, or on to the insert.
LEMMA AcceptStep == ASSUME MsgInv, NEW s \in Sends, NEW a \in Attempts(s), AcceptSend(s, a) PROVE MsgInv'
<1>1. /\ TableShape /\ SendShapes /\ OneInFlight /\ \A t \in Sends : Counted(t)
      /\ handler[s][a].pc = "gate" /\ client[s].state = "waiting" /\ client[s].posted = a
      /\ UNCHANGED <<messages, dedup, broadcast, woken, live, listing, drops>>
      /\ handler[s][a] \in HandlerStates
  BY DEF AcceptSend, MsgInv, SendShapes, OneInFlight, RowsAreCounted, Counted
<1>2. CASE Refused(s)
  <2>1. ClientIs(s, "refused", client[s].posted)
    BY <1>1, <1>2, ClientGoes DEF AcceptSend
  <2>2. HandlerIs(s, a, "done", handler[s][a].id)
    <3>1. handler' = [handler EXCEPT ![s][a].pc = "done"]
      BY <1>2 DEF AcceptSend
    <3>2. QED
      BY <1>1, <3>1, HandlerGoes DEF HandlerStages
  <2>3. SendShapes'
    BY <1>1, <2>1, <2>2 DEF SendShapes, ClientIs, HandlerIs
  <2>4. OneInFlight'
    BY <1>1, <2>1, <2>2 DEF OneInFlight, ClientIs, HandlerIs
  <2>5. AnswersAreHeard'
    BY <1>1, <2>1, <2>2 DEF MsgInv, AnswersAreHeard, Heard, ClientIs, HandlerIs
  <2>6. \A t \in Sends : Settled(t) => Settled(t)'
    BY <1>1, <2>1, <2>2 DEF Settled, ClientIs, HandlerIs
  <2>7. \A t \in Sends : Orphans(t)' \subseteq Orphans(t)
    BY <1>1, <2>2, OrphansStay
  <2>8. \A t \in Sends : Counted(t)'
    BY <1>1, <2>6, <2>7, CountStays, CountsAreNat, TableRests
  <2>9. QED
    BY <1>1, <2>3, <2>4, <2>5, <2>8, TableRests, PartsMakeInv
<1>3. CASE ~Refused(s) /\ s \in DOMAIN dedup
  <2>1. client' = client
    BY <1>3 DEF AcceptSend
  <2>2. HandlerIs(s, a, "answer", dedup[s])
    <3>1. handler' = [handler EXCEPT ![s][a] = [pc |-> "answer", id |-> dedup[s]]]
      BY <1>3 DEF AcceptSend
    <3>2. LET h == [pc |-> "answer", id |-> dedup[s]] IN
            h \in HandlerStates /\ h.pc = "answer" /\ h.id = dedup[s]
      BY <1>1, <1>3 DEF SendShapes, HandlerStates, HandlerStages
    <3>3. QED
      BY <1>1, <3>1, <3>2, HandlerSets
  <2>3. SendShapes'
    BY <1>1, <2>1, <2>2 DEF SendShapes, HandlerIs
  <2>4. OneInFlight'
    BY <1>1, <2>1, <2>2 DEF OneInFlight, HandlerIs
  <2>5. AnswersAreHeard'
    BY <1>1, <1>3, <2>1, <2>2 DEF MsgInv, AnswersAreHeard, Heard, HandlerIs
  <2>6. \A t \in Sends : Settled(t) => Settled(t)'
    BY <1>1, <2>1, <2>2 DEF Settled, HandlerIs
  <2>7. \A t \in Sends : Orphans(t)' \subseteq Orphans(t)
    BY <1>1, <2>2, OrphansStay
  <2>8. \A t \in Sends : Counted(t)'
    BY <1>1, <2>6, <2>7, CountStays, CountsAreNat, TableRests
  <2>9. QED
    BY <1>1, <2>3, <2>4, <2>5, <2>8, TableRests, PartsMakeInv
<1>4. CASE ~Refused(s) /\ s \notin DOMAIN dedup
  <2>1. client' = client
    BY <1>4 DEF AcceptSend
  <2>2. HandlerIs(s, a, "insert", handler[s][a].id)
    <3>1. handler' = [handler EXCEPT ![s][a].pc = "insert"]
      BY <1>4 DEF AcceptSend
    <3>2. QED
      BY <1>1, <3>1, HandlerGoes DEF HandlerStages
  <2>3. SendShapes'
    BY <1>1, <2>1, <2>2 DEF SendShapes, HandlerIs
  <2>4. OneInFlight'
    BY <1>1, <1>4, <2>1, <2>2 DEF OneInFlight, HandlerIs
  <2>5. AnswersAreHeard'
    BY <1>1, <2>1, <2>2 DEF MsgInv, AnswersAreHeard, Heard, HandlerIs
  <2>6. \A t \in Sends : Settled(t) => Settled(t)'
    BY <1>1, <2>1, <2>2 DEF Settled, HandlerIs
  <2>7. \A t \in Sends : Orphans(t)' \subseteq Orphans(t)
    BY <1>1, <2>2, OrphansStay
  <2>8. \A t \in Sends : Counted(t)'
    BY <1>1, <2>6, <2>7, CountStays, CountsAreNat, TableRests
  <2>9. QED
    BY <1>1, <2>3, <2>4, <2>5, <2>8, TableRests, PartsMakeInv
<1>5. QED
  BY <1>2, <1>3, <1>4

\* A handler tells everybody, remembers its answer and wakes the recipient.
LEMMA TellStep == ASSUME MsgInv, NEW s \in Sends, NEW a \in Attempts(s), Tell(s, a) PROVE MsgInv'
<1>1. /\ TableShape /\ SendShapes /\ OneInFlight /\ \A t \in Sends : Counted(t)
      /\ handler[s][a].pc = "tell" /\ client[s].state = "waiting" /\ client[s].posted = a
      /\ UNCHANGED <<messages, client, live, listing, drops>>
  BY DEF Tell, MsgInv, OneInFlight, RowsAreCounted, Counted
<1>2. HandlerIs(s, a, "answer", handler[s][a].id)
  BY <1>1, HandlerGoes DEF Tell, HandlerStages
<1>3. /\ DOMAIN dedup' = DOMAIN dedup \cup {s} /\ dedup'[s] = handler[s][a].id
      /\ \A t \in DOMAIN dedup : t # s => dedup'[t] = dedup[t]
  BY DEF Tell, Remember
<1>4. /\ broadcast' = broadcast \cup {handler[s][a].id} /\ woken \subseteq woken'
      /\ External(s) /\ To[s] \in live => handler[s][a].id \in woken'
  BY DEF Tell, AutoWake
<1>5. SendShapes'
  <2>1. handler[s][a].id \in Nat
    BY <1>1, FieldTypes DEF SendShapes
  <2>2. \A t \in DOMAIN dedup' : dedup'[t] \in Nat
    BY <1>1, <1>3, <2>1 DEF SendShapes
  <2>3. QED
    BY <1>1, <1>2, <1>3, <2>2 DEF SendShapes, HandlerIs
<1>6. OneInFlight'
  BY <1>1, <1>2, <1>3 DEF OneInFlight, HandlerIs
<1>7. AnswersAreHeard'
  BY <1>1, <1>2, <1>3, <1>4 DEF MsgInv, AnswersAreHeard, Heard, HandlerIs
<1>8. \A t \in Sends : Settled(t) => Settled(t)'
  BY <1>1, <1>2, <1>3 DEF Settled, HandlerIs
<1>9. \A t \in Sends : Orphans(t)' \subseteq Orphans(t)
  BY <1>1, <1>2, OrphansStay
<1>10. \A t \in Sends : Counted(t)'
  BY <1>1, <1>8, <1>9, CountStays, CountsAreNat, TableRests
<1>11. QED
  BY <1>1, <1>5, <1>6, <1>7, <1>10, TableRests, PartsMakeInv

\* The answer reaches the client, or is lost.
LEMMA AnswerStep == ASSUME MsgInv, NEW s \in Sends, NEW a \in Attempts(s), Answer(s, a) PROVE MsgInv'
<1>1. /\ TableShape /\ SendShapes /\ OneInFlight /\ \A t \in Sends : Counted(t)
      /\ handler[s][a].pc = "answer" /\ client[s].state = "waiting" /\ client[s].posted = a
      /\ UNCHANGED <<messages, dedup, broadcast, woken, live, listing, drops>>
  BY DEF Answer, MsgInv, OneInFlight, RowsAreCounted, Counted
<1>2. HandlerIs(s, a, "done", handler[s][a].id)
  BY <1>1, HandlerGoes DEF Answer, HandlerStages
<1>3. PICK st \in {"told", "retry"} : ClientIs(s, st, client[s].posted)
  BY <1>1, ClientGoes DEF Answer
<1>4. SendShapes'
  BY <1>1, <1>2, <1>3 DEF SendShapes, ClientIs, HandlerIs
<1>5. OneInFlight'
  BY <1>1, <1>2, <1>3 DEF OneInFlight, ClientIs, HandlerIs
<1>6. AnswersAreHeard'
  BY <1>1, <1>2, <1>3 DEF MsgInv, AnswersAreHeard, Heard, ClientIs, HandlerIs
<1>7. \A t \in Sends : Settled(t) => Settled(t)'
  BY <1>1, <1>2, <1>3 DEF Settled, ClientIs, HandlerIs
<1>8. \A t \in Sends : Orphans(t)' \subseteq Orphans(t)
  BY <1>1, <1>2, OrphansStay
<1>9. \A t \in Sends : Counted(t)'
  BY <1>1, <1>7, <1>8, CountStays, CountsAreNat, TableRests
<1>10. QED
  BY <1>1, <1>4, <1>5, <1>6, <1>9, TableRests, PartsMakeInv

\* A handler is dropped: one more drop for the row it may have left or may still leave.
LEMMA DropStep == ASSUME MsgInv, NEW s \in Sends, NEW a \in Attempts(s), DropConnection(s, a) PROVE MsgInv'
<1>1. /\ TableShape /\ SendShapes /\ OneInFlight /\ \A t \in Sends : Counted(t)
      /\ handler[s][a].pc \in {"gate", "insert", "tell"} /\ client[s].state = "waiting"
      /\ client[s].posted = a
      /\ UNCHANGED <<messages, dedup, broadcast, woken, live, listing>>
  BY DEF DropConnection, Awaited, MsgInv, RowsAreCounted, Counted
<1>2. /\ drops' \in [Sends -> Nat] /\ drops'[s] = drops[s] + 1
      /\ \A t \in Sends : t # s => drops'[t] = drops[t]
  BY <1>1 DEF DropConnection, SendShapes
<1>3. ClientIs(s, "retry", client[s].posted)
  BY <1>1, ClientGoes DEF DropConnection
<1>4. PICK p \in {"orphan", "dropped"} :
        /\ handler' = [handler EXCEPT ![s][a].pc = p]
        /\ p = "orphan" => handler[s][a].pc = "insert"
  <2>1. CASE handler[s][a].pc = "insert"
    BY <2>1 DEF DropConnection
  <2>2. CASE handler[s][a].pc # "insert"
    BY <2>2 DEF DropConnection
  <2>3. QED
    BY <2>1, <2>2
<1>5. HandlerIs(s, a, p, handler[s][a].id)
  BY <1>1, <1>4, HandlerGoes DEF HandlerStages
<1>6. SendShapes'
  BY <1>1, <1>2, <1>3, <1>5 DEF SendShapes, ClientIs, HandlerIs
<1>7. OneInFlight'
  BY <1>1, <1>3, <1>5 DEF OneInFlight, ClientIs, HandlerIs
<1>8. AnswersAreHeard'
  BY <1>1, <1>3, <1>5 DEF MsgInv, AnswersAreHeard, Heard, ClientIs, HandlerIs
<1>9. ASSUME NEW t \in Sends, t # s \/ p # "orphan" PROVE Counted(t)'
  <2>1. Settled(t) => Settled(t)' \/ t = s
    BY <1>1, <1>3, <1>5 DEF Settled, ClientIs, HandlerIs
  <2>2. Orphans(t)' \subseteq Orphans(t)
    BY <1>1, <1>5, <1>9 DEF HandlerIs, Orphans
  <2>3. /\ UNCHANGED RowsOfSend(t) /\ drops'[t] \in Nat /\ drops'[t] >= drops[t]
        /\ t = s => drops'[t] >= drops[t] + 1
    BY <1>1, <1>2, CountsAreNat, TableRests
  <2>4. QED
    BY <1>1, <2>1, <2>2, <2>3, CountStays
<1>10. ASSUME p = "orphan" PROVE Counted(s)'
  <2>1. ~Settled(s) /\ ~Settled(s)'
    BY <1>1, <1>3, <1>4, <1>5, <1>10 DEF Settled, ClientIs, HandlerIs, OneInFlight
  <2>2. Orphans(s)' = Orphans(s) \cup {a} /\ a \notin Orphans(s)
    BY <1>1, <1>5, <1>10 DEF Orphans, HandlerIs
  <2>3. /\ IsFiniteSet(Orphans(s)) /\ Cardinality(RowsOfSend(s)) \in Nat /\ drops[s] \in Nat
        /\ Cardinality(Orphans(s)) \in Nat
    BY <1>1, CountsAreNat
  <2>4. Cardinality(Orphans(s)') = Cardinality(Orphans(s)) + 1
    BY <2>2, <2>3, FS_AddElement
  <2>5. UNCHANGED RowsOfSend(s)
    BY <1>1, TableRests
  <2>6. Counted(s)
    BY <1>1
  <2>7. QED
    BY <1>2, <2>1, <2>3, <2>4, <2>5, <2>6 DEF Counted
<1>11. QED
  BY <1>1, <1>6, <1>7, <1>8, <1>9, <1>10, TableRests, PartsMakeInv

-----------------------------------------------------------------------------
(* Steps that write the table.                                              *)

\* A row is inserted, by a handler that lives or by one that was dropped.
LEMMA InsertStep == ASSUME MsgInv, NEW s \in Sends, NEW a \in Attempts(s), Insert(s, a) PROVE MsgInv'
<1>  DEFINE i == Len(messages) + 1
<1>1. /\ TableShape /\ SendShapes /\ OneInFlight /\ \A t \in Sends : Counted(t)
      /\ handler[s][a].pc \in {"insert", "orphan"} /\ Len(messages) \in Nat
      /\ UNCHANGED <<client, dedup, broadcast, woken, live, listing, drops>>
  BY PlacesAreNumbers DEF Insert, MsgInv, RowsAreCounted, Counted
<1>2. MessageRow(s) \in MessageRows /\ MessageRow(s).send = s /\ MessageRow(s).read = FALSE
  BY MessagesAssumption DEF MessageRow, MessageRows
<1>3. /\ messages' \in Seq(MessageRows) /\ Ids' = Ids \cup {i} /\ i \notin Ids
      /\ messages'[i] = MessageRow(s) /\ \A j \in Ids : messages'[j] = messages[j]
  BY <1>1, <1>2, RowIsAppended DEF Insert
<1>4. PICK p \in {"tell", "dropped"} :
        /\ HandlerIs(s, a, p, i)
        /\ p = "tell" <=> handler[s][a].pc = "insert"
  <2>1. ASSUME NEW p \in {"tell", "dropped"}, handler' = [handler EXCEPT ![s][a] = [pc |-> p, id |-> i]]
        PROVE  HandlerIs(s, a, p, i)
    <3>1. LET h == [pc |-> p, id |-> i] IN h \in HandlerStates /\ h.pc = p /\ h.id = i
      BY <1>1 DEF HandlerStates, HandlerStages
    <3>2. QED
      BY <1>1, <2>1, <3>1, HandlerSets
  <2>2. CASE handler[s][a].pc = "insert"
    <3>1. handler' = [handler EXCEPT ![s][a] = [pc |-> "tell", id |-> i]]
      BY <2>2 DEF Insert
    <3>2. QED
      BY <2>1, <2>2, <3>1
  <2>3. CASE handler[s][a].pc = "orphan"
    <3>1. handler' = [handler EXCEPT ![s][a] = [pc |-> "dropped", id |-> i]]
      BY <2>3 DEF Insert
    <3>2. QED
      BY <2>1, <2>3, <3>1
  <2>4. QED
    BY <1>1, <2>2, <2>3
<1>5. TableShape'
  BY <1>1, <1>3 DEF TableShape
<1>6. SendShapes'
  BY <1>1, <1>4 DEF SendShapes, HandlerIs
<1>7. OneInFlight'
  BY <1>1, <1>4 DEF OneInFlight, HandlerIs
<1>8. AnswersAreHeard'
  BY <1>1, <1>4 DEF MsgInv, AnswersAreHeard, Heard, HandlerIs
<1>9. ListedIsShown'
  BY <1>1, <1>2, <1>3 DEF MsgInv, ListedIsShown, ReadWasShown
<1>10. ASSUME NEW t \in Sends, t # s PROVE Counted(t)'
  <2>1. UNCHANGED RowsOfSend(t)
    BY <1>2, <1>3, <1>10 DEF RowsOfSend
  <2>2. Settled(t) => Settled(t)'
    BY <1>1, <1>4, <1>10 DEF Settled, HandlerIs
  <2>3. Orphans(t)' \subseteq Orphans(t)
    BY <1>1, <1>4, OrphansStay
  <2>4. QED
    BY <1>1, <2>1, <2>2, <2>3, CountStays, CountsAreNat
<1>11. Counted(s)'
  <2>1. RowsOfSend(s)' = RowsOfSend(s) \cup {i} /\ i \notin RowsOfSend(s)
    BY <1>2, <1>3 DEF RowsOfSend
  <2>2. /\ IsFiniteSet(RowsOfSend(s)) /\ Cardinality(RowsOfSend(s)) \in Nat
        /\ IsFiniteSet(Orphans(s)) /\ Cardinality(Orphans(s)) \in Nat /\ drops[s] \in Nat
    BY <1>1, CountsAreNat
  <2>3. Cardinality(RowsOfSend(s)') = Cardinality(RowsOfSend(s)) + 1
    BY <2>1, <2>2, FS_AddElement
  <2>4. CASE p = "tell"
    <3>1. ~Settled(s) /\ Settled(s)'
      BY <1>1, <1>4, <2>4 DEF Settled, HandlerIs, OneInFlight
    <3>2. Orphans(s)' = Orphans(s)
      BY <1>1, <1>4, <2>4 DEF Orphans, HandlerIs
    <3>3. QED
      BY <1>1, <2>2, <2>3, <3>1, <3>2 DEF Counted
  <2>5. CASE p = "dropped"
    <3>1. Orphans(s)' = Orphans(s) \ {a} /\ a \in Orphans(s)
      BY <1>1, <1>4, <2>5 DEF Orphans, HandlerIs
    <3>2. Cardinality(Orphans(s)') = Cardinality(Orphans(s)) - 1
      BY <2>2, <3>1, FS_RemoveElement
    <3>3. Settled(s)' <=> Settled(s)
      BY <1>1, <1>4, <2>5 DEF Settled, HandlerIs
    <3>4. CASE Settled(s)
      BY <1>1, <2>2, <2>3, <3>2, <3>3, <3>4 DEF Counted
    <3>5. CASE ~Settled(s)
      BY <1>1, <2>2, <2>3, <3>2, <3>3, <3>5 DEF Counted
    <3>6. QED
      BY <3>4, <3>5
  <2>6. QED
    BY <2>4, <2>5
<1>12. QED
  BY <1>5, <1>6, <1>7, <1>8, <1>9, <1>10, <1>11, PartsMakeInv

\* A step of a reader, of the coordinator or of a re-root: sends stay as they are.
LEMMA SendsRest ==
  ASSUME MsgInv, UNCHANGED <<handler, client, dedup, broadcast, woken, drops>>, live' \subseteq live,
         TableShape', ListedIsShown', \A s \in Sends : UNCHANGED RowsOfSend(s)
  PROVE  MsgInv'
<1>1. TableShape /\ SendShapes /\ \A t \in Sends : Counted(t)
  BY DEF MsgInv, RowsAreCounted, Counted
<1>2. SendShapes' /\ OneInFlight'
  BY DEF MsgInv, SendShapes, OneInFlight
<1>3. AnswersAreHeard'
  BY DEF MsgInv, AnswersAreHeard, Heard
<1>4. ASSUME NEW t \in Sends PROVE Counted(t)'
  <2>1. (Settled(t) <=> Settled(t)') /\ Orphans(t)' = Orphans(t)
    BY DEF Settled, Orphans
  <2>2. QED
    BY <1>1, <2>1, CountStays, CountsAreNat
<1>5. QED
  BY <1>2, <1>3, <1>4, PartsMakeInv

\* A reader lists.
LEMMA ListStep == ASSUME MsgInv, NEW a \in Agents, ListMessages(a) PROVE MsgInv'
<1>1. /\ TableShape /\ listing \in [Agents -> SUBSET Nat] /\ Ids \subseteq Nat
      /\ NewestUnread(a) \subseteq Ids /\ \A i \in Ids : messages[i] \in MessageRows
  BY PlacesAreNumbers DEF MsgInv, TableShape, NewestUnread
<1>2. \A i \in Ids : /\ messages'[i] \in MessageRows /\ messages'[i].send = messages[i].send
                     /\ messages[i].shown => messages'[i].shown
                     /\ i \in NewestUnread(a) => messages'[i].shown
                     /\ messages'[i].read => messages[i].read
                     /\ messages'[i].kind = messages[i].kind
  <2>1. ASSUME NEW i \in Ids
        PROVE  LET q == [messages[i] EXCEPT !.shown = @ \/ i \in NewestUnread(a)] IN
                 /\ q \in MessageRows /\ q.send = messages[i].send
                 /\ messages[i].shown => q.shown
                 /\ i \in NewestUnread(a) => q.shown
                 /\ q.read => messages[i].read
                 /\ q.kind = messages[i].kind
    BY <1>1 DEF MessageRows
  <2>2. QED
    BY <2>1 DEF ListMessages
<1>3. messages' \in Seq(MessageRows) /\ Ids' = Ids
  BY <1>1, <1>2, RowsAreRewritten DEF ListMessages
<1>4. listing' = [listing EXCEPT ![a] = NewestUnread(a)]
  BY DEF ListMessages
<1>5. TableShape'
  BY <1>1, <1>3, <1>4 DEF TableShape
<1>6. ListedIsShown'
  BY <1>1, <1>2, <1>3, <1>4 DEF MsgInv, ListedIsShown, ReadWasShown
<1>7. \A s \in Sends : UNCHANGED RowsOfSend(s)
  BY <1>2, <1>3 DEF RowsOfSend
<1>8. QED
  BY <1>5, <1>6, <1>7, SendsRest DEF ListMessages

\* A reader marks what it listed.
LEMMA MarkStep == ASSUME MsgInv, NEW a \in Agents, MarkRead(a) PROVE MsgInv'
<1>1. /\ TableShape /\ listing \in [Agents -> SUBSET Nat]
      /\ \A i \in Ids : messages[i] \in MessageRows
  BY PlacesAreNumbers DEF MsgInv, TableShape
<1>2. \A i \in Ids : /\ messages'[i] \in MessageRows /\ messages'[i].send = messages[i].send
                     /\ messages[i].shown => messages'[i].shown
                     /\ messages'[i].read => messages[i].read \/ i \in ToMark(a)
                     /\ messages'[i].kind = messages[i].kind
  <2>1. ASSUME NEW i \in Ids
        PROVE  LET q == [messages[i] EXCEPT !.read = @ \/ i \in ToMark(a)] IN
                 /\ q \in MessageRows /\ q.send = messages[i].send
                 /\ messages[i].shown => q.shown
                 /\ q.read => messages[i].read \/ i \in ToMark(a)
                 /\ q.kind = messages[i].kind
    BY <1>1 DEF MessageRows
  <2>2. QED
    BY <2>1 DEF MarkRead
<1>3. messages' \in Seq(MessageRows) /\ Ids' = Ids
  BY <1>1, <1>2, RowsAreRewritten DEF MarkRead
<1>4. listing' = [listing EXCEPT ![a] = {}]
  BY DEF MarkRead
<1>5. TableShape'
  BY <1>1, <1>3, <1>4 DEF TableShape
<1>6. \A i \in ToMark(a) : i \in Ids /\ messages[i].shown /\ messages[i].kind # "wake"
  BY DEF MsgInv, ListedIsShown, ToMark
<1>7. ListedIsShown'
  BY <1>1, <1>2, <1>3, <1>4, <1>6 DEF MsgInv, ListedIsShown, ReadWasShown
<1>8. \A s \in Sends : UNCHANGED RowsOfSend(s)
  BY <1>2, <1>3 DEF RowsOfSend
<1>9. QED
  BY <1>5, <1>7, <1>8, SendsRest DEF MarkRead

\* The coordinator writes a wake.
LEMMA WakeStep == ASSUME MsgInv, NEW a \in Agents, WakeRow(a) PROVE MsgInv'
<1>  DEFINE r == [send |-> "wake", to |-> a, kind |-> "wake", shown |-> FALSE, read |-> FALSE]
<1>1. r \in MessageRows /\ r.send = "wake" /\ r.read = FALSE
  BY DEF MessageRows
<1>2. TableShape
  BY DEF MsgInv
<1>3. messages' = Append(messages, r)
  BY DEF WakeRow
<1>  HIDE DEF r
<1>4. /\ messages' \in Seq(MessageRows) /\ Ids' = Ids \cup {Len(messages) + 1}
      /\ Len(messages) + 1 \notin Ids /\ messages'[Len(messages) + 1] = r
      /\ \A i \in Ids : messages'[i] = messages[i]
  BY <1>1, <1>2, <1>3, RowIsAppended
<1>5. TableShape'
  BY <1>2, <1>4 DEF TableShape, WakeRow
<1>6. ListedIsShown'
  BY <1>1, <1>4 DEF MsgInv, ListedIsShown, ReadWasShown, WakeRow
<1>7. \A s \in Sends : UNCHANGED RowsOfSend(s)
  BY <1>1, <1>4, MessagesAssumption DEF RowsOfSend
<1>8. QED
  BY <1>5, <1>6, <1>7, SendsRest DEF WakeRow

\* A re-root moves unread user messages to the new orchestrator.
LEMMA ReassignStep ==
  ASSUME MsgInv, NEW old \in Agents, NEW new \in Agents, Reassign(old, new)
  PROVE  MsgInv'
<1>1. /\ TableShape /\ \A i \in Ids : messages[i] \in MessageRows
      /\ UNCHANGED listing /\ live' \subseteq live
  BY PlacesAreNumbers DEF MsgInv, Reassign
<1>2. \A i \in Ids : /\ messages'[i] \in MessageRows /\ messages'[i].send = messages[i].send
                     /\ messages'[i].shown = messages[i].shown
                     /\ messages'[i].read = messages[i].read
                     /\ messages'[i].kind = messages[i].kind
  <2>1. ASSUME NEW i \in Ids
        PROVE  LET q == [messages[i] EXCEPT !.to = new] IN
                 /\ q \in MessageRows /\ q.send = messages[i].send
                 /\ q.shown = messages[i].shown /\ q.read = messages[i].read
                 /\ q.kind = messages[i].kind
    BY <1>1 DEF MessageRows
  <2>2. QED
    BY <1>1, <2>1 DEF Reassign
<1>3. messages' \in Seq(MessageRows) /\ Ids' = Ids
  BY <1>1, <1>2, RowsAreRewritten DEF Reassign
<1>4. TableShape'
  BY <1>1, <1>3 DEF TableShape
<1>5. ListedIsShown'
  BY <1>1, <1>2, <1>3 DEF MsgInv, ListedIsShown, ReadWasShown
<1>6. \A s \in Sends : UNCHANGED RowsOfSend(s)
  BY <1>2, <1>3 DEF RowsOfSend
<1>7. QED
  BY <1>1, <1>4, <1>5, <1>6, SendsRest DEF Reassign

-----------------------------------------------------------------------------
(* The invariant.                                                           *)

\* It holds at the start.
LEMMA MsgStart == MsgInit => MsgInv
<1>  SUFFICES ASSUME MsgInit PROVE MsgInv
  OBVIOUS
<1>1. messages = <<>> /\ Ids = {} /\ TableShape
  BY DEF MsgInit, TableShape, Ids
<1>2. Idle \in HandlerStates /\ Idle.pc = "idle"
  BY DEF Idle, HandlerStates, HandlerStages
<1>3. \A s \in Sends : /\ handler[s] \in [Attempts(s) -> HandlerStates]
                       /\ \A a \in Attempts(s) : handler[s][a].pc = "idle"
  BY <1>2 DEF MsgInit
<1>4. [state |-> "ready", posted |-> 0] \in ClientStates
  BY DEF ClientStates
<1>5. SendShapes
  BY <1>3, <1>4 DEF MsgInit, SendShapes
<1>6. OneInFlight /\ AnswersAreHeard
  BY <1>3 DEF MsgInit, OneInFlight, AnswersAreHeard
<1>7. ListedIsShown
  BY <1>1 DEF MsgInit, ListedIsShown, ReadWasShown
<1>8. ASSUME NEW s \in Sends PROVE Counted(s)
  <2>1. RowsOfSend(s) = {} /\ Orphans(s) = {} /\ drops[s] = 0
    BY <1>1, <1>3 DEF MsgInit, RowsOfSend, Orphans
  <2>2. Cardinality({}) = 0
    BY FS_EmptySet
  <2>3. QED
    BY <2>1, <2>2 DEF Counted
<1>9. QED
  BY <1>1, <1>5, <1>6, <1>7, <1>8 DEF MsgInv, RowsAreCounted, Counted

\* Every step keeps it.
LEMMA MsgSteps == ASSUME MsgInv, [MsgNext]_msgVars PROVE MsgInv'
<1>1. ASSUME NEW s \in Sends, Post(s) \/ Expire(s) PROVE MsgInv'
  BY <1>1, PostStep, ExpireStep
<1>2. ASSUME NEW s \in Sends, NEW a \in Attempts(s), Handler(s, a) \/ Answer(s, a) \/ DropConnection(s, a)
      PROVE  MsgInv'
  BY <1>2, AcceptStep, InsertStep, TellStep, AnswerStep, DropStep DEF Handler
<1>3. ASSUME NEW a \in Agents, ListMessages(a) \/ MarkRead(a) \/ WakeRow(a) PROVE MsgInv'
  BY <1>3, ListStep, MarkStep, WakeStep
<1>4. ASSUME NEW old \in Agents, NEW new \in Agents, Reassign(old, new) PROVE MsgInv'
  BY <1>4, ReassignStep
<1>5. CASE Brake \/ UNCHANGED msgVars
  <2>1. UNCHANGED <<messages, handler, client, dedup, broadcast, woken, live, listing, drops>>
    BY <1>5 DEF Brake, msgVars
  <2>2. QED
    BY <2>1, TableRests, SendsRest
<1>6. QED
  BY <1>1, <1>2, <1>3, <1>4, <1>5 DEF MsgNext

\* The invariant of the message routes, for any sends, agents and attempts.
THEOREM SendsAreSound == MsgSpec => []MsgInv
  BY MsgStart, MsgSteps, PTL DEF MsgSpec

\* A send is in the table once, but for the handlers that were dropped half-way
\* (msg_dedup, routes/swarm.rs).
LEMMA InsertsAreCounted == MsgInv => InsertedOnce
<1>  SUFFICES ASSUME MsgInv, NEW s \in Sends PROVE Cardinality(RowsOfSend(s)) <= 1 + drops[s]
  BY DEF InsertedOnce
<1>1. Counted(s) /\ TableShape /\ SendShapes
  BY DEF MsgInv, RowsAreCounted, Counted
<1>2. Cardinality(RowsOfSend(s)) \in Nat /\ Cardinality(Orphans(s)) \in Nat /\ drops[s] \in Nat
  BY <1>1, CountsAreNat
<1>3. CASE Settled(s)
  BY <1>1, <1>2, <1>3 DEF Counted
<1>4. CASE ~Settled(s)
  BY <1>1, <1>2, <1>4 DEF Counted
<1>5. QED
  BY <1>3, <1>4

\* A send leaves one row per handler that ran through, its sender is not told before its
\* recipient is, and no row is read unseen (routes/swarm.rs, tools.rs).
THEOREM SendsKeepFaith == MsgSpec => [](InsertedOnce /\ ToldIsHeard /\ ReadWasShown)
<1>1. MsgInv => ToldIsHeard /\ ReadWasShown
  BY DEF MsgInv, AnswersAreHeard, Heard, ListedIsShown, ToldIsHeard
<1>2. QED
  BY <1>1, InsertsAreCounted, SendsAreSound, PTL

-----------------------------------------------------------------------------
(* Types.                                                                   *)

\* A handler that tells, a remembered answer and what was heard name rows there are.
RowsAreThere ==
  /\ \A s \in Sends : \A a \in Attempts(s) :
       /\ handler[s][a].id \in Ids \cup {0}
       /\ handler[s][a].pc = "tell" => handler[s][a].id \in RowsOfSend(s)
  /\ \A s \in DOMAIN dedup : dedup[s] \in RowsOfSend(s)
  /\ broadcast \subseteq Ids /\ woken \subseteq Ids /\ braked \in BOOLEAN /\ live \subseteq Agents

\* No row goes away, nor changes hands between sends.
LEMMA RowsRemain ==
  ASSUME MsgInv, [MsgNext]_msgVars, NEW i \in Ids
  PROVE  i \in Ids' /\ messages'[i].send = messages[i].send
<1>1. TableShape /\ messages[i] \in MessageRows
  BY PlacesAreNumbers DEF MsgInv
<1>2. ASSUME NEW r \in MessageRows, messages' = Append(messages, r)
      PROVE  i \in Ids' /\ messages'[i].send = messages[i].send
  BY <1>1, <1>2, RowIsAppended
<1>3. CASE UNCHANGED messages
  BY <1>3 DEF Ids
<1>4. ASSUME NEW s \in Sends, messages' = Append(messages, MessageRow(s))
      PROVE  i \in Ids' /\ messages'[i].send = messages[i].send
  <2>1. MessageRow(s) \in MessageRows
    BY MessagesAssumption DEF MessageRow, MessageRows
  <2>2. QED
    BY <1>2, <1>4, <2>1
<1>5. ASSUME NEW a \in Agents, WakeRow(a) PROVE i \in Ids' /\ messages'[i].send = messages[i].send
  <2> DEFINE r == [send |-> "wake", to |-> a, kind |-> "wake", shown |-> FALSE, read |-> FALSE]
  <2>1. r \in MessageRows /\ messages' = Append(messages, r)
    BY <1>5 DEF MessageRows, WakeRow
  <2> HIDE DEF r
  <2>2. QED
    BY <1>2, <2>1
<1>6. ASSUME NEW q, q.send = messages[i].send, messages'[i] = q, DOMAIN messages' = Ids
      PROVE  i \in Ids' /\ messages'[i].send = messages[i].send
  BY <1>6 DEF Ids
<1>7. ASSUME NEW a \in Agents, ListMessages(a) PROVE i \in Ids' /\ messages'[i].send = messages[i].send
  <2> DEFINE q == [messages[i] EXCEPT !.shown = @ \/ i \in NewestUnread(a)]
  <2>1. q.send = messages[i].send
    BY <1>1 DEF MessageRows
  <2> HIDE DEF q
  <2>2. DOMAIN messages' = Ids /\ messages'[i] = q
    BY <1>7 DEF ListMessages, q
  <2>3. QED
    BY <1>6, <2>1, <2>2
<1>8. ASSUME NEW a \in Agents, MarkRead(a) PROVE i \in Ids' /\ messages'[i].send = messages[i].send
  <2> DEFINE q == [messages[i] EXCEPT !.read = @ \/ i \in ToMark(a)]
  <2>1. q.send = messages[i].send
    BY <1>1 DEF MessageRows
  <2> HIDE DEF q
  <2>2. DOMAIN messages' = Ids /\ messages'[i] = q
    BY <1>8 DEF MarkRead, q
  <2>3. QED
    BY <1>6, <2>1, <2>2
<1>9. ASSUME NEW old \in Agents, NEW new \in Agents, Reassign(old, new)
      PROVE  i \in Ids' /\ messages'[i].send = messages[i].send
  <2> DEFINE q == [messages[i] EXCEPT !.to = new]
  <2>1. q.send = messages[i].send
    BY <1>1 DEF MessageRows
  <2> HIDE DEF q
  <2>2. DOMAIN messages' = Ids /\ messages'[i] \in {q, messages[i]}
    BY <1>9 DEF Reassign, q
  <2>3. QED
    BY <1>6, <2>1, <2>2
<1>10. ASSUME NEW s \in Sends, NEW a \in Attempts(s), Handler(s, a) \/ Answer(s, a) \/ DropConnection(s, a)
       PROVE  UNCHANGED messages \/ messages' = Append(messages, MessageRow(s))
  BY <1>10 DEF Handler, AcceptSend, Insert, Tell, Answer, DropConnection
<1>11. ASSUME NEW s \in Sends, Post(s) \/ Expire(s) PROVE UNCHANGED messages
  BY <1>11 DEF Post, Expire
<1>12. CASE UNCHANGED msgVars \/ Brake
  BY <1>3, <1>12 DEF msgVars, Brake
<1>13. QED
  BY <1>3, <1>4, <1>5, <1>7, <1>8, <1>9, <1>10, <1>11, <1>12 DEF MsgNext

\* What is left to show when one handler moves, or none.
LEMMA OneHandlerMoves ==
  ASSUME MsgInv, RowsAreThere, [MsgNext]_msgVars, NEW s \in Sends, NEW a \in Attempts(s), NEW p, NEW i,
         HandlerIs(s, a, p, i), i \in Ids' \cup {0}, p = "tell" => i \in RowsOfSend(s)'
  PROVE  \A t \in Sends : \A b \in Attempts(t) :
           /\ handler'[t][b].id \in Ids' \cup {0}
           /\ handler'[t][b].pc = "tell" => handler'[t][b].id \in RowsOfSend(t)'
<1>1. \A j \in Ids : j \in Ids' /\ messages'[j].send = messages[j].send
  BY RowsRemain
<1>2. \A t \in Sends : \A j \in RowsOfSend(t) : j \in RowsOfSend(t)'
  BY <1>1 DEF RowsOfSend
<1>3. QED
  BY <1>1, <1>2 DEF HandlerIs, RowsAreThere

LEMMA RowsStayThere ==
  ASSUME MsgInv, RowsAreThere, [MsgNext]_msgVars
  PROVE  RowsAreThere'
<1>1. \A j \in Ids : j \in Ids' /\ messages'[j].send = messages[j].send
  BY RowsRemain
<1>2. \A t \in Sends : \A j \in RowsOfSend(t) : j \in RowsOfSend(t)'
  BY <1>1 DEF RowsOfSend
<1>3. SendShapes /\ TableShape
  BY DEF MsgInv
<1> DEFINE Handlers == \A t \in Sends : \A b \in Attempts(t) :
                         /\ handler[t][b].id \in Ids \cup {0}
                         /\ handler[t][b].pc = "tell" => handler[t][b].id \in RowsOfSend(t)
           Answers == \A t \in DOMAIN dedup : dedup[t] \in RowsOfSend(t)
           Others == broadcast \subseteq Ids /\ woken \subseteq Ids /\ braked \in BOOLEAN /\ live \subseteq Agents
<1>4. RowsAreThere <=> Handlers /\ Answers /\ Others
  BY DEF RowsAreThere
<1>5. UNCHANGED handler => Handlers'
  BY <1>1, <1>2 DEF RowsAreThere
<1>6. UNCHANGED dedup => Answers'
  BY <1>2, <1>3 DEF RowsAreThere, SendShapes
<1>7. UNCHANGED <<broadcast, woken>> /\ braked' \in BOOLEAN /\ live' \subseteq live => Others'
  BY <1>1 DEF RowsAreThere
<1>8. UNCHANGED <<broadcast, woken, braked, live>> => Others'
  BY <1>7 DEF RowsAreThere
<1>9. ASSUME NEW s \in Sends, NEW a \in Attempts(s), NEW p, NEW i,
             HandlerIs(s, a, p, i), i \in Ids' \cup {0}, p = "tell" => i \in RowsOfSend(s)'
      PROVE  Handlers'
  BY <1>9, OneHandlerMoves
<1> HIDE DEF Handlers, Answers, Others
<1>10. ASSUME NEW s \in Sends, Post(s) PROVE Handlers' /\ Answers' /\ Others'
  <2>1. UNCHANGED <<messages, dedup, broadcast, woken, braked, live>>
    BY <1>10 DEF Post
  <2>2. client[s].posted + 1 \in Attempts(s)
    <3>1. client[s].posted \in Nat /\ client[s].posted < MaxAttempts[s]
      BY <1>3, <1>10, FieldTypes DEF Post, SendShapes
    <3>2. MaxAttempts[s] \in Nat
      BY MessagesAssumption
    <3>3. QED
      BY <3>1, <3>2 DEF Attempts
  <2>3. HandlerIs(s, client[s].posted + 1, "gate", handler[s][client[s].posted + 1].id)
    BY <1>3, <1>10, <2>2, HandlerGoes DEF Post, HandlerStages
  <2>4. handler[s][client[s].posted + 1].id \in Ids' \cup {0}
    BY <1>1, <2>2 DEF RowsAreThere
  <2>5. QED
    BY <1>6, <1>8, <1>9, <2>1, <2>2, <2>3, <2>4
<1>11. ASSUME NEW s \in Sends, Expire(s) PROVE Handlers' /\ Answers' /\ Others'
  <2>1. UNCHANGED <<handler, broadcast, woken, braked, live>>
    BY <1>11 DEF Expire
  <2>2. \A t \in DOMAIN dedup' : t \in DOMAIN dedup /\ dedup'[t] = dedup[t]
    BY <1>11 DEF Expire
  <2>3. Answers'
    BY <1>2, <1>3, <2>2 DEF Answers, RowsAreThere, SendShapes
  <2>4. QED
    BY <1>5, <1>8, <2>1, <2>3
<1>12. ASSUME NEW s \in Sends, NEW a \in Attempts(s), AcceptSend(s, a) PROVE Handlers' /\ Answers' /\ Others'
  <2>1. UNCHANGED <<messages, dedup, broadcast, woken, braked, live>>
    BY <1>12 DEF AcceptSend
  <2>2. handler[s][a].id \in Ids' \cup {0} /\ handler[s][a] \in HandlerStates
    BY <1>1, <1>3 DEF RowsAreThere, SendShapes
  <2>3. ASSUME NEW p \in {"done", "insert"}, handler' = [handler EXCEPT ![s][a].pc = p] PROVE Handlers'
    <3>1. HandlerIs(s, a, p, handler[s][a].id)
      BY <1>3, <2>3, HandlerGoes DEF HandlerStages
    <3>2. QED
      BY <1>9, <2>2, <3>1
  <2>4. CASE Refused(s)
    <3>1. handler' = [handler EXCEPT ![s][a].pc = "done"]
      BY <1>12, <2>4 DEF AcceptSend
    <3>2. QED
      BY <1>6, <1>8, <2>1, <2>3, <3>1
  <2>5. CASE ~Refused(s) /\ s \notin DOMAIN dedup
    <3>1. handler' = [handler EXCEPT ![s][a].pc = "insert"]
      BY <1>12, <2>5 DEF AcceptSend
    <3>2. QED
      BY <1>6, <1>8, <2>1, <2>3, <3>1
  <2>6. CASE ~Refused(s) /\ s \in DOMAIN dedup
    <3> DEFINE h == [pc |-> "answer", id |-> dedup[s]]
    <3>1. dedup[s] \in RowsOfSend(s)
      BY <2>6 DEF RowsAreThere
    <3>2. dedup[s] \in Ids /\ dedup[s] \in Ids'
      BY <1>1, <3>1 DEF RowsOfSend
    <3>3. h \in HandlerStates /\ h.pc = "answer" /\ h.id = dedup[s]
      BY <1>3, <2>6 DEF HandlerStates, HandlerStages, SendShapes
    <3>4. handler' = [handler EXCEPT ![s][a] = h]
      BY <1>12, <2>6 DEF AcceptSend
    <3> HIDE DEF h
    <3>5. HandlerIs(s, a, "answer", dedup[s])
      BY <1>3, <3>3, <3>4, HandlerSets
    <3>6. QED
      BY <1>9, <3>2, <3>5, <1>6, <1>8, <2>1
  <2>7. QED
    BY <1>6, <1>8, <2>1, <2>4, <2>5, <2>6
<1>13. ASSUME NEW s \in Sends, NEW a \in Attempts(s), Insert(s, a) PROVE Handlers' /\ Answers' /\ Others'
  <2> DEFINE i == Len(messages) + 1
  <2>1. UNCHANGED <<dedup, broadcast, woken, braked, live>> /\ messages' = Append(messages, MessageRow(s))
    BY <1>13 DEF Insert
  <2>2. MessageRow(s) \in MessageRows /\ MessageRow(s).send = s
    BY MessagesAssumption DEF MessageRow, MessageRows
  <2>3. i \in Ids' /\ messages'[i] = MessageRow(s) /\ i \in Nat
    BY <1>3, <2>1, <2>2, RowIsAppended, PlacesAreNumbers
  <2>4. i \in RowsOfSend(s)'
    BY <2>2, <2>3 DEF RowsOfSend
  <2>5. ASSUME NEW p \in {"tell", "dropped"}, handler' = [handler EXCEPT ![s][a] = [pc |-> p, id |-> i]]
        PROVE  Handlers'
    <3>1. LET h == [pc |-> p, id |-> i] IN h \in HandlerStates /\ h.pc = p /\ h.id = i
      BY <2>3 DEF HandlerStates, HandlerStages
    <3>2. HandlerIs(s, a, p, i)
      BY <1>3, <2>5, <3>1, HandlerSets
    <3>3. QED
      BY <1>9, <2>3, <2>4, <3>2
  <2>6. CASE handler[s][a].pc = "insert"
    <3>1. handler' = [handler EXCEPT ![s][a] = [pc |-> "tell", id |-> i]]
      BY <1>13, <2>6 DEF Insert
    <3>2. QED
      BY <1>6, <1>8, <2>1, <2>5, <3>1
  <2>7. CASE handler[s][a].pc # "insert"
    <3>1. handler' = [handler EXCEPT ![s][a] = [pc |-> "dropped", id |-> i]]
      BY <1>13, <2>7 DEF Insert
    <3>2. QED
      BY <1>6, <1>8, <2>1, <2>5, <3>1
  <2>8. QED
    BY <2>6, <2>7
<1>14. ASSUME NEW s \in Sends, NEW a \in Attempts(s), Tell(s, a) PROVE Handlers' /\ Answers' /\ Others'
  <2> DEFINE i == handler[s][a].id
  <2>1. i \in RowsOfSend(s) /\ i \in RowsOfSend(s)' /\ i \in Ids'
    BY <1>1, <1>2, <1>14 DEF Tell, RowsAreThere, RowsOfSend
  <2>2. HandlerIs(s, a, "answer", i)
    BY <1>3, <1>14, HandlerGoes DEF Tell, HandlerStages
  <2>3. Handlers'
    BY <1>9, <2>1, <2>2
  <2>4. DOMAIN dedup' = DOMAIN dedup \cup {s} /\ \A t \in DOMAIN dedup' : dedup'[t] = IF t = s THEN i ELSE dedup[t]
    BY <1>14 DEF Tell, Remember
  <2>5. \A t \in DOMAIN dedup : dedup[t] \in RowsOfSend(t)
    BY DEF RowsAreThere
  <2>6. DOMAIN dedup \subseteq Sends
    BY <1>3 DEF SendShapes
  <2> HIDE DEF i
  <2>7. Answers'
    BY <1>2, <2>1, <2>4, <2>5, <2>6 DEF Answers
  <2>8. Others'
    <3>1. broadcast' = broadcast \cup {i} /\ woken' \subseteq woken \cup {i} /\ UNCHANGED <<braked, live>>
      BY <1>14 DEF Tell, AutoWake, i
    <3>2. QED
      BY <1>1, <2>1, <3>1 DEF Others, RowsAreThere
  <2>9. QED
    BY <2>3, <2>7, <2>8
<1>15. ASSUME NEW s \in Sends, NEW a \in Attempts(s), Answer(s, a) \/ DropConnection(s, a)
       PROVE  Handlers' /\ Answers' /\ Others'
  <2>1. UNCHANGED <<messages, dedup, broadcast, woken, braked, live>>
    BY <1>15 DEF Answer, DropConnection
  <2>2. handler[s][a].id \in Ids' \cup {0}
    BY <1>1 DEF RowsAreThere
  <2>3. ASSUME NEW p \in {"done", "orphan", "dropped"}, handler' = [handler EXCEPT ![s][a].pc = p] PROVE Handlers'
    <3>1. HandlerIs(s, a, p, handler[s][a].id)
      BY <1>3, <2>3, HandlerGoes DEF HandlerStages
    <3>2. QED
      BY <1>9, <2>2, <3>1
  <2>4. CASE Answer(s, a)
    BY <1>6, <1>8, <2>1, <2>3, <2>4 DEF Answer
  <2>5. CASE DropConnection(s, a)
    <3>1. CASE handler[s][a].pc = "insert"
      BY <1>6, <1>8, <2>1, <2>3, <2>5, <3>1 DEF DropConnection
    <3>2. CASE handler[s][a].pc # "insert"
      BY <1>6, <1>8, <2>1, <2>3, <2>5, <3>2 DEF DropConnection
    <3>3. QED
      BY <3>1, <3>2
  <2>6. QED
    BY <1>15, <2>4, <2>5
<1>16. ASSUME NEW a \in Agents, ListMessages(a) \/ MarkRead(a) \/ WakeRow(a)
       PROVE  Handlers' /\ Answers' /\ Others'
  BY <1>5, <1>6, <1>8, <1>16 DEF ListMessages, MarkRead, WakeRow
<1>17. ASSUME NEW old \in Agents, NEW new \in Agents, Reassign(old, new) PROVE Handlers' /\ Answers' /\ Others'
  <2>1. UNCHANGED <<handler, dedup, broadcast, woken, braked>> /\ live' \subseteq live
    BY <1>17 DEF Reassign
  <2>2. braked \in BOOLEAN
    BY DEF RowsAreThere
  <2>3. QED
    BY <1>5, <1>6, <1>7, <2>1, <2>2
<1>18. ASSUME Brake PROVE Handlers' /\ Answers' /\ Others'
  BY <1>5, <1>6, <1>7, <1>18 DEF Brake
<1>19. ASSUME UNCHANGED msgVars PROVE Handlers' /\ Answers' /\ Others'
  BY <1>5, <1>6, <1>8, <1>19 DEF msgVars
<1>20. Handlers' /\ Answers' /\ Others'
  BY <1>10, <1>11, <1>12, <1>13, <1>14, <1>15, <1>16, <1>17, <1>18, <1>19 DEF MsgNext, Handler
<1>21. QED
  BY <1>20 DEF RowsAreThere, Handlers, Answers, Others

\* Every table and set of the message routes keeps its type: a handler, a remembered
\* answer, a broadcast and a listing only ever name rows that are in the table.
THEOREM MessageTypesHold == MsgSpec => []MsgTypeOK
<1>1. MsgInit => RowsAreThere
  <2>1. SUFFICES ASSUME MsgInit PROVE RowsAreThere
    OBVIOUS
  <2>2. \A s \in Sends : \A a \in Attempts(s) : handler[s][a].id = 0 /\ handler[s][a].pc = "idle"
    BY <2>1 DEF MsgInit, Idle
  <2>3. DOMAIN dedup = {}
    BY <2>1 DEF MsgInit
  <2>4. QED
    BY <2>1, <2>2, <2>3 DEF MsgInit, RowsAreThere
<1>2. MsgInv /\ RowsAreThere /\ [MsgNext]_msgVars => RowsAreThere'
  BY RowsStayThere
<1>3. MsgInv /\ RowsAreThere => MsgTypeOK
  <2>1. SUFFICES ASSUME MsgInv, RowsAreThere PROVE MsgTypeOK
    OBVIOUS
  <2>2. SendShapes /\ TableShape /\ \A i \in Ids : messages[i] \in MessageRows
    BY <2>1, PlacesAreNumbers DEF MsgInv
  <2>3. ASSUME NEW s \in Sends, NEW a \in Attempts(s)
        PROVE  handler[s][a] \in [pc : HandlerStages, id : Ids \cup {0}]
    <3>1. handler[s][a] \in [pc : HandlerStages, id : Nat] /\ handler[s][a].id \in Ids \cup {0}
      BY <2>1, <2>2 DEF SendShapes, HandlerStates, RowsAreThere
    <3>2. QED
      BY <3>1
  <2>4. \A a \in Agents : listing[a] \subseteq Ids
    BY <2>1 DEF MsgInv, ListedIsShown
  <2>5. QED
    BY <2>1, <2>2, <2>3, <2>4 DEF MsgTypeOK, SendShapes, RowsAreThere, MessageRows, HandlerStages, ClientStates
<1>4. QED
  BY <1>1, <1>2, <1>3, SendsAreSound, PTL DEF MsgSpec

-----------------------------------------------------------------------------
(* Fusion batches.                                                         *)

EntrantStages == {"out", "building", "claimed", "bound", "entered", "refused", "abandoned"}
EntrantStates == [pc : EntrantStages, auto : BOOLEAN, synth : BOOLEAN]
DeciderStates == [pc : {"idle", "validated", "merging", "over"}, winner : Directions \cup {Nobody},
                  merge : BOOLEAN]
BatchStates == [status : {"none", "running", "judging", "needs_decision", "done"},
                winner : Directions \cup {Nobody}, judge : Entrants \cup {Nobody}]
WorkStates == {"none", "degraded", "working", "empty", "half", "done", "deleted"}
DogStates == {"off", "watch", "grace", "deciding", "handing over"}

\* The batch and everybody around it have their shape.
FusionShapes ==
  /\ batch \in BatchStates /\ chain \in {"off", "watch"}
  /\ entrant \in [Entrants -> EntrantStates] /\ branch \in [Directions -> WorkStates]
  /\ agent \in [Entrants -> {"none", "live"}] /\ dog \in [Entrants -> DogStates]
  /\ decider \in [Callers -> DeciderStates]

GotPast(e) == entrant[e].pc \in {"claimed", "bound", "entered"}

\* Before the judge stage nobody has claimed it, and one entrant at most ever does.
OneClaims ==
  /\ batch.status = "none" => chain = "off" /\ \A e \in Entrants : entrant[e].pc = "out"
  /\ chain = "watch" => entrant[Chain].pc = "out"
  /\ batch.status = "running" => \A e \in Entrants : entrant[e].pc \in {"out", "building", "refused"}
  /\ \A e, f \in Entrants : GotPast(e) /\ GotPast(f) => e = f

\* Who got past the claim is the judge of the batch, and only it has helpers.
JudgeIsBound ==
  /\ \A e \in Entrants : entrant[e].pc \in {"bound", "entered"} => batch.judge = e
  /\ \A e \in Entrants : agent[e] = "live" \/ dog[e] # "off" => entrant[e].pc = "entered"

\* Who asks for a verdict names a direction; who merges, the recorded winner.
VerdictsAreNamed ==
  /\ batch.winner # Nobody <=> batch.status = "done"
  /\ \A k \in Callers : decider[k].pc = "validated" => decider[k].winner \in Directions
  /\ \A k \in Callers : decider[k].pc = "merging" =>
       decider[k].winner = batch.winner /\ batch.winner \in Directions
  /\ \A x \in landed : x[1] = batch.winner /\ batch.winner # Nobody

\* The inductive invariant.
FusionInv == FusionShapes /\ OneClaims /\ JudgeIsBound /\ VerdictsAreNamed

\* A watchdog past its watch has seen its author done, gone or out of time.
GraceIsEarned ==
  /\ DOMAIN budget = {"faults", "roster", "restarts", "deletions"} /\ budget.roster = 0
  /\ \A e \in Entrants : dog[e] = "grace" /\ entrant[e].synth /\ agent[e] = "live" =>
       branch[e] = "done" \/ e \in late

-----------------------------------------------------------------------------
(* Records.                                                                 *)

\* What is in the records.
LEMMA FieldsHaveTypes ==
  /\ \A s \in EntrantStates : s.pc \in EntrantStages /\ s.synth \in BOOLEAN
  /\ \A d \in DeciderStates : d.pc \in {"idle", "validated", "merging", "over"}
                              /\ d.winner \in Directions \cup {Nobody}
  /\ \A b \in BatchStates : /\ b.status \in {"none", "running", "judging", "needs_decision", "done"}
                            /\ b.winner \in Directions \cup {Nobody}
                            /\ b.judge \in Entrants \cup {Nobody}
  BY DEF EntrantStates, DeciderStates, BatchStates

\* The autopilot's task is an entrant.
LEMMA ChainIsAnEntrant == Chain \in Entrants
  BY DEF Entrants

\* The row of the batch moves on, and gets its judge.
LEMMA RowMovesOn ==
  ASSUME NEW b \in BatchStates, NEW to \in {"running", "judging", "needs_decision"}
  PROVE  LET c == [b EXCEPT !.status = to] IN
           c \in BatchStates /\ c.status = to /\ c.winner = b.winner /\ c.judge = b.judge
  BY DEF BatchStates

LEMMA RowIsBound ==
  ASSUME NEW b \in BatchStates, NEW e \in Entrants
  PROVE  LET c == [b EXCEPT !.judge = e] IN
           c \in BatchStates /\ c.status = b.status /\ c.winner = b.winner /\ c.judge = e
  BY DEF BatchStates

\* An entrant moves on.
LEMMA EntrantMoves ==
  ASSUME FusionShapes, NEW e \in Entrants, NEW p \in EntrantStages, Move(e, p)
  PROVE  /\ entrant' \in [Entrants -> EntrantStates]
         /\ entrant'[e].pc = p /\ entrant'[e].synth = entrant[e].synth
         /\ \A f \in Entrants : f # e => entrant'[f] = entrant[f]
<1>1. entrant' = [entrant EXCEPT ![e] = [entrant[e] EXCEPT !.pc = p]] /\ entrant[e] \in EntrantStates
  BY DEF Move, FusionShapes
<1>2. /\ [entrant[e] EXCEPT !.pc = p] \in EntrantStates
      /\ [entrant[e] EXCEPT !.pc = p].pc = p
      /\ [entrant[e] EXCEPT !.pc = p].synth = entrant[e].synth
  BY <1>1 DEF EntrantStates
<1>3. QED
  BY <1>1, <1>2 DEF FusionShapes

\* An entrant sets out.
LEMMA EntrantStarts ==
  ASSUME NEW auto \in BOOLEAN, NEW synth \in BOOLEAN
  PROVE  LET s == [pc |-> "building", auto |-> auto, synth |-> synth] IN
           s \in EntrantStates /\ s.pc = "building"
  BY DEF EntrantStates, EntrantStages

\* A caller asks for a verdict.
LEMMA CallerAsks ==
  ASSUME FusionShapes, NEW k \in Callers, NEW w \in Directions, NEW m \in BOOLEAN, AskToDecide(k, w, m)
  PROVE  /\ decider' \in [Callers -> DeciderStates]
         /\ decider'[k].pc = "validated" /\ decider'[k].winner = w
         /\ \A j \in Callers : j # k => decider'[j] = decider[j]
<1>1. [pc |-> "validated", winner |-> w, merge |-> m] \in DeciderStates
  BY DEF DeciderStates
<1>2. QED
  BY <1>1 DEF AskToDecide, FusionShapes

\* A caller is done.
LEMMA CallerFinishes ==
  ASSUME FusionShapes, NEW k \in Callers, FinishDecision(k)
  PROVE  /\ decider' \in [Callers -> DeciderStates]
         /\ decider'[k].pc \in {"idle", "over"}
         /\ \A j \in Callers : j # k => decider'[j] = decider[j]
         /\ dog' \in [Entrants -> DogStates]
         /\ \A e \in Entrants : dog'[e] \in {"off", dog[e]}
<1>1. /\ Undecided \in DeciderStates /\ [Undecided EXCEPT !.pc = "over"] \in DeciderStates
      /\ Undecided.pc = "idle" /\ [Undecided EXCEPT !.pc = "over"].pc = "over"
  BY DEF Undecided, DeciderStates
<1>2. /\ decider' \in [Callers -> DeciderStates] /\ decider'[k].pc \in {"idle", "over"}
      /\ \A j \in Callers : j # k => decider'[j] = decider[j]
  BY <1>1 DEF FinishDecision, FusionShapes
<1>3. dog' \in [Entrants -> DogStates] /\ \A e \in Entrants : dog'[e] \in {"off", dog[e]}
  BY DEF FinishDecision, FusionShapes, DogStates
<1>4. QED
  BY <1>2, <1>3

-----------------------------------------------------------------------------
(* Steps.                                                                   *)

\* A step that only ends or keeps helpers, or moves the work on.
LEMMA WorkGoesOn ==
  ASSUME FusionInv, UNCHANGED <<batch, chain, entrant, decider, landed>>,
         branch' \in [Directions -> WorkStates],
         agent' \in [Entrants -> {"none", "live"}], \A e \in Entrants : agent'[e] \in {"none", agent[e]},
         dog' \in [Entrants -> DogStates], \A e \in Entrants : dog'[e] # "off" => dog[e] # "off"
  PROVE  FusionInv'
<1>1. FusionShapes'
  BY DEF FusionInv, FusionShapes
<1>2. OneClaims' /\ VerdictsAreNamed'
  BY DEF FusionInv, OneClaims, GotPast, VerdictsAreNamed
<1>3. JudgeIsBound'
  BY DEF FusionInv, JudgeIsBound
<1>4. QED
  BY <1>1, <1>2, <1>3 DEF FusionInv

\* The batch is recorded.
LEMMA BatchIsRecorded == ASSUME FusionInv, RecordBatch PROVE FusionInv'
<1>1. /\ batch \in BatchStates /\ batch.status = "none"
      /\ UNCHANGED <<entrant, branch, agent, dog, decider, landed>>
  BY DEF RecordBatch, FusionInv, FusionShapes
<1>2. /\ batch' \in BatchStates /\ batch'.status = "running" /\ batch'.winner = batch.winner
      /\ batch'.judge = batch.judge
  BY <1>1, RowMovesOn DEF RecordBatch, NewRow
<1>3. chain' \in {"off", "watch"} /\ Chain \in Entrants
  BY DEF RecordBatch, Entrants
<1>4. FusionShapes'
  BY <1>1, <1>2, <1>3 DEF FusionInv, FusionShapes
<1>5. OneClaims'
  BY <1>1, <1>2, <1>3, ChainIsAnEntrant DEF FusionInv, OneClaims, GotPast
<1>6. JudgeIsBound' /\ VerdictsAreNamed'
  BY <1>1, <1>2 DEF FusionInv, JudgeIsBound, VerdictsAreNamed
<1>7. QED
  BY <1>4, <1>5, <1>6 DEF FusionInv

\* An entrant sets out: the autopilot's task, which ends with it, or a person.
LEMMA EntrantSetsOut ==
  ASSUME FusionInv, NEW e \in Entrants, NEW auto \in BOOLEAN, NEW synth \in BOOLEAN,
         entrant' = [entrant EXCEPT ![e] = [pc |-> "building", auto |-> auto, synth |-> synth]],
         entrant[e].pc = "out", batch.status = "running",
         UNCHANGED <<batch, branch, agent, dog, decider, landed>>,
         (e # Chain /\ UNCHANGED chain) \/ chain' = "off"
  PROVE  FusionInv'
<1>1. /\ entrant' \in [Entrants -> EntrantStates] /\ entrant'[e].pc = "building"
      /\ \A f \in Entrants : f # e => entrant'[f] = entrant[f]
  BY EntrantStarts DEF FusionInv, FusionShapes
<1>2. Chain \in Entrants
  BY DEF Entrants
<1>3. FusionShapes'
  BY <1>1 DEF FusionInv, FusionShapes
<1>4. OneClaims'
  BY <1>1, <1>2, ChainIsAnEntrant DEF FusionInv, OneClaims, GotPast
<1>5. JudgeIsBound'
  BY <1>1 DEF FusionInv, JudgeIsBound
<1>6. VerdictsAreNamed'
  BY DEF FusionInv, VerdictsAreNamed
<1>7. QED
  BY <1>3, <1>4, <1>5, <1>6 DEF FusionInv

\* One entrant takes the batch from running to judging; others come too late.
LEMMA OneEntrantClaims == ASSUME FusionInv, NEW e \in Entrants, Claim(e) PROVE FusionInv'
<1>1. /\ batch \in BatchStates /\ entrant[e].pc = "building" /\ branch \in [Directions -> WorkStates]
      /\ UNCHANGED <<chain, agent, dog, decider, landed>> /\ FusionShapes /\ Entrants \subseteq Directions
  BY DEF Claim, FusionInv, FusionShapes, Directions
<1>2. branch' \in [Directions -> WorkStates]
  BY <1>1 DEF Claim, JudgeDirection, WorkStates
<1>3. CASE batch.status = "running"
  <2>1. batch' = [batch EXCEPT !.status = "judging"] /\ Move(e, "claimed")
    BY <1>3 DEF Claim, Transition
  <2>2. /\ batch' \in BatchStates /\ batch'.status = "judging" /\ batch'.winner = batch.winner
        /\ batch'.judge = batch.judge
    BY <1>1, <2>1, RowMovesOn
  <2>3. /\ entrant' \in [Entrants -> EntrantStates] /\ entrant'[e].pc = "claimed"
        /\ \A f \in Entrants : f # e => entrant'[f] = entrant[f]
    BY <1>1, <2>1, EntrantMoves DEF EntrantStages
  <2>4. FusionShapes'
    BY <1>1, <1>2, <2>2, <2>3 DEF FusionShapes
  <2>5. OneClaims'
    BY <1>1, <1>3, <2>2, <2>3, ChainIsAnEntrant DEF FusionInv, OneClaims, GotPast
  <2>6. JudgeIsBound'
    BY <1>1, <2>2, <2>3 DEF FusionInv, JudgeIsBound
  <2>7. VerdictsAreNamed'
    BY <1>1, <1>3, <2>2 DEF FusionInv, VerdictsAreNamed
  <2>8. QED
    BY <2>4, <2>5, <2>6, <2>7 DEF FusionInv
<1>4. CASE batch.status # "running"
  <2>1. batch' = batch /\ Move(e, "refused")
    BY <1>4 DEF Claim, Transition
  <2>2. /\ entrant' \in [Entrants -> EntrantStates] /\ entrant'[e].pc = "refused"
        /\ \A f \in Entrants : f # e => entrant'[f] = entrant[f]
    BY <1>1, <2>1, EntrantMoves DEF EntrantStages
  <2>3. FusionShapes'
    BY <1>1, <1>2, <2>1, <2>2 DEF FusionShapes
  <2>4. OneClaims'
    BY <1>1, <2>1, <2>2, ChainIsAnEntrant DEF FusionInv, OneClaims, GotPast
  <2>5. JudgeIsBound'
    BY <1>1, <2>1, <2>2 DEF FusionInv, JudgeIsBound
  <2>6. VerdictsAreNamed'
    BY <1>1, <2>1 DEF FusionInv, VerdictsAreNamed
  <2>7. QED
    BY <2>3, <2>4, <2>5, <2>6 DEF FusionInv
<1>5. QED
  BY <1>3, <1>4

\* The entrant that claimed becomes the judge of the batch.
LEMMA ClaimantIsBound == ASSUME FusionInv, NEW e \in Entrants, Bind(e) PROVE FusionInv'
<1>1. /\ FusionShapes /\ batch \in BatchStates /\ entrant[e].pc = "claimed"
      /\ UNCHANGED <<chain, branch, agent, dog, decider, landed>>
  BY DEF Bind, FusionInv, FusionShapes
<1>2. /\ batch' \in BatchStates /\ batch'.status = batch.status /\ batch'.winner = batch.winner
      /\ batch'.judge = e
  BY <1>1, RowIsBound DEF Bind
<1>3. /\ entrant' \in [Entrants -> EntrantStates] /\ entrant'[e].pc = "bound"
      /\ \A f \in Entrants : f # e => entrant'[f] = entrant[f]
  BY <1>1, EntrantMoves DEF Bind, EntrantStages
<1>4. \A f \in Entrants : f # e => entrant[f].pc \notin {"bound", "entered"}
  BY <1>1 DEF FusionInv, OneClaims, GotPast
<1>5. FusionShapes'
  BY <1>1, <1>2, <1>3 DEF FusionShapes
<1>6. OneClaims'
  BY <1>1, <1>2, <1>3, ChainIsAnEntrant DEF FusionInv, OneClaims, GotPast
<1>7. JudgeIsBound'
  BY <1>1, <1>2, <1>3, <1>4 DEF FusionInv, JudgeIsBound
<1>8. VerdictsAreNamed'
  BY <1>1, <1>2 DEF FusionInv, VerdictsAreNamed
<1>9. QED
  BY <1>5, <1>6, <1>7, <1>8 DEF FusionInv

\* The judge's agent and watchdog come up.
LEMMA JudgeEnters == ASSUME FusionInv, NEW e \in Entrants, Enter(e) PROVE FusionInv'
<1>1. /\ FusionShapes /\ entrant[e].pc = "bound"
      /\ UNCHANGED <<batch, chain, branch, decider, landed>>
  BY DEF Enter, FusionInv
<1>2. /\ entrant' \in [Entrants -> EntrantStates] /\ entrant'[e].pc = "entered"
      /\ \A f \in Entrants : f # e => entrant'[f] = entrant[f]
  BY <1>1, EntrantMoves DEF Enter, EntrantStages
<1>3. /\ agent' \in [Entrants -> {"none", "live"}] /\ dog' \in [Entrants -> DogStates]
      /\ \A f \in Entrants : f # e => agent'[f] = agent[f] /\ dog'[f] = dog[f]
  <2>1. CASE entrant[e].auto
    BY <1>1, <2>1 DEF Enter, Whistle, FusionShapes, DogStates
  <2>2. CASE ~entrant[e].auto
    BY <1>1, <2>2 DEF Enter, FusionShapes
  <2>3. QED
    BY <2>1, <2>2
<1>4. FusionShapes'
  BY <1>1, <1>2, <1>3 DEF FusionShapes
<1>5. OneClaims'
  BY <1>1, <1>2, ChainIsAnEntrant DEF FusionInv, OneClaims, GotPast
<1>6. JudgeIsBound'
  BY <1>1, <1>2, <1>3 DEF FusionInv, JudgeIsBound
<1>7. VerdictsAreNamed'
  BY <1>1 DEF FusionInv, VerdictsAreNamed
<1>8. QED
  BY <1>4, <1>5, <1>6, <1>7 DEF FusionInv

\* An entrant is dropped on its way.
LEMMA EntrantIsDropped == ASSUME FusionInv, NEW e \in Entrants, Abandon(e) PROVE FusionInv'
<1>1. /\ FusionShapes /\ entrant[e].pc \in {"building", "claimed", "bound"}
      /\ UNCHANGED <<batch, chain, branch, agent, dog, decider, landed>>
  BY DEF Abandon, FusionInv
<1>2. PICK p \in {"refused", "abandoned"} : Move(e, p) /\ (entrant[e].pc = "building" => p = "refused")
  <2>1. CASE entrant[e].pc = "building"
    BY <2>1 DEF Abandon
  <2>2. CASE entrant[e].pc # "building"
    BY <2>2 DEF Abandon
  <2>3. QED
    BY <2>1, <2>2
<1>3. /\ entrant' \in [Entrants -> EntrantStates] /\ entrant'[e].pc = p
      /\ \A f \in Entrants : f # e => entrant'[f] = entrant[f]
  BY <1>1, <1>2, EntrantMoves DEF EntrantStages
<1>4. FusionShapes'
  BY <1>1, <1>3 DEF FusionShapes
<1>5. OneClaims'
  BY <1>1, <1>2, <1>3, ChainIsAnEntrant DEF FusionInv, OneClaims, GotPast
<1>6. JudgeIsBound'
  BY <1>1, <1>2, <1>3 DEF FusionInv, JudgeIsBound
<1>7. VerdictsAreNamed'
  BY <1>1 DEF FusionInv, VerdictsAreNamed
<1>8. QED
  BY <1>4, <1>5, <1>6, <1>7 DEF FusionInv

\* Somebody asks for a verdict.
LEMMA VerdictIsAsked ==
  ASSUME FusionInv, NEW k \in Callers, NEW w \in Directions, NEW m \in BOOLEAN, AskToDecide(k, w, m),
         UNCHANGED <<batch, chain, entrant, branch, agent, landed>>,
         dog' \in [Entrants -> DogStates], \A e \in Entrants : dog'[e] # "off" => dog[e] # "off"
  PROVE  FusionInv'
<1>1. /\ decider' \in [Callers -> DeciderStates]
      /\ decider'[k].pc = "validated" /\ decider'[k].winner = w
      /\ \A j \in Callers : j # k => decider'[j] = decider[j]
  BY CallerAsks DEF FusionInv
<1>2. FusionShapes'
  BY <1>1 DEF FusionInv, FusionShapes
<1>3. OneClaims' /\ JudgeIsBound'
  BY DEF FusionInv, OneClaims, GotPast, JudgeIsBound
<1>4. VerdictsAreNamed'
  BY <1>1 DEF FusionInv, VerdictsAreNamed
<1>5. QED
  BY <1>2, <1>3, <1>4 DEF FusionInv

\* A caller is done without a change to the row.
LEMMA CallerLeaves ==
  ASSUME FusionInv, NEW k \in Callers, FinishDecision(k),
         UNCHANGED <<batch, chain, entrant, agent>>, branch' \in [Directions -> WorkStates],
         \A x \in landed' : x \in landed \/ (x[1] = batch.winner /\ batch.winner # Nobody)
  PROVE  FusionInv'
<1>1. /\ decider' \in [Callers -> DeciderStates] /\ decider'[k].pc \in {"idle", "over"}
      /\ \A j \in Callers : j # k => decider'[j] = decider[j]
      /\ dog' \in [Entrants -> DogStates] /\ \A e \in Entrants : dog'[e] \in {"off", dog[e]}
  BY CallerFinishes DEF FusionInv
<1>2. FusionShapes'
  BY <1>1 DEF FusionInv, FusionShapes
<1>3. OneClaims'
  BY DEF FusionInv, OneClaims, GotPast
<1>4. JudgeIsBound'
  BY <1>1 DEF FusionInv, JudgeIsBound
<1>5. VerdictsAreNamed'
  BY <1>1 DEF FusionInv, VerdictsAreNamed
<1>6. QED
  BY <1>2, <1>3, <1>4, <1>5 DEF FusionInv

\* The first verdict is recorded; a later one is not.
LEMMA VerdictIsClaimed == ASSUME FusionInv, NEW k \in Callers, ClaimVerdict(k) PROVE FusionInv'
<1>1. /\ FusionShapes /\ batch \in BatchStates /\ decider[k].pc = "validated"
      /\ UNCHANGED <<chain, entrant, branch, agent, landed>> /\ decider[k].winner \in Directions
      /\ decider[k] \in DeciderStates
  BY DEF ClaimVerdict, FusionInv, FusionShapes, VerdictsAreNamed
<1>2. CASE batch.winner = Nobody
  <2>1. batch' = [batch EXCEPT !.winner = decider[k].winner, !.status = "done"]
    BY <1>2 DEF ClaimVerdict
  <2>2. /\ batch' \in BatchStates /\ batch'.status = "done" /\ batch'.winner = decider[k].winner
        /\ batch'.judge = batch.judge
    BY <1>1, <2>1 DEF BatchStates
  <2>3. /\ decider' \in [Callers -> DeciderStates]
        /\ decider'[k].pc \in {"merging", "idle", "over"}
        /\ decider'[k].pc = "merging" => decider'[k].winner = decider[k].winner
        /\ \A j \in Callers : j # k => decider'[j] = decider[j]
        /\ dog' \in [Entrants -> DogStates] /\ \A e \in Entrants : dog'[e] \in {"off", dog[e]}
    <3>1. CASE decider[k].merge
      <4>1. decider' = [decider EXCEPT ![k] = [decider[k] EXCEPT !.pc = "merging"]] /\ dog' = dog
        BY <1>2, <3>1 DEF ClaimVerdict
      <4>2. LET d == [decider[k] EXCEPT !.pc = "merging"] IN
              d \in DeciderStates /\ d.pc = "merging" /\ d.winner = decider[k].winner
        BY <1>1 DEF DeciderStates
      <4>3. QED
        BY <1>1, <4>1, <4>2 DEF FusionShapes
    <3>2. CASE ~decider[k].merge
      <4>1. FinishDecision(k)
        BY <1>2, <3>2 DEF ClaimVerdict
      <4>2. QED
        BY <1>1, <4>1, CallerFinishes
    <3>3. QED
      BY <3>1, <3>2
  <2>4. /\ \A j \in Callers : decider[j].pc # "merging"
        /\ landed = {}
    BY <1>2, FusionAssumption DEF FusionInv, VerdictsAreNamed
  <2>5. FusionShapes'
    BY <1>1, <2>2, <2>3 DEF FusionShapes
  <2>6. OneClaims'
    BY <1>1, <2>2 DEF FusionInv, OneClaims, GotPast
  <2>7. JudgeIsBound'
    BY <1>1, <2>2, <2>3 DEF FusionInv, JudgeIsBound
  <2>8. VerdictsAreNamed'
    BY <1>1, <2>2, <2>3, <2>4, FusionAssumption DEF FusionInv, VerdictsAreNamed
  <2>9. QED
    BY <2>5, <2>6, <2>7, <2>8 DEF FusionInv
<1>3. CASE batch.winner # Nobody
  <2>1. FinishDecision(k) /\ batch' = batch
    BY <1>3 DEF ClaimVerdict
  <2>2. QED
    BY <1>1, <2>1, CallerLeaves DEF FusionShapes
<1>4. QED
  BY <1>2, <1>3

\* Only the recorded winner is merged.
LEMMA WinnerIsMerged == ASSUME FusionInv, NEW k \in Callers, Merge(k) PROVE FusionInv'
<1>1. /\ decider[k].pc = "merging" /\ FinishDecision(k) /\ branch \in [Directions -> WorkStates]
      /\ UNCHANGED <<batch, chain, entrant, agent>>
  BY DEF Merge, FusionInv, FusionShapes
<1>2. decider[k].winner = batch.winner /\ batch.winner \in Directions
  BY <1>1 DEF FusionInv, VerdictsAreNamed
<1>3. branch' \in [Directions -> WorkStates]
  BY <1>1, <1>2 DEF Merge, WorkStates
<1>4. \A x \in landed' : x \in landed \/ (x[1] = batch.winner /\ batch.winner # Nobody)
  BY <1>2, FusionAssumption DEF Merge
<1>5. QED
  BY <1>1, <1>3, <1>4, CallerLeaves

\* The batch goes to the user.
LEMMA BatchIsHandedOver ==
  ASSUME FusionInv, NEW e \in Entrants, HandOver(e) PROVE FusionInv'
<1>1. /\ FusionShapes /\ batch \in BatchStates /\ dog \in [Entrants -> DogStates] /\ dog[e] # "off"
      /\ UNCHANGED <<chain, entrant, branch, agent, decider, landed>>
  BY DEF HandOver, FusionInv, FusionShapes
<1>2. dog' \in [Entrants -> DogStates] /\ \A f \in Entrants : dog'[f] # "off" => dog[f] # "off"
  BY <1>1 DEF HandOver, Whistle, DogStates
<1>3. CASE batch.status = "judging"
  <2>1. /\ batch' \in BatchStates /\ batch'.status = "needs_decision" /\ batch'.winner = batch.winner
        /\ batch'.judge = batch.judge
    BY <1>1, <1>3, RowMovesOn DEF HandOver, Transition
  <2>2. FusionShapes'
    BY <1>1, <1>2, <2>1 DEF FusionShapes
  <2>3. OneClaims'
    BY <1>1, <2>1 DEF FusionInv, OneClaims, GotPast
  <2>4. JudgeIsBound'
    BY <1>1, <1>2, <2>1 DEF FusionInv, JudgeIsBound
  <2>5. VerdictsAreNamed'
    BY <1>1, <1>3, <2>1 DEF FusionInv, VerdictsAreNamed
  <2>6. QED
    BY <2>2, <2>3, <2>4, <2>5 DEF FusionInv
<1>4. CASE batch.status # "judging"
  <2>1. batch' = batch
    BY <1>4 DEF HandOver, Transition
  <2>2. QED
    BY <1>1, <1>2, <2>1, WorkGoesOn DEF FusionShapes
<1>5. QED
  BY <1>3, <1>4

\* A restart ends every task and agent.
LEMMA RestartClears == ASSUME FusionInv, Restart PROVE FusionInv'
<1>1. /\ FusionShapes /\ batch \in BatchStates /\ batch.status # "none" /\ UNCHANGED <<branch, landed>>
      /\ chain' = "off" /\ agent' = [e \in Entrants |-> "none"] /\ dog' = [e \in Entrants |-> "off"]
  BY DEF Restart, FusionInv, FusionShapes
<1>2. /\ batch' \in BatchStates /\ batch'.winner = batch.winner
      /\ batch'.status \in {"needs_decision", "done"} /\ (batch'.status = "done" <=> batch.status = "done")
  <2>1. CASE Unfinished
    <3>1. batch' = [batch EXCEPT !.status = "needs_decision"] /\ batch.status # "done"
      BY <2>1 DEF Restart, Unfinished
    <3>2. QED
      BY <1>1, <3>1, RowMovesOn
  <2>2. CASE ~Unfinished
    <3>1. batch' = batch
      BY <2>2 DEF Restart
    <3>2. QED
      BY <1>1, <2>2, <3>1, FieldsHaveTypes DEF Unfinished
  <2>3. QED
    BY <2>1, <2>2
<1>3. entrant' \in [Entrants -> EntrantStates] /\ \A e \in Entrants : entrant'[e].pc \in {"out", "refused"}
  <2>1. /\ Out \in EntrantStates /\ [Out EXCEPT !.pc = "refused"] \in EntrantStates
        /\ Out.pc = "out" /\ [Out EXCEPT !.pc = "refused"].pc = "refused"
    BY DEF Out, EntrantStates, EntrantStages
  <2>2. QED
    BY <2>1 DEF Restart
<1>4. decider' \in [Callers -> DeciderStates] /\ \A k \in Callers : decider'[k].pc \in {"idle", "over"}
  <2>1. /\ Undecided \in DeciderStates /\ [Undecided EXCEPT !.pc = "over"] \in DeciderStates
        /\ Undecided.pc = "idle" /\ [Undecided EXCEPT !.pc = "over"].pc = "over"
    BY DEF Undecided, DeciderStates
  <2>2. QED
    BY <2>1 DEF Restart
<1>5. FusionShapes'
  BY <1>1, <1>2, <1>3, <1>4 DEF FusionShapes, DogStates
<1>6. OneClaims'
  BY <1>1, <1>2, <1>3 DEF OneClaims, GotPast
<1>7. JudgeIsBound'
  BY <1>1, <1>3 DEF JudgeIsBound
<1>8. VerdictsAreNamed'
  BY <1>1, <1>2, <1>4 DEF FusionInv, VerdictsAreNamed
<1>9. QED
  BY <1>5, <1>6, <1>7, <1>8 DEF FusionInv

-----------------------------------------------------------------------------
(* The invariant.                                                           *)

\* It holds at the start.
LEMMA FusionStart == FusionInit => FusionInv
<1>  SUFFICES ASSUME FusionInit PROVE FusionInv
  OBVIOUS
<1>1. batch \in BatchStates /\ batch.status = "none" /\ batch.winner = Nobody
  BY DEF FusionInit, BatchStates
<1>2. entrant \in [Entrants -> EntrantStates] /\ \A e \in Entrants : entrant[e].pc = "out"
  <2>1. Out \in EntrantStates /\ Out.pc = "out"
    BY DEF Out, EntrantStates, EntrantStages
  <2>2. QED
    BY <2>1 DEF FusionInit
<1>3. decider \in [Callers -> DeciderStates] /\ \A k \in Callers : decider[k].pc = "idle"
  <2>1. Undecided \in DeciderStates /\ Undecided.pc = "idle"
    BY DEF Undecided, DeciderStates
  <2>2. QED
    BY <2>1 DEF FusionInit
<1>4. FusionShapes
  BY <1>1, <1>2, <1>3 DEF FusionInit, FusionShapes, WorkStates, DogStates
<1>5. OneClaims /\ JudgeIsBound
  BY <1>1, <1>2 DEF FusionInit, OneClaims, GotPast, JudgeIsBound
<1>6. VerdictsAreNamed
  BY <1>1, <1>3 DEF FusionInit, VerdictsAreNamed
<1>7. QED
  BY <1>4, <1>5, <1>6 DEF FusionInv

\* Every step keeps it.
LEMMA FusionSteps == ASSUME FusionInv, [FusionNext]_fusionVars PROVE FusionInv'
<1>1. /\ FusionShapes /\ batch \in BatchStates /\ branch \in [Directions -> WorkStates]
      /\ agent \in [Entrants -> {"none", "live"}] /\ dog \in [Entrants -> DogStates]
      /\ Contestants \subseteq Directions /\ Entrants \subseteq Directions /\ Chain \in Entrants
      /\ \A e \in Entrants : <<"curl", e>> \in Callers /\ <<"dog", e>> \in Callers
      /\ Humans \subseteq Callers
  BY DEF FusionInv, FusionShapes, Directions, Entrants, Callers, Curls, Dogs
<1>2. ASSUME NEW c \in Contestants, SpawnContestant(c) \/ Settles(c) PROVE FusionInv'
  BY <1>1, <1>2, WorkGoesOn DEF SpawnContestant, Settles, people, WorkStates
<1>3. ASSUME NEW e \in Entrants, EntrantWrites(e) \/ EntrantCommits(e) \/ JudgeDies(e) PROVE FusionInv'
  BY <1>1, <1>3, WorkGoesOn DEF EntrantWrites, EntrantCommits, JudgeDies, people, WorkStates
<1>4. ASSUME NEW d \in Directions, DeleteDirection(d) PROVE FusionInv'
  BY <1>1, <1>4, WorkGoesOn DEF DeleteDirection, people, WorkStates
<1>5. ASSUME NEW x \in Entrants \cup {Impl}, DeadlinePasses(x) PROVE FusionInv'
  BY <1>1, <1>5, WorkGoesOn DEF DeadlinePasses
<1>6. CASE RecordBatch
  BY <1>6, BatchIsRecorded
<1>7. CASE ChainEnds
  BY <1>1, <1>7 DEF ChainEnds, FusionInv, FusionShapes, OneClaims, GotPast, JudgeIsBound, VerdictsAreNamed
<1>8. CASE ChainEnters
  <2>1. entrant' = [entrant EXCEPT ![Chain] = [pc |-> "building", auto |-> TRUE, synth |-> TRUE]]
    BY <1>8 DEF ChainEnters
  <2>2. entrant[Chain].pc = "out" /\ batch.status = "running" /\ chain' = "off"
    BY <1>8 DEF ChainEnters, CurrentStatus, FusionInv, OneClaims, GotPast
  <2>3. UNCHANGED <<batch, branch, agent, dog, decider, landed>>
    BY <1>8 DEF ChainEnters
  <2>4. QED
    BY <1>1, <2>1, <2>2, <2>3, EntrantSetsOut
<1>9. ASSUME NEW e \in Entrants, Click(e) PROVE FusionInv'
  <2>1. PICK auto \in BOOLEAN, synth \in BOOLEAN :
          entrant' = [entrant EXCEPT ![e] = [pc |-> "building", auto |-> auto, synth |-> auto /\ synth]]
    BY <1>9 DEF Click
  <2>2. (auto /\ synth) \in BOOLEAN
    OBVIOUS
  <2>3. /\ e # Chain /\ entrant[e].pc = "out" /\ batch.status = "running" /\ UNCHANGED chain
        /\ UNCHANGED <<batch, branch, agent, dog, decider, landed>>
    BY <1>9 DEF Click
  <2>4. QED
    BY <2>1, <2>2, <2>3, EntrantSetsOut
<1>10. ASSUME NEW e \in Entrants, EntrantSteps(e) PROVE FusionInv'
  BY <1>10, OneEntrantClaims, ClaimantIsBound, JudgeEnters DEF EntrantSteps
<1>11. ASSUME NEW e \in Entrants, Abandon(e) PROVE FusionInv'
  BY <1>11, EntrantIsDropped
<1>12. ASSUME NEW h \in Humans, Decide(h) PROVE FusionInv'
  <2>1. PICK w \in (Contestants \cup {batch.judge}) \ {Nobody}, m \in BOOLEAN : AskToDecide(h, w, m)
    BY <1>12 DEF Decide
  <2>2. w \in Directions
    BY <1>1, FieldsHaveTypes
  <2>3. UNCHANGED <<batch, chain, entrant, branch, agent, dog, landed>>
    BY <1>12 DEF Decide
  <2>4. QED
    BY <1>1, <2>1, <2>2, <2>3, VerdictIsAsked
<1>13. ASSUME NEW e \in Entrants, JudgeDecides(e) PROVE FusionInv'
  <2>1. PICK w \in Directions : AskToDecide(<<"curl", e>>, w, TRUE)
    BY <1>1, <1>13 DEF JudgeDecides
  <2>2. UNCHANGED <<batch, chain, entrant, branch, agent, dog, landed>>
    BY <1>13 DEF JudgeDecides
  <2>3. QED
    BY <1>1, <2>1, <2>2, VerdictIsAsked
<1>14. ASSUME NEW e \in Entrants, DogDecides(e) PROVE FusionInv'
  <2>1. PICK w \in Directions : AskToDecide(<<"dog", e>>, w, TRUE)
    BY <1>1, <1>14 DEF DogDecides
  <2>2. UNCHANGED <<batch, chain, entrant, branch, agent, landed>>
    BY <1>14 DEF DogDecides
  <2>3. dog' \in [Entrants -> DogStates] /\ \A f \in Entrants : dog'[f] # "off" => dog[f] # "off"
    BY <1>1, <1>14 DEF DogDecides, Whistle, DogStates
  <2>4. QED
    BY <1>1, <2>1, <2>2, <2>3, VerdictIsAsked
<1>15. ASSUME NEW e \in Entrants, DogEnds(e) \/ DogStirs(e) \/ DogGivesUp(e) \/ HandOverFails(e)
       PROVE  FusionInv'
  <2>1. UNCHANGED <<batch, chain, entrant, branch, agent, decider, landed>>
    BY <1>15 DEF DogEnds, DogStirs, DogGivesUp, HandOverFails
  <2>2. dog' \in [Entrants -> DogStates] /\ \A f \in Entrants : dog'[f] # "off" => dog[f] # "off"
    BY <1>1, <1>15 DEF DogEnds, DogStirs, DogGivesUp, HandOverFails, Whistle, DogStates
  <2>3. QED
    BY <1>1, <2>1, <2>2, WorkGoesOn
<1>16. ASSUME NEW e \in Entrants, HandOver(e) PROVE FusionInv'
  BY <1>16, BatchIsHandedOver
<1>17. ASSUME NEW k \in Callers, DeciderSteps(k) PROVE FusionInv'
  BY <1>17, VerdictIsClaimed, WinnerIsMerged DEF DeciderSteps
<1>18. ASSUME NEW k \in Callers, DecideFails(k) PROVE FusionInv'
  <2>1. FinishDecision(k) /\ UNCHANGED <<batch, chain, entrant, branch, agent, landed>>
    BY <1>18 DEF DecideFails
  <2>2. QED
    BY <1>1, <2>1, CallerLeaves
<1>19. CASE Restart
  BY <1>19, RestartClears
<1>20. CASE UNCHANGED fusionVars
  BY <1>1, <1>20, WorkGoesOn DEF fusionVars
<1>21. QED
  BY <1>2, <1>3, <1>4, <1>5, <1>6, <1>7, <1>8, <1>9, <1>10, <1>11, <1>12, <1>13, <1>14, <1>15,
     <1>16, <1>17, <1>18, <1>19, <1>20 DEF FusionNext, ChainSteps, DogSteps

\* The invariant of a batch, for any number of contestants, entrants and deciders.
THEOREM BatchIsSound == FusionSpec => []FusionInv
  BY FusionStart, FusionSteps, PTL DEF FusionSpec

\* However many judges, watchdogs and people decide a batch, a recorded winner is final,
\* only its branch is merged, and only the bound judge has an agent or a watchdog
\* (routes/workspaces.rs).
THEOREM OneJudgeOneVerdict == FusionSpec => [](VerdictStands /\ OnlyWinnerLands /\ OneJudge)
<1>1. FusionInv => VerdictStands /\ OnlyWinnerLands /\ OneJudge
  BY DEF FusionInv, VerdictsAreNamed, JudgeIsBound, VerdictStands, OnlyWinnerLands, OneJudge
<1>2. QED
  BY <1>1, BatchIsSound, PTL

-----------------------------------------------------------------------------
(* A synthesis and its author, when the agents' table can be read.          *)

\* What a fault of another kind leaves of the bounds.
RosterIsKept == DOMAIN budget = {"faults", "roster", "restarts", "deletions"} /\ budget.roster = 0

LEMMA OtherFaultsDraw ==
  ASSUME RosterIsKept, NEW what \in {"faults", "restarts", "deletions"}, Draw(what)
  PROVE  RosterIsKept'
  BY DEF RosterIsKept, Draw

LEMMA NoRosterFault == RosterIsKept => ~Draw("roster")
  BY DEF RosterIsKept, Draw

\* What leaves those in their grace alone.
LEMMA GraceStays ==
  ASSUME GraceIsEarned, RosterIsKept', late \subseteq late',
         \A e \in Entrants : dog'[e] = "grace" =>
           /\ dog[e] = "grace" /\ entrant'[e].synth = entrant[e].synth
           /\ agent'[e] = "live" => agent[e] = "live"
           /\ agent'[e] = "live" /\ branch[e] = "done" => branch'[e] = "done"
  PROVE  GraceIsEarned'
  BY DEF GraceIsEarned, RosterIsKept

\* Who has not entered has no watchdog.
LEMMA NoDogBefore ==
  ASSUME FusionInv, NEW e \in Entrants, entrant[e].pc # "entered"
  PROVE  dog[e] = "off"
  BY DEF FusionInv, JudgeIsBound

LEMMA GraceSteps ==
  ASSUME FusionInv, GraceIsEarned, [FusionNext]_fusionVars
  PROVE  GraceIsEarned'
<1>1. /\ FusionShapes /\ branch \in [Directions -> WorkStates] /\ RosterIsKept
      /\ agent \in [Entrants -> {"none", "live"}] /\ dog \in [Entrants -> DogStates]
      /\ entrant \in [Entrants -> EntrantStates] /\ Entrants \subseteq Directions
  BY DEF FusionInv, FusionShapes, Directions, GraceIsEarned, RosterIsKept
<1>2. ASSUME NEW c \in Contestants, SpawnContestant(c) \/ Settles(c) PROVE GraceIsEarned'
  <2>1. UNCHANGED <<entrant, agent, dog, late, budget>>
    BY <1>2 DEF SpawnContestant, Settles, people
  <2>2. \A e \in Entrants : branch[e] = "done" => branch'[e] = "done"
    BY <1>1, <1>2 DEF SpawnContestant, Settles
  <2>3. QED
    BY <1>1, <2>1, <2>2, GraceStays DEF RosterIsKept
<1>3. ASSUME NEW e \in Entrants, EntrantWrites(e) \/ EntrantCommits(e) \/ JudgeDies(e) PROVE GraceIsEarned'
  <2>1. UNCHANGED <<entrant, dog, late, budget>> /\ \A f \in Entrants : agent'[f] = "live" => agent[f] = "live"
    BY <1>1, <1>3 DEF EntrantWrites, EntrantCommits, JudgeDies, people
  <2>2. \A f \in Entrants : branch[f] = "done" => branch'[f] = "done"
    BY <1>1, <1>3 DEF EntrantWrites, EntrantCommits, JudgeDies
  <2>3. QED
    BY <1>1, <2>1, <2>2, GraceStays DEF RosterIsKept
<1>4. ASSUME NEW d \in Directions, DeleteDirection(d) PROVE GraceIsEarned'
  <2>1. UNCHANGED <<entrant, dog, late>> /\ RosterIsKept'
    BY <1>1, <1>4, OtherFaultsDraw DEF DeleteDirection, people
  <2>2. \A f \in Entrants : agent'[f] = "live" => agent[f] = "live" /\ branch'[f] = branch[f]
    BY <1>1, <1>4 DEF DeleteDirection
  <2>3. QED
    BY <2>1, <2>2, GraceStays
<1>5. ASSUME NEW x \in Entrants \cup {Impl}, DeadlinePasses(x) PROVE GraceIsEarned'
  BY <1>1, <1>5, GraceStays DEF DeadlinePasses, RosterIsKept
<1>6. CASE RecordBatch
  BY <1>1, <1>6, GraceStays DEF RecordBatch, RosterIsKept
<1>7. CASE ChainEnds
  <2>1. RosterIsKept'
    BY <1>1, <1>7, OtherFaultsDraw DEF ChainEnds, RosterIsKept
  <2>2. QED
    BY <1>7, <2>1, GraceStays DEF ChainEnds
<1>8. CASE ChainEnters
  <2>1. RosterIsKept' /\ UNCHANGED <<branch, agent, dog, late>>
    BY <1>1, <1>8, NoRosterFault DEF ChainEnters, RosterIsKept
  <2>2. dog[Chain] = "off"
    BY <1>8, NoDogBefore, ChainIsAnEntrant DEF ChainEnters, FusionInv, OneClaims
  <2>3. \A f \in Entrants : f # Chain => entrant'[f] = entrant[f]
    BY <1>1, <1>8 DEF ChainEnters
  <2>4. QED
    BY <2>1, <2>2, <2>3, GraceStays
<1>9. ASSUME NEW e \in Entrants, Click(e) PROVE GraceIsEarned'
  <2>1. UNCHANGED <<branch, agent, dog, late, budget>> /\ dog[e] = "off"
    BY <1>9, NoDogBefore DEF Click
  <2>2. \A f \in Entrants : f # e => entrant'[f] = entrant[f]
    BY <1>1, <1>9 DEF Click
  <2>3. QED
    BY <1>1, <2>1, <2>2, GraceStays DEF RosterIsKept
<1>10. ASSUME NEW e \in Entrants, Claim(e) PROVE GraceIsEarned'
  <2>1. UNCHANGED <<agent, dog, late, budget>> /\ dog[e] = "off"
    BY <1>10, NoDogBefore DEF Claim
  <2>2. PICK p \in {"claimed", "refused"} : Move(e, p)
    BY <1>10 DEF Claim
  <2>3. \A f \in Entrants : f # e => entrant'[f] = entrant[f]
    BY <1>1, <2>2, EntrantMoves DEF EntrantStages
  <2>4. \A f \in Entrants : f # e => branch'[f] = branch[f]
    BY <1>1, <1>10 DEF Claim, JudgeDirection
  <2>5. QED
    BY <1>1, <2>1, <2>3, <2>4, GraceStays DEF RosterIsKept
<1>11. ASSUME NEW e \in Entrants, Bind(e) PROVE GraceIsEarned'
  <2>1. UNCHANGED <<branch, agent, dog, late, budget>>
    BY <1>11 DEF Bind
  <2>2. \A f \in Entrants : entrant'[f].synth = entrant[f].synth
    BY <1>1, <1>11, EntrantMoves DEF Bind, EntrantStages
  <2>3. QED
    BY <1>1, <2>1, <2>2, GraceStays DEF RosterIsKept
<1>12. ASSUME NEW e \in Entrants, Enter(e) PROVE GraceIsEarned'
  <2>1. UNCHANGED <<branch, late, budget>> /\ dog[e] = "off"
    BY <1>12, NoDogBefore DEF Enter
  <2>2. \A f \in Entrants : entrant'[f].synth = entrant[f].synth
    BY <1>1, <1>12, EntrantMoves DEF Enter, EntrantStages
  <2>3. \A f \in Entrants : f # e => agent'[f] = agent[f] /\ dog'[f] = dog[f]
    BY <1>1, <1>12 DEF Enter, Whistle
  <2>4. dog'[e] # "grace"
    BY <1>1, <1>12, <2>1 DEF Enter, Whistle
  <2>5. QED
    BY <1>1, <2>1, <2>2, <2>3, <2>4, GraceStays DEF RosterIsKept
<1>13. ASSUME NEW e \in Entrants, Abandon(e) PROVE GraceIsEarned'
  <2>1. UNCHANGED <<branch, agent, dog, late>> /\ RosterIsKept'
    BY <1>1, <1>13, OtherFaultsDraw DEF Abandon
  <2>2. PICK p \in {"refused", "abandoned"} : Move(e, p)
    BY <1>13 DEF Abandon
  <2>3. \A f \in Entrants : entrant'[f].synth = entrant[f].synth
    BY <1>1, <2>2, EntrantMoves DEF EntrantStages
  <2>4. QED
    BY <2>1, <2>3, GraceStays
<1>14. ASSUME NEW h \in Humans, Decide(h) PROVE GraceIsEarned'
  BY <1>1, <1>14, GraceStays DEF Decide, RosterIsKept
<1>15. ASSUME NEW e \in Entrants, JudgeDecides(e) PROVE GraceIsEarned'
  BY <1>1, <1>15, GraceStays DEF JudgeDecides, RosterIsKept
<1>16. ASSUME NEW e \in Entrants, DogDecides(e) \/ DogGivesUp(e) \/ HandOver(e) PROVE GraceIsEarned'
  <2>1. UNCHANGED <<entrant, branch, agent, late, budget>>
    BY <1>16 DEF DogDecides, DogGivesUp, HandOver
  <2>2. \A f \in Entrants : dog'[f] = "grace" => dog[f] = "grace"
    BY <1>1, <1>16 DEF DogDecides, DogGivesUp, HandOver, Whistle
  <2>3. QED
    BY <1>1, <2>1, <2>2, GraceStays DEF RosterIsKept
<1>17. ASSUME NEW e \in Entrants, DogEnds(e) \/ HandOverFails(e) PROVE GraceIsEarned'
  <2>1. UNCHANGED <<entrant, branch, agent, late>>
    BY <1>17 DEF DogEnds, HandOverFails
  <2>2. \A f \in Entrants : dog'[f] = "grace" => dog[f] = "grace"
    BY <1>1, <1>17 DEF DogEnds, HandOverFails, Whistle
  <2>3. RosterIsKept'
    BY <1>1, <1>17, OtherFaultsDraw DEF DogEnds, HandOverFails, RosterIsKept
  <2>4. QED
    BY <2>1, <2>2, <2>3, GraceStays
<1>18. ASSUME NEW e \in Entrants, DogStirs(e) PROVE GraceIsEarned'
  <2>1. UNCHANGED <<entrant, branch, agent, late, budget>> /\ (JudgeSettled(e) \/ e \in late)
    BY <1>1, <1>18, NoRosterFault DEF DogStirs
  <2>2. dog' = [dog EXCEPT ![e] = "grace"]
    BY <1>18 DEF DogStirs, Whistle
  <2>3. QED
    BY <1>1, <2>1, <2>2 DEF JudgeSettled, GraceIsEarned
<1>19. ASSUME NEW k \in Callers, ClaimVerdict(k) PROVE GraceIsEarned'
  <2>1. UNCHANGED <<entrant, branch, agent, late, budget>>
    BY <1>19 DEF ClaimVerdict
  <2>2. FinishDecision(k) \/ dog' = dog
    BY <1>19 DEF ClaimVerdict
  <2>3. \A f \in Entrants : dog'[f] \in {"off", dog[f]}
    BY <1>1, <2>2, CallerFinishes
  <2>4. QED
    BY <1>1, <2>1, <2>3, GraceStays DEF RosterIsKept
<1>20. ASSUME NEW k \in Callers, Merge(k) PROVE GraceIsEarned'
  <2>1. UNCHANGED <<entrant, agent, late, budget>> /\ FinishDecision(k)
    BY <1>20 DEF Merge
  <2>2. \A f \in Entrants : dog'[f] \in {"off", dog[f]}
    BY <1>1, <2>1, CallerFinishes
  <2>3. \A f \in Entrants : branch[f] = "done" => branch'[f] = "done"
    BY <1>1, <1>20 DEF Merge
  <2>4. QED
    BY <1>1, <2>1, <2>2, <2>3, GraceStays DEF RosterIsKept
<1>21. ASSUME NEW k \in Callers, DecideFails(k) PROVE GraceIsEarned'
  <2>1. UNCHANGED <<entrant, branch, agent, late>> /\ FinishDecision(k) /\ RosterIsKept'
    BY <1>1, <1>21, OtherFaultsDraw DEF DecideFails
  <2>2. \A f \in Entrants : dog'[f] \in {"off", dog[f]}
    BY <1>1, <2>1, CallerFinishes
  <2>3. QED
    BY <2>1, <2>2, GraceStays
<1>22. CASE Restart
  <2>1. \A f \in Entrants : dog'[f] = "off"
    BY <1>22 DEF Restart
  <2>2. RosterIsKept' /\ UNCHANGED late
    BY <1>1, <1>22, OtherFaultsDraw DEF Restart
  <2>3. QED
    BY <2>1, <2>2, GraceStays
<1>23. CASE UNCHANGED fusionVars
  BY <1>1, <1>23, GraceStays DEF fusionVars, RosterIsKept
<1>24. QED
  BY <1>2, <1>3, <1>4, <1>5, <1>6, <1>7, <1>8, <1>9, <1>10, <1>11, <1>12, <1>13, <1>14, <1>15,
     <1>16, <1>17, <1>18, <1>19, <1>20, <1>21, <1>22, <1>23
     DEF FusionNext, ChainSteps, DogSteps, EntrantSteps, DeciderSteps

\* A watchdog takes a half-written synthesis only from a judge that is gone or out of time
\* (spawn_judge_watchdog), as long as the agents' table can be read.
THEOREM NoHalfSynthesis == ASSUME MaxRosterFaults = 0 PROVE FusionSpec => HalfWrittenIsSpared
<1>1. FusionInit => GraceIsEarned
  <2>1. FusionInit => RosterIsKept /\ \A e \in Entrants : dog[e] = "off"
    BY DEF FusionInit, RosterIsKept
  <2>2. QED
    BY <2>1 DEF RosterIsKept, GraceIsEarned
<1>2. FusionInv /\ GraceIsEarned /\ [FusionNext]_fusionVars => GraceIsEarned'
  BY GraceSteps
<1>3. GraceIsEarned /\ [FusionNext]_fusionVars =>
        [\A e \in Entrants :
           (dog[e] = "grace" /\ dog'[e] = "deciding" /\ entrant[e].synth /\ agent[e] = "live")
             => branch[e] = "done" \/ e \in late]_fusionVars
  BY DEF GraceIsEarned
<1>4. QED
  BY <1>1, <1>2, <1>3, BatchIsSound, PTL DEF FusionSpec, HalfWrittenIsSpared

-----------------------------------------------------------------------------
(* Types.                                                                   *)

\* The options of the batch, the deadlines that have passed and what was merged.
MarginsHold ==
  /\ option \in [autopilot : BOOLEAN, check : BOOLEAN] /\ late \subseteq Entrants \cup {Impl}
  /\ landed \subseteq Directions \X {"working", "empty", "half", "done"}

\* Only a merge lands anything, and only a direction with a worktree.
LEMMA MergesLandWork ==
  ASSUME FusionInv, MarginsHold, NEW k \in Callers, Merge(k)
  PROVE  MarginsHold'
<1> DEFINE w == decider[k].winner
<1>1. w \in Directions
  BY DEF Merge, FusionInv, VerdictsAreNamed
<1>2. UNCHANGED <<option, late>>
  BY DEF Merge
<1>3. CASE Isolated(w) /\ landed' = landed \cup {<<w, branch[w]>>}
  <2>1. branch[w] \in {"working", "empty", "half", "done"}
    BY <1>3 DEF Isolated
  <2>2. <<w, branch[w]>> \in Directions \X {"working", "empty", "half", "done"}
    BY <1>1, <2>1
  <2>3. QED
    BY <1>2, <1>3, <2>2 DEF MarginsHold
<1>4. CASE UNCHANGED landed
  BY <1>2, <1>4 DEF MarginsHold
<1>5. QED
  BY <1>3, <1>4 DEF Merge

LEMMA MarginsStay == ASSUME FusionInv, MarginsHold, [FusionNext]_fusionVars PROVE MarginsHold'
<1>1. UNCHANGED <<option, late, landed>> => MarginsHold'
  BY DEF MarginsHold
<1>2. ASSUME RecordBatch \/ ChainSteps \/ Restart \/ UNCHANGED fusionVars PROVE MarginsHold'
  BY <1>1, <1>2 DEF RecordBatch, ChainSteps, ChainEnds, ChainEnters, Restart, fusionVars, people
<1>3. ASSUME NEW c \in Contestants, SpawnContestant(c) \/ Settles(c) PROVE MarginsHold'
  BY <1>1, <1>3 DEF SpawnContestant, Settles, people
<1>4. ASSUME NEW d \in Directions, DeleteDirection(d) PROVE MarginsHold'
  BY <1>1, <1>4 DEF DeleteDirection, people
<1>5. ASSUME NEW x \in Entrants \cup {Impl}, DeadlinePasses(x) PROVE MarginsHold'
  BY <1>5 DEF DeadlinePasses, MarginsHold
<1>6. ASSUME NEW e \in Entrants,
             \/ Click(e) \/ EntrantSteps(e) \/ Abandon(e) \/ EntrantWrites(e) \/ EntrantCommits(e)
             \/ JudgeDies(e) \/ JudgeDecides(e) \/ DogSteps(e) \/ HandOverFails(e)
      PROVE  MarginsHold'
  <2>1. CASE Click(e) \/ EntrantSteps(e) \/ Abandon(e)
    BY <1>1, <2>1 DEF Click, EntrantSteps, Claim, Bind, Enter, Abandon, people
  <2>2. CASE EntrantWrites(e) \/ EntrantCommits(e) \/ JudgeDies(e) \/ JudgeDecides(e)
    BY <1>1, <2>2 DEF EntrantWrites, EntrantCommits, JudgeDies, JudgeDecides, people
  <2>3. CASE DogSteps(e) \/ HandOverFails(e)
    BY <1>1, <2>3 DEF DogSteps, DogEnds, DogStirs, DogDecides, DogGivesUp, HandOver, HandOverFails
  <2>4. QED
    BY <1>6, <2>1, <2>2, <2>3
<1>7. ASSUME NEW h \in Humans, Decide(h) PROVE MarginsHold'
  BY <1>1, <1>7 DEF Decide
<1>8. ASSUME NEW k \in Callers, DeciderSteps(k) \/ DecideFails(k) PROVE MarginsHold'
  BY <1>1, <1>8, MergesLandWork DEF DeciderSteps, ClaimVerdict, DecideFails
<1>9. QED
  BY <1>2, <1>3, <1>4, <1>5, <1>6, <1>7, <1>8 DEF FusionNext

\* The row of the batch, everybody around it and what was merged keep their types:
\* nothing is ever merged of a direction that has no worktree.
THEOREM BatchTypesHold == FusionSpec => []FusionTypeOK
<1>1. FusionInit => MarginsHold
  BY DEF FusionInit, MarginsHold
<1>2. FusionInv /\ MarginsHold /\ [FusionNext]_fusionVars => MarginsHold'
  BY MarginsStay
<1>3. FusionInv /\ MarginsHold => FusionTypeOK
  BY DEF FusionInv, FusionShapes, MarginsHold, FusionTypeOK, BatchStates, EntrantStates, EntrantStages,
         WorkStates, DogStates, DeciderStates
<1>4. QED
  BY <1>1, <1>2, <1>3, BatchIsSound, PTL DEF FusionSpec
=============================================================================
