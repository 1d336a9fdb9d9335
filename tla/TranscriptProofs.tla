-------------------------- MODULE TranscriptProofs --------------------------
(***************************************************************************)
(* Proofs about Transcript, for every value of its constants: as long as   *)
(* the file only grows, what the tailer has shown and billed is what a     *)
(* reader of the complete lines would list.                                *)
(***************************************************************************)
EXTENDS Transcript, FiniteSetTheorems, WellFoundedInduction, TLAPS

\* The naturals are well ordered.
LEMMA LessIsWellFounded ==
  \E R : IsWellFoundedOn(R, Nat) /\ \A x, y \in Nat : <<y, x>> \in R <=> y < x
<1>  DEFINE R == OpToRel(<, Nat)
<1>1. IsWellFoundedOn(R, Nat)
  BY NatLessThanWellFounded, Zenon
<1>2. \A x, y \in Nat : <<y, x>> \in R <=> y < x
  BY Zenon DEF OpToRel
<1>3. QED
  BY <1>1, <1>2, Zenon

\* Some number of a set of them is the least.
LEMMA LeastNumber == ASSUME NEW T \in SUBSET Nat, T # {} PROVE \E x \in T : \A y \in T : ~(y < x)
<1>1. PICK R : IsWellFoundedOn(R, Nat) /\ \A x, y \in Nat : <<y, x>> \in R <=> y < x
  BY LessIsWellFounded
<1>2. PICK x \in T : \A y \in T : <<y, x>> \notin R
  BY <1>1, WFMin, Zenon
<1>3. QED
  BY <1>1, <1>2, Zenon

\* What holds of 0, and of each number after one it holds of, holds up to n.
LEMMA UpTo ==
  ASSUME NEW n \in Nat, NEW T \in SUBSET (0 .. n), 0 \in T, \A i \in 0 .. n - 1 : i \in T => i + 1 \in T
  PROVE  T = 0 .. n
<1> DEFINE Bad == {i \in Nat : i <= n /\ i \notin T}
<1>1. CASE Bad # {}
  <2>1. PICK x \in Bad : \A y \in Bad : ~(y < x)
    BY <1>1, LeastNumber
  <2>2. x \in Nat /\ x <= n /\ x \notin T /\ x # 0
    BY <2>1
  <2>3. x - 1 \in 0 .. n - 1 /\ x - 1 < x /\ x - 1 + 1 = x /\ x - 1 \in Nat /\ x - 1 <= n
    BY <2>2
  <2>4. x - 1 \notin Bad
    BY <2>1, <2>3
  <2>5. x - 1 \in T
    BY <2>3, <2>4
  <2>6. QED
    BY <2>2, <2>3, <2>5
<1>2. CASE Bad = {}
  <2>1. ASSUME NEW i \in 0 .. n PROVE i \in T
    <3>1. i \in Nat /\ i <= n
      OBVIOUS
    <3>2. QED
      BY <1>2, <3>1
  <2>2. QED
    BY <2>1
<1>3. QED
  BY <1>1, <1>2

-----------------------------------------------------------------------------
(* Places of numbers in a set of them.                                      *)

LEMMA NthKeeps ==
  ASSUME NEW S \in SUBSET Nat, NEW n \in Nat, NEW x \in Nat, x < n
  PROVE  Nth(S \cup {n}, x) = Nth(S, x)
<1>1. {m \in S \cup {n} : m <= x} = {m \in S : m <= x}
  OBVIOUS
<1>2. QED
  BY <1>1 DEF Nth

LEMMA NthNew ==
  ASSUME NEW S \in SUBSET Nat, IsFiniteSet(S), NEW n \in Nat, \A m \in S : m < n
  PROVE  /\ IsFiniteSet(S \cup {n}) /\ Cardinality(S) \in Nat
         /\ Cardinality(S \cup {n}) = Cardinality(S) + 1
         /\ Nth(S \cup {n}, n) = Cardinality(S) + 1
<1>1. n \notin S
  OBVIOUS
<1>2. \A m \in S \cup {n} : m \in Nat /\ m <= n
  OBVIOUS
<1>3. {m \in S \cup {n} : m <= n} = S \cup {n}
  BY <1>2, Zenon
<1>4. QED
  BY <1>1, <1>3, FS_AddElement, FS_CardinalityType DEF Nth

LEMMA NthRange ==
  ASSUME NEW S \in SUBSET Nat, IsFiniteSet(S), NEW n \in S
  PROVE  Cardinality(S) \in Nat /\ Nth(S, n) \in 1 .. Cardinality(S)
<1> DEFINE T == {m \in S : m <= n}
<1>1. T \subseteq S /\ n \in T
  OBVIOUS
<1>2. IsFiniteSet(T) /\ Cardinality(T) <= Cardinality(S) /\ Cardinality(T) \in Nat /\ Cardinality(S) \in Nat
  BY <1>1, FS_Subset, FS_CardinalityType
<1>3. Cardinality(T) # 0
  BY <1>1, <1>2, FS_EmptySet
<1>4. QED
  BY <1>2, <1>3 DEF Nth

-----------------------------------------------------------------------------
(* Shapes.                                                                  *)

Joined(S, q, x, c) ==
  /\ c \in Seq(S) /\ Len(c) = Len(q) + 1 /\ DOMAIN c = 1 .. Len(q) + 1
  /\ \A i \in 1 .. Len(q) : c[i] = q[i]
  /\ c[Len(q) + 1] = x

LEMMA JoinsOne == ASSUME NEW S, NEW q \in Seq(S), NEW x \in S PROVE Joined(S, q, x, q \o <<x>>)
  BY DEF Joined

LEMMA JoinsNone == ASSUME NEW S, NEW q \in Seq(S) PROVE q \o <<>> = q
  OBVIOUS

Pieced(S, q, a, b, c) ==
  /\ c \in Seq(S) /\ Len(c) = b - a /\ DOMAIN c = 1 .. b - a
  /\ \A j \in 1 .. b - a : c[j] = q[a + j]

LEMMA PieceIs ==
  ASSUME NEW S, NEW q \in Seq(S), NEW a \in Nat, NEW b \in Nat, a <= b, b <= Len(q)
  PROVE  Pieced(S, q, a, b, SubSeq(q, a + 1, b))
<1> DEFINE c == SubSeq(q, a + 1, b)
<1>1. Len(c) = b - a
  OBVIOUS
<1>2. \A j \in 1 .. b - a : a + j \in 1 .. Len(q) /\ (a + 1) + j - 1 = a + j
  OBVIOUS
<1>3. \A j \in 1 .. b - a : c[j] = q[a + j]
  BY <1>1, <1>2
<1>4. c \in Seq(S)
  OBVIOUS
<1>5. DOMAIN c = 1 .. b - a
  BY <1>1
<1> HIDE DEF c
<1>6. QED
  BY <1>1, <1>3, <1>4, <1>5 DEF Pieced, c

JoinedWith(S, p, q, c) ==
  /\ c \in Seq(S) /\ Len(c) = Len(p) + Len(q)
  /\ \A j \in 1 .. Len(p) : c[j] = p[j]
  /\ \A j \in 1 .. Len(q) : c[Len(p) + j] = q[j]

LEMMA JoinIs ==
  ASSUME NEW S, NEW p \in Seq(S), NEW q \in Seq(S)
  PROVE  JoinedWith(S, p, q, p \o q)
  BY DEF JoinedWith

LEMMA SeqSpans ==
  ASSUME NEW S, NEW q \in Seq(S)
  PROVE  DOMAIN q = 1 .. Len(q) /\ Len(q) \in Nat /\ \A i \in DOMAIN q : q[i] \in S
  OBVIOUS

Cells == (1 .. Len(rows)) \X Nat
FeedRows == [phase : Phases, seq : Nat]
Views == [pending : [Tools -> Nat], seq : Nat, feed : Seq(FeedRows), usage : Seq(UsageRows)]
View == [pending |-> st.pending, seq |-> st.seq, feed |-> feed, usage |-> usage]

\* Numbers that were given out are at most seq.
IsView(s) ==
  /\ s \in Views
  /\ \A t \in Tools : s.pending[t] <= s.seq
  /\ \A i \in DOMAIN s.feed : s.feed[i].seq \in 1 .. s.seq

WideRows == [row : Rows(flavor), width : {MaxLine, MaxLine + 2}]
RowsAreRows == flavor \in Flavors /\ rows \in Seq(WideRows)

Inboxes == Seq({"exited", "error"})
StShapes == [offset : Nat, partial : Seq(Cells), pending : [Tools -> Nat], seq : Nat]

TailShapes ==
  /\ RowsAreRows
  /\ file \in Seq(Cells)
  /\ tail \in {"locating", "tailing", "stopped", "misled", "abandoned"}
  /\ st \in StShapes
  /\ Len(st.partial) <= MaxLine
  /\ IsView(View)
  /\ soft \in BOOLEAN /\ errorLatch \in BOOLEAN /\ dead \in BOOLEAN
  /\ inbox \in Inboxes
  /\ rotated \in 0 .. MaxRotations /\ faults \in 0 .. MaxFaults

LEMMA RowFields ==
  ASSUME RowsAreRows, NEW n \in DOMAIN rows
  PROVE  /\ Event(n).op \in {"none", "think", "call", "result"}
         /\ Event(n).op \in {"call", "result"} => Event(n).id \in Tools
         /\ Event(n).op = "result" => Event(n).end \in {"ok", "error"}
         /\ rows[n].row.tokens \in {NoTokens, Turn}
         /\ Width(n) \in Nat /\ Width(n) \in {MaxLine, MaxLine + 2} /\ Width(n) > 0
         /\ n \in Nat /\ n > 0 /\ n <= Len(rows) /\ Len(rows) \in Nat
<1>1. rows[n] \in WideRows
  BY SeqSpans DEF RowsAreRows
<1>2. rows[n].row \in Rows(flavor) /\ Width(n) \in {MaxLine, MaxLine + 2}
  BY <1>1 DEF Width, WideRows
<1>3. Width(n) \in Nat /\ Width(n) > 0
  BY <1>2, TailAssumption
<1>4. n \in Nat /\ n > 0 /\ n <= Len(rows) /\ Len(rows) \in Nat
  <2>1. DOMAIN rows = 1 .. Len(rows) /\ Len(rows) \in Nat
    BY SeqSpans, Zenon DEF RowsAreRows
  <2>2. QED
    BY <2>1
<1>5. rows[n].row.event \in Results \cup Said \cup {NoEvent} /\ rows[n].row.tokens \in {NoTokens, Turn}
  BY <1>2 DEF Rows
<1>6. \A e \in Results \cup Said \cup {NoEvent} :
        /\ e.op \in {"none", "think", "call", "result"}
        /\ e.op \in {"call", "result"} => e.id \in Tools
        /\ e.op = "result" => e.end \in {"ok", "error"}
  BY DEF Results, Said, NoEvent
<1>7. QED
  BY <1>2, <1>3, <1>4, <1>5, <1>6 DEF Event

\* What a turn is billed as.
LEMMA UsageIs ==
  ASSUME NEW f, NEW row, row.tokens \in {NoTokens, Turn}
  PROVE  /\ row.tokens = NoTokens => ParseUsage(f, row) = <<>>
         /\ row.tokens # NoTokens =>
              \E u \in UsageRows : ParseUsage(f, row) = <<u>> /\ u.input + u.read = Prompt(f, row.tokens)
<1>1. CASE row.tokens = NoTokens
  BY <1>1 DEF ParseUsage
<1>2. CASE row.tokens # NoTokens
  <2>1. row.tokens = [input |-> 3, cached |-> 2, output |-> 1]
    BY <1>2 DEF Turn
  <2>2. row.tokens.input = 3 /\ row.tokens.cached = 2 /\ row.tokens.output = 1
    BY <2>1
  <2>3. ParseUsage(f, row) = <<[input |-> IF f = "codex" THEN 1 ELSE 3, read |-> 2, output |-> 1]>>
    BY <1>2, <2>2 DEF ParseUsage
  <2>4. Prompt(f, row.tokens) = IF f = "codex" THEN 3 ELSE 5
    BY <2>2 DEF Prompt
  <2> DEFINE u == [input |-> IF f = "codex" THEN 1 ELSE 3, read |-> 2, output |-> 1]
  <2>5. u \in UsageRows /\ u.input + u.read = IF f = "codex" THEN 3 ELSE 5
    BY DEF UsageRows
  <2>6. QED
    BY <1>2, <2>3, <2>4, <2>5
<1>3. QED
  BY <1>1, <1>2

-----------------------------------------------------------------------------
(* What a reader of a set of rows lists, and a row more.                    *)

\* The calls of a tool that wait for their result.
OpenOf(R, t) ==
  {c \in R : /\ Event(c).op = "call" /\ Event(c).id = t
             /\ \A m \in R : c < m /\ Event(m).op \in {"call", "result"} => Event(m).id # t}

\* What is shown of them, each in its place.
FeedIs(R, f) ==
  /\ Len(f) = Cardinality(ShownOf(R))
  /\ \A n \in ShownOf(R) : f[Nth(ShownOf(R), n)] = [phase |-> Parse(flavor, Event(n)), seq |-> NumberOf(R, n)]

\* The tailer's state after the rows R: its counter, what waits, what it has shown.
Listed(R, s) ==
  /\ s.seq = Cardinality(StepsOf(R))
  /\ \A t \in Tools : OpenOf(R, t) = {} => s.pending[t] = 0
  /\ \A t \in Tools : \A c \in OpenOf(R, t) : s.pending[t] = Nth(StepsOf(R), c)
  /\ FeedIs(R, s.feed)

\* Sets of rows.
SomeRows(R) == R \in SUBSET DOMAIN rows /\ R \in SUBSET Nat /\ IsFiniteSet(R)

LEMMA PartsAreFinite ==
  ASSUME NEW R, SomeRows(R)
  PROVE  /\ StepsOf(R) \in SUBSET R /\ ShownOf(R) \in SUBSET R /\ TurnsOf(R) \in SUBSET R
         /\ StepsOf(R) \in SUBSET Nat /\ ShownOf(R) \in SUBSET Nat /\ TurnsOf(R) \in SUBSET Nat
         /\ IsFiniteSet(StepsOf(R)) /\ IsFiniteSet(ShownOf(R)) /\ IsFiniteSet(TurnsOf(R))
<1>1. StepsOf(R) \in SUBSET R /\ ShownOf(R) \in SUBSET R /\ TurnsOf(R) \in SUBSET R
  BY DEF StepsOf, ShownOf, TurnsOf
<1>2. IsFiniteSet(StepsOf(R)) /\ IsFiniteSet(ShownOf(R)) /\ IsFiniteSet(TurnsOf(R))
  BY <1>1, FS_Subset, Zenon DEF SomeRows
<1>3. QED
  BY <1>1, <1>2, Zenon DEF SomeRows

\* At most one call waits, and a result has at most one.
LEMMA OneWaits ==
  ASSUME NEW R, SomeRows(R), RowsAreRows
  PROVE  /\ \A t \in Tools : \A c, d \in OpenOf(R, t) : c = d
         /\ \A n \in R : \A c, d \in CallsFor(R, n) : c = d
<1>1. \A m \in R : m \in Nat
  BY DEF SomeRows
<1>2. ASSUME NEW t \in Tools, NEW c \in OpenOf(R, t), NEW d \in OpenOf(R, t) PROVE c = d
  <2>1. c \in Nat /\ d \in Nat /\ c \in R /\ d \in R
    BY <1>1 DEF OpenOf
  <2>2. ~(c < d) /\ ~(d < c)
    BY <2>1 DEF OpenOf
  <2>3. QED
    BY <2>1, <2>2
<1>3. ASSUME NEW n \in R, NEW c \in CallsFor(R, n), NEW d \in CallsFor(R, n) PROVE c = d
  <2>1. c \in Nat /\ d \in Nat /\ c \in R /\ d \in R
    BY <1>1 DEF CallsFor
  <2>2. ~(c < d) /\ ~(d < c)
    BY <2>1 DEF CallsFor
  <2>3. QED
    BY <2>1, <2>2
<1>4. QED
  BY <1>2, <1>3

\* A later row changes nothing of what the rows before it mean.
LEMMA PastIsKept ==
  ASSUME NEW R, SomeRows(R), RowsAreRows, NEW n \in Nat, \A m \in R : m < n, NEW m \in R
  PROVE  /\ CallsFor(R \cup {n}, m) = CallsFor(R, m)
         /\ m \in ShownOf(R \cup {n}) <=> m \in ShownOf(R)
         /\ m \in StepsOf(R \cup {n}) <=> m \in StepsOf(R)
         /\ m \in ShownOf(R) => NumberOf(R \cup {n}, m) = NumberOf(R, m)
<1>1. \A k \in R : k \in Nat /\ k < n /\ ~(n < k)
  BY DEF SomeRows
<1>2. ~(n < m) /\ n \notin R
  BY <1>1
<1>3. CallsFor(R \cup {n}, m) = CallsFor(R, m)
  BY <1>1, <1>2 DEF CallsFor
<1>4. m \in ShownOf(R \cup {n}) <=> m \in ShownOf(R)
  BY <1>2, <1>3 DEF ShownOf, StepsOf
<1>5. m \in StepsOf(R \cup {n}) <=> m \in StepsOf(R)
  BY <1>2 DEF StepsOf
<1>6. StepsOf(R) \in SUBSET Nat
  BY PartsAreFinite
<1>7. ASSUME m \in ShownOf(R) PROVE NumberOf(R \cup {n}, m) = NumberOf(R, m)
  <2> DEFINE k == IF Event(m).op = "result" THEN CallOf(R, m) ELSE m
  <2>1. k \in R
    <3>1. CASE Event(m).op = "result"
      <4>1. CallsFor(R, m) # {} /\ CallsFor(R, m) \subseteq R
        BY <1>7, <3>1 DEF ShownOf, StepsOf, CallsFor
      <4>2. QED
        BY <3>1, <4>1 DEF CallOf
    <3>2. CASE Event(m).op # "result"
      BY <3>2
    <3>3. QED
      BY <3>1, <3>2
  <2>2. NumberOf(R, m) = Nth(StepsOf(R), k)
    BY DEF NumberOf
  <2>3. NumberOf(R \cup {n}, m) = Nth(StepsOf(R \cup {n}), k)
    <3>1. CallOf(R \cup {n}, m) = CallOf(R, m)
      BY <1>3 DEF CallOf
    <3>2. CASE Event(m).op = "result"
      BY <3>1, <3>2 DEF NumberOf
    <3>3. CASE Event(m).op # "result"
      BY <3>3 DEF NumberOf
    <3>4. QED
      BY <3>2, <3>3, Zenon
  <2>4. StepsOf(R \cup {n}) = StepsOf(R) \/ StepsOf(R \cup {n}) = StepsOf(R) \cup {n}
    BY DEF StepsOf
  <2>5. k \in Nat /\ k < n
    BY <1>1, <2>1
  <2> HIDE DEF k
  <2>6. Nth(StepsOf(R) \cup {n}, k) = Nth(StepsOf(R), k)
    BY <1>6, <2>5, NthKeeps
  <2>7. QED
    BY <2>2, <2>3, <2>4, <2>6
<1>8. QED
  BY <1>3, <1>4, <1>5, <1>7

\* What a row that is later than all of them adds to the sets of them.
LEMMA SetsGrow ==
  ASSUME NEW R, SomeRows(R), RowsAreRows, NEW n \in DOMAIN rows, \A m \in R : m < n
  PROVE  LET S == R \cup {n}
             op == Event(n).op
             id == Event(n).id
         IN /\ StepsOf(S) = IF op \in {"think", "call"} THEN StepsOf(R) \cup {n} ELSE StepsOf(R)
            /\ op = "result" => CallsFor(S, n) = OpenOf(R, id)
            /\ ShownOf(S) = IF op \in {"think", "call"} \/ (op = "result" /\ OpenOf(R, id) # {})
                            THEN ShownOf(R) \cup {n} ELSE ShownOf(R)
            /\ \A t \in Tools : op \notin {"call", "result"} \/ t # id => OpenOf(S, t) = OpenOf(R, t)
            /\ op = "call" => OpenOf(S, id) = {n}
            /\ op = "result" => OpenOf(S, id) = {}
<1> DEFINE S == R \cup {n}
           op == Event(n).op
           id == Event(n).id
<1>1. \A k \in R : k \in Nat /\ k < n /\ ~(n < k) /\ k # n
  BY RowFields DEF SomeRows
<1>2. n \in Nat /\ n \notin R /\ ~(n < n)
  BY <1>1, RowFields
<1>3. op \in {"none", "think", "call", "result"}
  BY RowFields
<1>4. StepsOf(S) = IF op \in {"think", "call"} THEN StepsOf(R) \cup {n} ELSE StepsOf(R)
  BY DEF StepsOf
<1>5. ASSUME op = "result" PROVE CallsFor(S, n) = OpenOf(R, id)
  BY <1>1, <1>2, <1>5 DEF CallsFor, OpenOf
<1>6. ASSUME NEW t \in Tools, op \notin {"call", "result"} \/ t # id PROVE OpenOf(S, t) = OpenOf(R, t)
  BY <1>1, <1>2, <1>6 DEF OpenOf
<1>7. ASSUME op = "call" PROVE OpenOf(S, id) = {n}
  <2>1. n \in OpenOf(S, id)
    BY <1>1, <1>2, <1>7 DEF OpenOf
  <2>2. \A c \in R : c \notin OpenOf(S, id)
    BY <1>1, <1>2, <1>7 DEF OpenOf
  <2>3. OpenOf(S, id) \subseteq S
    BY DEF OpenOf
  <2>4. QED
    BY <2>1, <2>2, <2>3
<1>8. ASSUME op = "result" PROVE OpenOf(S, id) = {}
  <2>1. n \notin OpenOf(S, id)
    BY <1>8 DEF OpenOf
  <2>2. \A c \in R : c \notin OpenOf(S, id)
    BY <1>1, <1>2, <1>8 DEF OpenOf
  <2>3. OpenOf(S, id) \subseteq S
    BY DEF OpenOf
  <2>4. QED
    BY <2>1, <2>2, <2>3
<1>9. ShownOf(S) = IF op \in {"think", "call"} \/ (op = "result" /\ OpenOf(R, id) # {})
                   THEN ShownOf(R) \cup {n} ELSE ShownOf(R)
  <2>1. \A m \in R : m \in ShownOf(S) <=> m \in ShownOf(R)
    BY <1>1, <1>2, PastIsKept
  <2>2. n \in ShownOf(S) <=> op \in {"think", "call"} \/ (op = "result" /\ OpenOf(R, id) # {})
    BY <1>3, <1>5 DEF ShownOf, StepsOf
  <2>3. ShownOf(S) \subseteq S /\ ShownOf(R) \subseteq R
    BY DEF ShownOf, StepsOf
  <2> HIDE DEF op, id
  <2>4. QED
    BY <2>1, <2>2, <2>3, <1>2
<1>10. QED
  BY <1>4, <1>5, <1>6, <1>7, <1>8, <1>9

LEMMA MoreRows ==
  ASSUME NEW R, SomeRows(R), RowsAreRows, NEW n \in DOMAIN rows
  PROVE  SomeRows(R \cup {n})
<1>1. n \in Nat
  BY RowFields
<1>2. IsFiniteSet(R \cup {n})
  BY FS_AddElement DEF SomeRows
<1>3. QED
  BY <1>1, <1>2 DEF SomeRows

\* A later row that is shown goes to the end of what was shown.
LEMMA FeedGrows ==
  ASSUME NEW R, SomeRows(R), RowsAreRows, NEW n \in DOMAIN rows, \A m \in R : m < n,
         NEW g \in Seq(FeedRows), FeedIs(R, g), ShownOf(R \cup {n}) = ShownOf(R) \cup {n},
         NEW k \in Nat, NumberOf(R \cup {n}, n) = k, Parse(flavor, Event(n)) \in Phases
  PROVE  FeedIs(R \cup {n}, Append(g, [phase |-> Parse(flavor, Event(n)), seq |-> k]))
<1> DEFINE S == R \cup {n}
           e == [phase |-> Parse(flavor, Event(n)), seq |-> k]
           f == Append(g, e)
<1>1. e \in FeedRows
  BY DEF FeedRows
<1> HIDE DEF e
<1>2. /\ ShownOf(R) \in SUBSET Nat /\ IsFiniteSet(ShownOf(R)) /\ \A m \in ShownOf(R) : m \in R /\ m < n /\ m \in Nat
  BY PartsAreFinite
<1>3. n \in Nat
  BY RowFields
<1>4. /\ Cardinality(ShownOf(R)) \in Nat /\ Cardinality(ShownOf(S)) = Cardinality(ShownOf(R)) + 1
      /\ Nth(ShownOf(S), n) = Cardinality(ShownOf(R)) + 1
  BY <1>2, <1>3, NthNew
<1>5. Len(g) \in Nat /\ Len(g) = Cardinality(ShownOf(R))
  BY DEF FeedIs
<1>6. /\ Len(f) = Len(g) + 1 /\ f[Len(g) + 1] = e
      /\ \A i \in 1 .. Len(g) : f[i] = g[i]
  BY <1>1, <1>5
<1> HIDE DEF f
<1>7. ASSUME NEW m \in ShownOf(R)
      PROVE  f[Nth(ShownOf(S), m)] = [phase |-> Parse(flavor, Event(m)), seq |-> NumberOf(S, m)]
  <2>1. Nth(ShownOf(S), m) = Nth(ShownOf(R), m)
    <3>1. Nth(ShownOf(R) \cup {n}, m) = Nth(ShownOf(R), m)
      BY <1>2, <1>3, <1>7, NthKeeps
    <3>2. QED
      BY <3>1
  <2>2. Nth(ShownOf(R), m) \in 1 .. Len(g)
    BY <1>2, <1>5, <1>7, NthRange
  <2>3. g[Nth(ShownOf(R), m)] = [phase |-> Parse(flavor, Event(m)), seq |-> NumberOf(R, m)]
    BY <1>7 DEF FeedIs
  <2>4. NumberOf(S, m) = NumberOf(R, m)
    BY <1>2, <1>3, <1>7, PastIsKept
  <2>5. QED
    BY <1>6, <2>1, <2>2, <2>3, <2>4
<1>8. f[Nth(ShownOf(S), n)] = [phase |-> Parse(flavor, Event(n)), seq |-> NumberOf(S, n)]
  BY <1>4, <1>5, <1>6 DEF e
<1>9. \A m \in ShownOf(S) : m \in ShownOf(R) \/ m = n
  OBVIOUS
<1>10. \A m \in ShownOf(S) :
        f[Nth(ShownOf(S), m)] = [phase |-> Parse(flavor, Event(m)), seq |-> NumberOf(S, m)]
  BY <1>7, <1>8, <1>9
<1>11. Len(f) = Cardinality(ShownOf(S))
  BY <1>4, <1>5, <1>6
<1>12. QED
  BY <1>10, <1>11 DEF f, FeedIs, e

\* One that is not changes nothing of it.
LEMMA FeedStays ==
  ASSUME NEW R, SomeRows(R), RowsAreRows, NEW n \in DOMAIN rows, \A m \in R : m < n,
         NEW g, FeedIs(R, g), ShownOf(R \cup {n}) = ShownOf(R)
  PROVE  FeedIs(R \cup {n}, g)
<1> DEFINE S == R \cup {n}
<1>1. \A m \in ShownOf(R) : m \in R
  BY PartsAreFinite
<1>2. n \in Nat
  BY RowFields
<1>3. \A m \in ShownOf(R) : NumberOf(S, m) = NumberOf(R, m)
  BY <1>1, <1>2, PastIsKept
<1>4. QED
  BY <1>3 DEF FeedIs

-----------------------------------------------------------------------------
(* One line more.                                                           *)

\* What emit does to the counter, to what waits and to the feed.
LEMMA EmitIs ==
  ASSUME RowsAreRows, NEW n \in DOMAIN rows, NEW s \in Views
  PROVE  LET e == Event(n)
             z == Emit(s, e)
         IN /\ e.op # "none" => Parse(flavor, e) \in Phases
            /\ e.op = "none" => z = s
            /\ e.op = "think" =>
                 /\ z = [s EXCEPT !.seq = s.seq + 1,
                                  !.feed = Append(s.feed, [phase |-> Parse(flavor, e), seq |-> s.seq + 1])]
            /\ e.op = "call" =>
                 /\ z = [s EXCEPT !.seq = s.seq + 1, !.pending = [s.pending EXCEPT ![e.id] = s.seq + 1],
                                  !.feed = Append(s.feed, [phase |-> Parse(flavor, e), seq |-> s.seq + 1])]
            /\ e.op = "result" /\ s.pending[e.id] # 0 =>
                 /\ z = [s EXCEPT !.pending = [s.pending EXCEPT ![e.id] = 0],
                                  !.feed = Append(s.feed, [phase |-> Parse(flavor, e), seq |-> s.pending[e.id]])]
            /\ e.op = "result" /\ s.pending[e.id] = 0 => z = s
<1> DEFINE e == Event(n)
           z == Emit(s, e)
<1>1. /\ e.op \in {"none", "think", "call", "result"}
      /\ e.op \in {"call", "result"} => e.id \in Tools
      /\ e.op = "result" => e.end \in {"ok", "error"}
  BY RowFields
<1> HIDE DEF e
<1>2. ASSUME e.op # "none" PROVE Parse(flavor, e) \in Phases
  <2>1. CASE e.op \in {"think", "call"}
    BY <2>1 DEF Parse, Phases
  <2>2. CASE e.op \notin {"think", "call"}
    <3>1. Parse(flavor, e) = IF flavor = "codex" THEN "ok" ELSE e.end
      BY <2>2 DEF Parse
    <3>2. e.end \in {"ok", "error"}
      BY <1>1, <1>2, <2>2
    <3>3. CASE flavor = "codex"
      BY <3>1, <3>3 DEF Phases
    <3>4. CASE flavor # "codex"
      BY <3>1, <3>2, <3>4 DEF Phases
    <3>5. QED
      BY <3>3, <3>4
  <2>3. QED
    BY <2>1, <2>2
<1>3. ASSUME e.op = "none" PROVE z = s
  BY <1>3 DEF Emit
<1>4. ASSUME e.op = "think"
      PROVE  z = [s EXCEPT !.seq = s.seq + 1,
                           !.feed = Append(s.feed, [phase |-> Parse(flavor, e), seq |-> s.seq + 1])]
  BY <1>4 DEF Emit, Numbered
<1>5. ASSUME e.op = "call"
      PROVE  z = [s EXCEPT !.seq = s.seq + 1, !.pending = [s.pending EXCEPT ![e.id] = s.seq + 1],
                           !.feed = Append(s.feed, [phase |-> Parse(flavor, e), seq |-> s.seq + 1])]
  <2>1. z = [Numbered(s, Parse(flavor, e)) EXCEPT !.pending[e.id] = s.seq + 1]
    BY <1>5 DEF Emit
  <2>2. QED
    BY <2>1 DEF Numbered, Views
<1>6. ASSUME e.op = "result", s.pending[e.id] # 0
      PROVE  z = [s EXCEPT !.pending = [s.pending EXCEPT ![e.id] = 0],
                           !.feed = Append(s.feed, [phase |-> Parse(flavor, e), seq |-> s.pending[e.id]])]
  BY <1>6 DEF Emit, Views
<1>7. ASSUME e.op = "result", s.pending[e.id] = 0 PROVE z = s
  BY <1>7 DEF Emit
<1>8. QED
  BY <1>2, <1>3, <1>4, <1>5, <1>6, <1>7 DEF e

LEMMA EmitShapes ==
  ASSUME RowsAreRows, NEW n \in DOMAIN rows, NEW s, IsView(s)
  PROVE  IsView(Emit(s, Event(n))) /\ Emit(s, Event(n)).usage = s.usage
<1> DEFINE e == Event(n)
           z == Emit(s, e)
           ph == Parse(flavor, e)
<1>1. /\ e.op \in {"none", "think", "call", "result"}
      /\ e.op \in {"call", "result"} => e.id \in Tools
  BY RowFields
<1>2. /\ s \in Views /\ s.seq \in Nat /\ s.pending \in [Tools -> Nat] /\ s.feed \in Seq(FeedRows)
      /\ s.usage \in Seq(UsageRows)
      /\ \A t \in Tools : s.pending[t] <= s.seq /\ s.pending[t] \in Nat
      /\ \A i \in DOMAIN s.feed : s.feed[i].seq \in 1 .. s.seq
  BY DEF IsView, Views
<1>3. /\ e.op # "none" => ph \in Phases
      /\ e.op = "none" => z = s
      /\ e.op = "think" =>
           z = [s EXCEPT !.seq = s.seq + 1, !.feed = Append(s.feed, [phase |-> ph, seq |-> s.seq + 1])]
      /\ e.op = "call" =>
           z = [s EXCEPT !.seq = s.seq + 1, !.pending = [s.pending EXCEPT ![e.id] = s.seq + 1],
                         !.feed = Append(s.feed, [phase |-> ph, seq |-> s.seq + 1])]
      /\ e.op = "result" /\ s.pending[e.id] # 0 =>
           z = [s EXCEPT !.pending = [s.pending EXCEPT ![e.id] = 0],
                         !.feed = Append(s.feed, [phase |-> ph, seq |-> s.pending[e.id]])]
      /\ e.op = "result" /\ s.pending[e.id] = 0 => z = s
  BY <1>2, EmitIs
<1> HIDE DEF e, z, ph
<1>4. ASSUME NEW q \in Nat, NEW r \in FeedRows, r.seq \in 1 .. q, s.seq <= q
      PROVE  /\ Append(s.feed, r) \in Seq(FeedRows)
             /\ \A i \in DOMAIN Append(s.feed, r) : Append(s.feed, r)[i].seq \in 1 .. q
  <2>1. /\ Append(s.feed, r) \in Seq(FeedRows) /\ DOMAIN Append(s.feed, r) = 1 .. Len(s.feed) + 1
        /\ \A i \in 1 .. Len(s.feed) : i \in DOMAIN s.feed /\ Append(s.feed, r)[i] = s.feed[i]
        /\ Append(s.feed, r)[Len(s.feed) + 1] = r /\ Len(s.feed) \in Nat
    BY <1>2
  <2> HIDE DEF FeedRows
  <2>2. \A k \in 1 .. s.seq : k \in 1 .. q
    BY <1>2, <1>4
  <2>3. \A i \in 1 .. Len(s.feed) + 1 : i \in 1 .. Len(s.feed) \/ i = Len(s.feed) + 1
    BY <2>1
  <2>4. QED
    BY <1>2, <1>4, <2>1, <2>2, <2>3
<1>5. CASE z = s
  BY <1>5 DEF z, e
<1>6. s.seq + 1 \in Nat /\ s.seq <= s.seq + 1 /\ s.seq + 1 \in 1 .. s.seq + 1
  BY <1>2
<1>7. ASSUME NEW k \in Nat, k > 0, e.op # "none" PROVE [phase |-> ph, seq |-> k] \in FeedRows /\ [phase |-> ph, seq |-> k].seq = k
  BY <1>3, <1>7 DEF FeedRows
<1>8. CASE e.op = "think"
  <2> DEFINE r == [phase |-> ph, seq |-> s.seq + 1]
  <2>1. r \in FeedRows /\ r.seq \in 1 .. s.seq + 1
    BY <1>2, <1>6, <1>7, <1>8
  <2>2. /\ Append(s.feed, r) \in Seq(FeedRows)
        /\ \A i \in DOMAIN Append(s.feed, r) : Append(s.feed, r)[i].seq \in 1 .. s.seq + 1
    BY <1>4, <1>6, <2>1
  <2>3. z = [s EXCEPT !.seq = s.seq + 1, !.feed = Append(s.feed, r)]
    BY <1>3, <1>8
  <2> HIDE DEF r
  <2>4. z.seq = s.seq + 1 /\ z.feed = Append(s.feed, r) /\ z.pending = s.pending /\ z.usage = s.usage /\ z \in Views
    BY <1>2, <1>6, <2>2, <2>3 DEF Views
  <2>5. \A t \in Tools : z.pending[t] <= z.seq
    BY <1>2, <2>4
  <2>6. QED
    BY <2>2, <2>4, <2>5 DEF IsView, z, e
<1>9. CASE e.op = "call"
  <2> DEFINE r == [phase |-> ph, seq |-> s.seq + 1]
             w == [s.pending EXCEPT ![e.id] = s.seq + 1]
  <2>1. r \in FeedRows /\ r.seq \in 1 .. s.seq + 1
    BY <1>2, <1>6, <1>7, <1>9
  <2>2. /\ Append(s.feed, r) \in Seq(FeedRows)
        /\ \A i \in DOMAIN Append(s.feed, r) : Append(s.feed, r)[i].seq \in 1 .. s.seq + 1
    BY <1>4, <1>6, <2>1
  <2>3. z = [s EXCEPT !.seq = s.seq + 1, !.pending = w, !.feed = Append(s.feed, r)]
    BY <1>3, <1>9
  <2>4. w \in [Tools -> Nat] /\ \A t \in Tools : w[t] <= s.seq + 1
    <3>1. w \in [Tools -> Nat]
      BY <1>2, <1>6
    <3>2. \A t \in Tools : w[t] = s.pending[t] \/ w[t] = s.seq + 1
      BY <1>2
    <3>3. QED
      BY <1>2, <1>6, <3>1, <3>2
  <2> HIDE DEF r, w
  <2>5. z.seq = s.seq + 1 /\ z.feed = Append(s.feed, r) /\ z.pending = w /\ z.usage = s.usage /\ z \in Views
    BY <1>2, <1>6, <2>2, <2>3, <2>4 DEF Views
  <2>6. QED
    BY <2>2, <2>4, <2>5 DEF IsView, z, e
<1>10. CASE e.op = "result" /\ s.pending[e.id] # 0
  <2> DEFINE r == [phase |-> ph, seq |-> s.pending[e.id]]
             w == [s.pending EXCEPT ![e.id] = 0]
  <2>1. s.pending[e.id] \in Nat /\ s.pending[e.id] > 0 /\ s.pending[e.id] \in 1 .. s.seq
    BY <1>1, <1>2, <1>10
  <2>2. r \in FeedRows /\ r.seq \in 1 .. s.seq
    BY <1>7, <1>10, <2>1
  <2>3. /\ Append(s.feed, r) \in Seq(FeedRows)
        /\ \A i \in DOMAIN Append(s.feed, r) : Append(s.feed, r)[i].seq \in 1 .. s.seq
    BY <1>2, <1>4, <2>2
  <2>4. z = [s EXCEPT !.pending = w, !.feed = Append(s.feed, r)]
    BY <1>3, <1>10
  <2>5. w \in [Tools -> Nat] /\ \A t \in Tools : w[t] <= s.seq
    <3>1. w \in [Tools -> Nat]
      BY <1>2
    <3>2. \A t \in Tools : w[t] = s.pending[t] \/ w[t] = 0
      BY <1>2
    <3>3. QED
      BY <1>2, <3>1, <3>2
  <2> HIDE DEF r, w
  <2>6. z.seq = s.seq /\ z.feed = Append(s.feed, r) /\ z.pending = w /\ z.usage = s.usage /\ z \in Views
    BY <1>2, <2>3, <2>4, <2>5 DEF Views
  <2>7. QED
    BY <2>3, <2>5, <2>6 DEF IsView, z, e
<1>11. QED
  BY <1>1, <1>3, <1>5, <1>8, <1>9, <1>10

\* The line of a later row is listed as a reader lists it.
LEMMA EmitLists ==
  ASSUME NEW R, SomeRows(R), RowsAreRows, NEW n \in DOMAIN rows, \A m \in R : m < n,
         NEW s, IsView(s), Listed(R, s)
  PROVE  Listed(R \cup {n}, Emit(s, Event(n)))
<1> DEFINE e == Event(n)
           z == Emit(s, e)
           ph == Parse(flavor, e)
           S == R \cup {n}
<1>1. /\ e.op \in {"none", "think", "call", "result"}
      /\ e.op \in {"call", "result"} => e.id \in Tools
      /\ n \in Nat
  BY RowFields
<1>2. /\ s \in Views /\ s.seq \in Nat /\ s.pending \in [Tools -> Nat] /\ s.feed \in Seq(FeedRows)
  BY DEF IsView, Views
<1>3. /\ e.op # "none" => ph \in Phases
      /\ e.op = "none" => z = s
      /\ e.op = "think" =>
           z = [s EXCEPT !.seq = s.seq + 1, !.feed = Append(s.feed, [phase |-> ph, seq |-> s.seq + 1])]
      /\ e.op = "call" =>
           z = [s EXCEPT !.seq = s.seq + 1, !.pending = [s.pending EXCEPT ![e.id] = s.seq + 1],
                         !.feed = Append(s.feed, [phase |-> ph, seq |-> s.seq + 1])]
      /\ e.op = "result" /\ s.pending[e.id] # 0 =>
           z = [s EXCEPT !.pending = [s.pending EXCEPT ![e.id] = 0],
                         !.feed = Append(s.feed, [phase |-> ph, seq |-> s.pending[e.id]])]
      /\ e.op = "result" /\ s.pending[e.id] = 0 => z = s
  BY <1>2, EmitIs
<1>4. /\ StepsOf(S) = IF e.op \in {"think", "call"} THEN StepsOf(R) \cup {n} ELSE StepsOf(R)
      /\ e.op = "result" => CallsFor(S, n) = OpenOf(R, e.id)
      /\ ShownOf(S) = IF e.op \in {"think", "call"} \/ (e.op = "result" /\ OpenOf(R, e.id) # {})
                      THEN ShownOf(R) \cup {n} ELSE ShownOf(R)
      /\ \A t \in Tools : e.op \notin {"call", "result"} \/ t # e.id => OpenOf(S, t) = OpenOf(R, t)
      /\ e.op = "call" => OpenOf(S, e.id) = {n}
      /\ e.op = "result" => OpenOf(S, e.id) = {}
  BY SetsGrow
<1>5. /\ StepsOf(R) \in SUBSET Nat /\ IsFiniteSet(StepsOf(R)) /\ \A m \in StepsOf(R) : m < n
      /\ \A t \in Tools : OpenOf(R, t) \subseteq StepsOf(R)
      /\ \A t \in Tools : \A c, d \in OpenOf(R, t) : c = d
  <2>1. StepsOf(R) \in SUBSET Nat /\ IsFiniteSet(StepsOf(R)) /\ \A m \in StepsOf(R) : m < n
    BY PartsAreFinite
  <2>2. \A t \in Tools : OpenOf(R, t) \subseteq StepsOf(R)
    BY DEF OpenOf, StepsOf
  <2>3. \A t \in Tools : \A c, d \in OpenOf(R, t) : c = d
    BY OneWaits
  <2>4. QED
    BY <2>1, <2>2, <2>3
<1>6. /\ Cardinality(StepsOf(R) \cup {n}) = s.seq + 1 /\ Nth(StepsOf(R) \cup {n}, n) = s.seq + 1
      /\ \A m \in StepsOf(R) : Nth(StepsOf(R) \cup {n}, m) = Nth(StepsOf(R), m)
  <2>1. s.seq = Cardinality(StepsOf(R))
    BY DEF Listed
  <2>2. \A m \in StepsOf(R) : m \in Nat /\ m < n
    BY <1>5
  <2>3. \A m \in StepsOf(R) : Nth(StepsOf(R) \cup {n}, m) = Nth(StepsOf(R), m)
    BY <1>1, <1>5, <2>2, NthKeeps
  <2>4. QED
    BY <1>1, <1>5, <2>1, <2>3, NthNew
<1>7. /\ s.seq = Cardinality(StepsOf(R))
      /\ \A t \in Tools : OpenOf(R, t) = {} => s.pending[t] = 0
      /\ \A t \in Tools : \A c \in OpenOf(R, t) : s.pending[t] = Nth(StepsOf(R), c)
      /\ FeedIs(R, s.feed)
  BY DEF Listed
<1> HIDE DEF e, z, ph, S
<1>8. ASSUME ShownOf(S) = ShownOf(R), z.feed = s.feed
      PROVE  FeedIs(S, z.feed)
  BY <1>7, <1>8, FeedStays DEF S
<1>9. ASSUME NEW k \in Nat, e.op # "none", ShownOf(S) = ShownOf(R) \cup {n}, z.feed = Append(s.feed, [phase |-> ph, seq |-> k]),
             NumberOf(S, n) = k
      PROVE  FeedIs(S, z.feed)
  <2>1. Parse(flavor, Event(n)) \in Phases
    BY <1>3, <1>9 DEF ph, e
  <2>2. FeedIs(S, Append(s.feed, [phase |-> Parse(flavor, Event(n)), seq |-> k]))
    BY <1>2, <1>7, <1>9, <2>1, FeedGrows DEF S
  <2>3. QED
    BY <1>9, <2>2 DEF ph, e
<1>10. CASE e.op = "none" \/ (e.op = "result" /\ OpenOf(R, e.id) = {})
  <2>1. z = s
    BY <1>1, <1>3, <1>7, <1>10
  <2>2. StepsOf(S) = StepsOf(R) /\ ShownOf(S) = ShownOf(R)
    BY <1>4, <1>10
  <2>3. \A t \in Tools : OpenOf(S, t) = OpenOf(R, t)
    BY <1>4, <1>10
  <2>4. FeedIs(S, z.feed)
    BY <1>8, <2>1, <2>2
  <2>5. Listed(S, z)
    BY <1>7, <2>1, <2>2, <2>3, <2>4 DEF Listed
  <2>6. QED
    BY <2>5 DEF S, z, e
<1>11. CASE e.op = "think"
  <2> DEFINE k == s.seq + 1
             r == [phase |-> ph, seq |-> k]
  <2>1. z = [s EXCEPT !.seq = k, !.feed = Append(s.feed, r)]
    BY <1>3, <1>11
  <2>2. StepsOf(S) = StepsOf(R) \cup {n} /\ ShownOf(S) = ShownOf(R) \cup {n}
    BY <1>4, <1>11
  <2>3. NumberOf(S, n) = k /\ k \in Nat
    BY <1>2, <1>6, <1>11, <2>2 DEF NumberOf, e
  <2> HIDE DEF r
  <2>4. z.seq = k /\ z.feed = Append(s.feed, r) /\ z.pending = s.pending
    BY <1>2, <2>1 DEF Views
  <2> HIDE DEF k
  <2>5. FeedIs(S, z.feed)
    BY <1>9, <1>11, <2>2, <2>3, <2>4 DEF r
  <2>6. \A t \in Tools : OpenOf(S, t) = OpenOf(R, t)
    BY <1>4, <1>11
  <2>7. \A t \in Tools : \A c \in OpenOf(S, t) : z.pending[t] = Nth(StepsOf(S), c)
    BY <1>5, <1>6, <1>7, <2>2, <2>4, <2>6
  <2>8. z.seq = Cardinality(StepsOf(S))
    BY <1>6, <2>2, <2>4 DEF k
  <2>9. \A t \in Tools : OpenOf(S, t) = {} => z.pending[t] = 0
    BY <1>7, <2>4, <2>6
  <2>10. Listed(S, z)
    BY <2>5, <2>7, <2>8, <2>9 DEF Listed
  <2>11. QED
    BY <2>10 DEF S, z, e
<1>12. CASE e.op = "call"
  <2> DEFINE k == s.seq + 1
             r == [phase |-> ph, seq |-> k]
             w == [s.pending EXCEPT ![e.id] = k]
  <2>1. z = [s EXCEPT !.seq = k, !.pending = w, !.feed = Append(s.feed, r)]
    BY <1>3, <1>12
  <2>2. StepsOf(S) = StepsOf(R) \cup {n} /\ ShownOf(S) = ShownOf(R) \cup {n}
    BY <1>4, <1>12
  <2>3. NumberOf(S, n) = k /\ k \in Nat
    BY <1>2, <1>6, <1>12, <2>2 DEF NumberOf, e
  <2>4. w[e.id] = k /\ \A t \in Tools : t # e.id => w[t] = s.pending[t]
    BY <1>1, <1>2, <1>12
  <2> HIDE DEF r, w
  <2>5. z.seq = k /\ z.feed = Append(s.feed, r) /\ z.pending = w
    BY <1>2, <2>1 DEF Views
  <2> HIDE DEF k
  <2>6. FeedIs(S, z.feed)
    BY <1>9, <1>12, <2>2, <2>3, <2>5 DEF r
  <2>7. OpenOf(S, e.id) = {n} /\ \A t \in Tools : t # e.id => OpenOf(S, t) = OpenOf(R, t)
    BY <1>4, <1>12
  <2>8. ASSUME NEW t \in Tools, NEW c \in OpenOf(S, t) PROVE z.pending[t] = Nth(StepsOf(S), c)
    <3>1. CASE t = e.id
      <4>1. c = n
        BY <2>7, <2>8, <3>1
      <4>2. Nth(StepsOf(S), n) = k
        BY <1>6, <2>2 DEF k
      <4>3. QED
        BY <2>4, <2>5, <3>1, <4>1, <4>2
    <3>2. CASE t # e.id
      <4>1. c \in OpenOf(R, t) /\ c \in StepsOf(R)
        BY <1>5, <2>7, <2>8, <3>2
      <4>2. QED
        BY <1>6, <1>7, <2>2, <2>4, <2>5, <3>2, <4>1
    <3>3. QED
      BY <3>1, <3>2
  <2>9. z.seq = Cardinality(StepsOf(S))
    BY <1>6, <2>2, <2>5 DEF k
  <2>10. \A t \in Tools : OpenOf(S, t) = {} => z.pending[t] = 0
    BY <1>7, <2>4, <2>5, <2>7
  <2>11. Listed(S, z)
    BY <2>6, <2>8, <2>9, <2>10 DEF Listed
  <2>12. QED
    BY <2>11 DEF S, z, e
<1>13. CASE e.op = "result" /\ OpenOf(R, e.id) # {}
  <2>1. PICK c \in OpenOf(R, e.id) : TRUE
    BY <1>13
  <2> DEFINE k == s.pending[e.id]
             r == [phase |-> ph, seq |-> k]
             w == [s.pending EXCEPT ![e.id] = 0]
  <2>2. e.id \in Tools /\ c \in StepsOf(R)
    BY <1>1, <1>5, <1>13, <2>1
  <2>3. k = Nth(StepsOf(R), c) /\ k \in Nat /\ k # 0
    <3>1. k = Nth(StepsOf(R), c)
      BY <1>7, <2>1, <2>2
    <3>2. Nth(StepsOf(R), c) \in 1 .. Cardinality(StepsOf(R)) /\ Cardinality(StepsOf(R)) \in Nat
      BY <1>5, <2>2, NthRange
    <3>3. QED
      BY <3>1, <3>2
  <2>4. z = [s EXCEPT !.pending = w, !.feed = Append(s.feed, r)]
    BY <1>3, <1>13, <2>3
  <2>5. StepsOf(S) = StepsOf(R) /\ ShownOf(S) = ShownOf(R) \cup {n}
    BY <1>4, <1>13
  <2>6. NumberOf(S, n) = k
    <3>1. CallsFor(S, n) = OpenOf(R, e.id)
      BY <1>4, <1>13
    <3>2. CallOf(S, n) \in OpenOf(R, e.id)
      BY <2>1, <3>1 DEF CallOf
    <3>3. CallOf(S, n) = c
      BY <1>5, <2>1, <2>2, <3>2
    <3>4. NumberOf(S, n) = Nth(StepsOf(S), CallOf(S, n))
      BY <1>13 DEF NumberOf, e
    <3>5. QED
      BY <2>3, <2>5, <3>3, <3>4
  <2>7. w[e.id] = 0 /\ \A t \in Tools : t # e.id => w[t] = s.pending[t]
    BY <1>2, <2>2
  <2> HIDE DEF r, w
  <2>8. z.seq = s.seq /\ z.feed = Append(s.feed, r) /\ z.pending = w
    BY <1>2, <2>4 DEF Views
  <2> HIDE DEF k
  <2>9. FeedIs(S, z.feed)
    BY <1>9, <1>13, <2>3, <2>5, <2>6, <2>8 DEF r
  <2>10. OpenOf(S, e.id) = {} /\ \A t \in Tools : t # e.id => OpenOf(S, t) = OpenOf(R, t)
    BY <1>4, <1>13
  <2>11. \A t \in Tools : \A d \in OpenOf(S, t) : z.pending[t] = Nth(StepsOf(S), d)
    BY <1>7, <2>5, <2>7, <2>8, <2>10
  <2>12. \A t \in Tools : OpenOf(S, t) = {} => z.pending[t] = 0
    BY <1>7, <2>7, <2>8, <2>10
  <2>13. Listed(S, z)
    BY <1>7, <2>5, <2>8, <2>9, <2>11, <2>12 DEF Listed
  <2>14. QED
    BY <2>13 DEF S, z, e
<1>14. QED
  BY <1>1, <1>10, <1>11, <1>12, <1>13

\* The rows of agent_usage after the rows R, of which at most k have not been inserted.
Bills(u, n) == u.input + u.read = Prompt(flavor, rows[n].row.tokens)
Billed(R, b, k) ==
  /\ Len(b) <= Cardinality(TurnsOf(R)) /\ Cardinality(TurnsOf(R)) <= Len(b) + k
  /\ \A i \in DOMAIN b : \E n \in TurnsOf(R) : Bills(b[i], n)
  /\ k = 0 => \A n \in TurnsOf(R) : Bills(b[Nth(TurnsOf(R), n)], n)

\* The turn of a later row is billed at the end, or is lost.
LEMMA BillsGrow ==
  ASSUME NEW R, SomeRows(R), RowsAreRows, NEW n \in DOMAIN rows, \A m \in R : m < n,
         NEW b \in Seq(UsageRows), NEW k \in Nat, Billed(R, b, k), NEW lost \in BOOLEAN,
         NEW c, c = IF lost THEN b ELSE b \o ParseUsage(flavor, rows[n].row)
  PROVE  c \in Seq(UsageRows) /\ Billed(R \cup {n}, c, IF lost THEN k + 1 ELSE k)
<1> DEFINE S == R \cup {n}
           k1 == IF lost THEN k + 1 ELSE k
           row == rows[n].row
<1>1. n \in Nat /\ row.tokens \in {NoTokens, Turn}
  BY RowFields
<1>2. /\ TurnsOf(R) \in SUBSET Nat /\ IsFiniteSet(TurnsOf(R)) /\ \A m \in TurnsOf(R) : m < n /\ m \in Nat
  BY PartsAreFinite
<1>3. Len(b) \in Nat /\ DOMAIN b = 1 .. Len(b) /\ Cardinality(TurnsOf(R)) \in Nat
  BY <1>2, FS_CardinalityType
<1>4. /\ Len(b) <= Cardinality(TurnsOf(R)) /\ Cardinality(TurnsOf(R)) <= Len(b) + k
      /\ \A i \in DOMAIN b : \E m \in TurnsOf(R) : Bills(b[i], m)
      /\ k = 0 => \A m \in TurnsOf(R) : Bills(b[Nth(TurnsOf(R), m)], m)
  BY DEF Billed
<1>5. k1 \in Nat /\ k <= k1 /\ (k1 = 0 => k = 0 /\ ~lost)
  OBVIOUS
<1>6. CASE row.tokens = NoTokens
  <2>1. ParseUsage(flavor, row) = <<>>
    BY <1>1, <1>6, UsageIs
  <2>2. c = b
    BY <2>1
  <2>3. TurnsOf(S) = TurnsOf(R)
    BY <1>6 DEF TurnsOf
  <2> HIDE DEF S, k1
  <2>4. Cardinality(TurnsOf(R)) <= Len(b) + k1
    BY <1>3, <1>4, <1>5
  <2>5. Billed(S, c, k1)
    BY <1>4, <1>5, <2>2, <2>3, <2>4 DEF Billed
  <2>6. QED
    BY <2>2, <2>5 DEF S, k1
<1>7. CASE row.tokens # NoTokens
  <2>1. PICK u \in UsageRows : ParseUsage(flavor, row) = <<u>> /\ u.input + u.read = Prompt(flavor, row.tokens)
    BY <1>1, <1>7, UsageIs
  <2>2. TurnsOf(S) = TurnsOf(R) \cup {n}
    BY <1>7 DEF TurnsOf
  <2>3. /\ Cardinality(TurnsOf(S)) = Cardinality(TurnsOf(R)) + 1
        /\ Nth(TurnsOf(S), n) = Cardinality(TurnsOf(R)) + 1
        /\ \A m \in TurnsOf(R) : Nth(TurnsOf(S), m) = Nth(TurnsOf(R), m)
    <3>1. \A m \in TurnsOf(R) : Nth(TurnsOf(R) \cup {n}, m) = Nth(TurnsOf(R), m)
      BY <1>1, <1>2, NthKeeps
    <3>2. /\ Cardinality(TurnsOf(R) \cup {n}) = Cardinality(TurnsOf(R)) + 1
          /\ Nth(TurnsOf(R) \cup {n}, n) = Cardinality(TurnsOf(R)) + 1
      BY <1>1, <1>2, NthNew
    <3>3. QED
      BY <2>2, <3>1, <3>2
  <2>4. Bills(u, n)
    BY <2>1 DEF Bills
  <2>5. CASE lost
    <3>1. c = b /\ k1 = k + 1
      BY <2>5
    <3> HIDE DEF S, k1
    <3>2. /\ Len(c) <= Cardinality(TurnsOf(S)) /\ Cardinality(TurnsOf(S)) <= Len(c) + k1
          /\ k1 # 0
      <4> DEFINE x == Cardinality(TurnsOf(R))
                 y == Cardinality(TurnsOf(S))
      <4>1. x \in Nat /\ y = x + 1 /\ Len(b) <= x /\ x <= Len(b) + k /\ Len(b) \in Nat
        BY <1>3, <1>4, <2>3
      <4> HIDE DEF x, y
      <4>2. Len(b) <= y /\ y <= Len(b) + (k + 1) /\ k + 1 # 0
        BY <4>1
      <4>3. QED
        BY <3>1, <4>2 DEF x, y
    <3>3. \A i \in DOMAIN c : \E m \in TurnsOf(S) : Bills(c[i], m)
      BY <1>4, <2>2, <3>1
    <3>4. Billed(S, c, k1)
      BY <3>2, <3>3 DEF Billed
    <3>5. QED
      BY <3>1, <3>4 DEF S, k1
  <2>6. CASE ~lost
    <3>1. c = b \o <<u>>
      BY <2>1, <2>6
    <3>2. k1 = k
      BY <2>6
    <3>3. /\ c \in Seq(UsageRows) /\ Len(c) = Len(b) + 1 /\ DOMAIN c = 1 .. Len(b) + 1
          /\ \A i \in 1 .. Len(b) : c[i] = b[i]
          /\ c[Len(b) + 1] = u
      <4>1. Joined(UsageRows, b, u, c)
        BY <3>1, JoinsOne
      <4>2. QED
        BY <4>1, Zenon DEF Joined
    <3> HIDE DEF S, k1
    <3>4. Len(c) <= Cardinality(TurnsOf(S)) /\ Cardinality(TurnsOf(S)) <= Len(c) + k1
      BY <1>3, <1>4, <2>3, <3>2, <3>3
    <3>5. ASSUME NEW i \in DOMAIN c PROVE \E m \in TurnsOf(S) : Bills(c[i], m)
      <4>1. CASE i = Len(b) + 1
        BY <2>2, <2>4, <3>3, <4>1
      <4>2. CASE i # Len(b) + 1
        <5>1. i \in 1 .. Len(b)
          BY <1>3, <3>3, <4>2
        <5>2. QED
          BY <1>3, <1>4, <2>2, <3>3, <5>1
      <4>3. QED
        BY <4>1, <4>2
    <3>6. ASSUME k1 = 0, NEW m \in TurnsOf(S) PROVE Bills(c[Nth(TurnsOf(S), m)], m)
      <4>1. Len(b) = Cardinality(TurnsOf(R))
        BY <1>3, <1>4, <3>2, <3>6
      <4>2. CASE m = n
        BY <2>3, <2>4, <3>3, <4>1, <4>2
      <4>3. CASE m # n
        <5>1. m \in TurnsOf(R)
          BY <2>2, <4>3
        <5>2. Nth(TurnsOf(R), m) \in 1 .. Len(b)
          BY <1>2, <4>1, <5>1, NthRange
        <5>3. QED
          BY <1>4, <2>3, <3>2, <3>3, <3>6, <5>1, <5>2
      <4>4. QED
        BY <4>2, <4>3
    <3>7. Billed(S, c, k1)
      BY <3>4, <3>5, <3>6 DEF Billed
    <3>8. QED
      BY <3>3, <3>7 DEF S, k1
  <2>7. QED
    BY <2>5, <2>6
<1>8. QED
  BY <1>6, <1>7

\* A line that is taken: what is listed and billed is so with it.
LEMMA TakesIs ==
  ASSUME RowsAreRows, NEW n \in DOMAIN rows, NEW s, IsView(s), NEW lost
  PROVE  LET z == Takes(s, n, lost)
             e == Emit(s, Event(n))
         IN /\ z.pending = e.pending /\ z.seq = e.seq /\ z.feed = e.feed
            /\ z.usage = IF n \in lost THEN s.usage ELSE s.usage \o ParseUsage(flavor, rows[n].row)
            /\ z.usage \in Seq(UsageRows)
            /\ IsView(z)
<1> DEFINE z == Takes(s, n, lost)
           e == Emit(s, Event(n))
           b == IF n \in lost THEN s.usage ELSE s.usage \o ParseUsage(flavor, rows[n].row)
<1>1. IsView(e) /\ e.usage = s.usage
  BY EmitShapes
<1>2. e \in Views /\ s.usage \in Seq(UsageRows)
  BY <1>1 DEF IsView, Views
<1>3. z = [e EXCEPT !.usage = b]
  BY <1>1 DEF Takes, Event
<1>4. b \in Seq(UsageRows)
  <2>1. rows[n].row.tokens \in {NoTokens, Turn}
    BY RowFields
  <2>2. CASE rows[n].row.tokens = NoTokens
    <3>1. ParseUsage(flavor, rows[n].row) = <<>>
      BY <2>1, <2>2, UsageIs
    <3>2. s.usage \o <<>> = s.usage
      BY <1>2, JoinsNone
    <3>3. QED
      BY <1>2, <3>1, <3>2
  <2>3. CASE rows[n].row.tokens # NoTokens
    <3>1. PICK u \in UsageRows : ParseUsage(flavor, rows[n].row) = <<u>>
      BY <2>1, <2>3, UsageIs
    <3>2. s.usage \o <<u>> \in Seq(UsageRows)
      BY <1>2, JoinsOne DEF Joined
    <3>3. QED
      BY <1>2, <3>1, <3>2
  <2>4. QED
    BY <2>2, <2>3
<1> HIDE DEF b, e, z
<1>5. z.usage = b /\ z.pending = e.pending /\ z.seq = e.seq /\ z.feed = e.feed /\ z \in Views
  BY <1>2, <1>3, <1>4 DEF Views
<1>6. IsView(z)
  BY <1>1, <1>5 DEF IsView
<1>7. QED
  BY <1>4, <1>5, <1>6 DEF b, e, z

LEMMA TakesLists ==
  ASSUME NEW R, SomeRows(R), RowsAreRows, NEW n \in DOMAIN rows, \A m \in R : m < n,
         NEW s, IsView(s), Listed(R, s), NEW k \in Nat, Billed(R, s.usage, k), NEW lost
  PROVE  LET z == Takes(s, n, lost)
         IN Listed(R \cup {n}, z) /\ Billed(R \cup {n}, z.usage, IF n \in lost THEN k + 1 ELSE k)
<1> DEFINE z == Takes(s, n, lost)
           e == Emit(s, Event(n))
           d == n \in lost
<1>1. /\ z.pending = e.pending /\ z.seq = e.seq /\ z.feed = e.feed
      /\ z.usage = IF d THEN s.usage ELSE s.usage \o ParseUsage(flavor, rows[n].row)
  BY TakesIs
<1>2. Listed(R \cup {n}, e)
  BY EmitLists
<1>3. s.usage \in Seq(UsageRows)
  BY DEF IsView, Views
<1>4. d \in BOOLEAN
  OBVIOUS
<1> HIDE DEF z, e, d
<1>5. Listed(R \cup {n}, z)
  BY <1>1, <1>2 DEF Listed
<1>6. Billed(R \cup {n}, z.usage, IF d THEN k + 1 ELSE k)
  BY <1>1, <1>3, <1>4, BillsGrow
<1>7. QED
  BY <1>5, <1>6 DEF z, d

-----------------------------------------------------------------------------
(* The lines of a buffer.                                                   *)

\* The equation the walk over a buffer solves, for a function f on its cells up to m.
Reached(buf, lost, f, i) ==
  IF i = 0 THEN View ELSE IF IsRow(buf, i) THEN Takes(f[i - 1], buf[i][1], lost) ELSE f[i - 1]
RunsOver(buf, lost, f, m) == f = [i \in 0 .. m |-> Reached(buf, lost, f, i)]

LEMMA TakesAllIs ==
  ASSUME NEW buf, NEW lost
  PROVE  TakesAll(buf, lost) = (CHOOSE f : RunsOver(buf, lost, f, Len(buf)))[Len(buf)]
  BY Zenon DEF TakesAll, RunsOver, Reached, View

\* It has a solution.
LEMMA RunExists ==
  ASSUME NEW buf, NEW lost, NEW m \in Nat
  PROVE  \E f : RunsOver(buf, lost, f, m)
<1> DEFINE T == {i \in 0 .. m : \E f : RunsOver(buf, lost, f, i)}
<1>1. 0 \in T
  <2> DEFINE f == [i \in 0 .. 0 |-> View]
  <2>1. \A i \in 0 .. 0 : Reached(buf, lost, f, i) = View
    BY DEF Reached
  <2>2. RunsOver(buf, lost, f, 0)
    BY <2>1 DEF RunsOver
  <2>3. QED
    BY <2>2
<1>2. ASSUME NEW i \in 0 .. m - 1, i \in T PROVE i + 1 \in T
  <2>1. PICK f : RunsOver(buf, lost, f, i)
    BY <1>2
  <2>2. i \in Nat /\ i + 1 \in 0 .. m
    BY <1>2
  <2>3. f = [j \in 0 .. i |-> Reached(buf, lost, f, j)]
    BY <2>1 DEF RunsOver
  <2> DEFINE g == [j \in 0 .. i + 1 |-> IF j <= i THEN f[j] ELSE Reached(buf, lost, f, i + 1)]
  <2>4. \A j \in 0 .. i : g[j] = f[j]
    BY <2>2
  <2>5. g[i + 1] = Reached(buf, lost, f, i + 1)
    BY <2>2
  <2>6. \A j \in 0 .. i + 1 : j # 0 => j - 1 \in 0 .. i
    BY <2>2
  <2>7. \A j \in 0 .. i + 1 : Reached(buf, lost, g, j) = Reached(buf, lost, f, j)
    <3>1. \A j \in 0 .. i + 1 : j # 0 => g[j - 1] = f[j - 1]
      BY <2>4, <2>6
    <3> HIDE DEF g
    <3>2. QED
      BY <3>1 DEF Reached
  <2>8. \A j \in 0 .. i : f[j] = Reached(buf, lost, f, j)
    BY <2>3
  <2>9. \A j \in 0 .. i + 1 : j \in 0 .. i \/ j = i + 1
    BY <2>2
  <2>10. \A j \in 0 .. i + 1 : g[j] = Reached(buf, lost, g, j)
    <3> HIDE DEF g
    <3>1. QED
      BY <2>4, <2>5, <2>7, <2>8, <2>9
  <2>11. g = [j \in 0 .. i + 1 |-> g[j]]
    OBVIOUS
  <2> HIDE DEF g
  <2>12. g = [j \in 0 .. i + 1 |-> Reached(buf, lost, g, j)]
    BY <2>10, <2>11
  <2>13. QED
    BY <2>2, <2>12 DEF RunsOver
<1>3. T = 0 .. m
  <2> HIDE DEF T
  <2>1. T \in SUBSET (0 .. m)
    BY DEF T
  <2>2. QED
    BY <1>1, <1>2, <2>1, UpTo
<1>4. QED
  BY <1>3

\* What is taken of a buffer is what some such function ends in.
LEMMA TakesAllRuns ==
  ASSUME NEW buf, NEW lost, Len(buf) \in Nat
  PROVE  \E f : /\ TakesAll(buf, lost) = f[Len(buf)]
                /\ f[0] = View
                /\ \A i \in 1 .. Len(buf) :
                     f[i] = IF IsRow(buf, i) THEN Takes(f[i - 1], buf[i][1], lost) ELSE f[i - 1]
<1> DEFINE f == CHOOSE g : RunsOver(buf, lost, g, Len(buf))
<1>1. RunsOver(buf, lost, f, Len(buf))
  BY RunExists
<1>2. TakesAll(buf, lost) = f[Len(buf)]
  BY TakesAllIs
<1> HIDE DEF f
<1>3. \A i \in 0 .. Len(buf) : f[i] = Reached(buf, lost, f, i)
  BY <1>1 DEF RunsOver
<1>4. f[0] = View
  BY <1>3 DEF Reached
<1>5. \A i \in 1 .. Len(buf) : f[i] = IF IsRow(buf, i) THEN Takes(f[i - 1], buf[i][1], lost) ELSE f[i - 1]
  BY <1>3 DEF Reached
<1>6. QED
  BY <1>2, <1>4, <1>5

\* Whatever is in a buffer, its cells being of rows, what is taken is well formed.
LEMMA TakesAllShapes ==
  ASSUME RowsAreRows, IsView(View), NEW buf \in Seq(Cells), NEW lost
  PROVE  IsView(TakesAll(buf, lost))
<1>1. Len(buf) \in Nat /\ \A i \in 1 .. Len(buf) : buf[i] \in Cells
  BY SeqSpans
<1>2. \A c \in Cells : c[1] \in DOMAIN rows
  <2>1. DOMAIN rows = 1 .. Len(rows)
    BY SeqSpans DEF RowsAreRows
  <2>2. QED
    BY <2>1 DEF Cells
<1>3. PICK f : /\ TakesAll(buf, lost) = f[Len(buf)] /\ f[0] = View
               /\ \A i \in 1 .. Len(buf) :
                    f[i] = IF IsRow(buf, i) THEN Takes(f[i - 1], buf[i][1], lost) ELSE f[i - 1]
  BY <1>1, TakesAllRuns
<1> DEFINE T == {i \in 0 .. Len(buf) : IsView(f[i])}
<1>4. 0 \in T
  BY <1>1, <1>3
<1>5. ASSUME NEW i \in 0 .. Len(buf) - 1, i \in T PROVE i + 1 \in T
  <2>1. i + 1 \in 1 .. Len(buf) /\ i + 1 \in 0 .. Len(buf) /\ i + 1 - 1 = i
    BY <1>1, <1>5
  <2>2. f[i + 1] = IF IsRow(buf, i + 1) THEN Takes(f[i], buf[i + 1][1], lost) ELSE f[i]
    BY <1>3, <2>1
  <2>3. IsView(f[i]) /\ buf[i + 1][1] \in DOMAIN rows
    BY <1>1, <1>2, <1>5, <2>1
  <2>4. IsView(Takes(f[i], buf[i + 1][1], lost))
    BY <2>3, TakesIs
  <2>5. IsView(f[i + 1])
    BY <2>2, <2>3, <2>4
  <2>6. QED
    BY <2>1, <2>5
<1>6. T = 0 .. Len(buf)
  <2> HIDE DEF T
  <2>1. T \in SUBSET (0 .. Len(buf))
    BY DEF T
  <2>2. QED
    BY <1>1, <1>4, <1>5, <2>1, UpTo
<1>7. Len(buf) \in 0 .. Len(buf)
  BY <1>1
<1>8. QED
  BY <1>3, <1>6, <1>7

-----------------------------------------------------------------------------
(* A file that only grew.                                                   *)

Before(c, d) == c[1] < d[1] \/ (c[1] = d[1] /\ c[2] < d[2])

\* The cells before the i-th are those of its row, after the newline of another.
RowStartsBy(i) ==
  /\ file[i][2] \in 1 .. Width(file[i][1]) /\ file[i][2] <= i
  /\ \A k \in 1 .. file[i][2] : file[i - file[i][2] + k] = Cell(file[i][1], k)
  /\ file[i][2] = 1 /\ i > 1 => EndsRow(file[i - 1])

\* Its rows are whole and in order, and it ends in the last one.
FileIsWhole ==
  /\ \A i \in 1 .. Len(file) : RowStartsBy(i)
  /\ \A i, j \in 1 .. Len(file) : i < j => Before(file[i], file[j])
  /\ rows = <<>> <=> file = <<>>
  /\ file # <<>> => file[Len(file)][1] = Len(rows)

\* Past the x-th cell, a row that is looked at is in the file from its first cell on.
StartsClean(x) == x = 0 \/ EndsRow(file[x]) \/ file[x][2] > MaxLine

\* The partial line is what the file has before the offset.
PartialIsRest ==
  LET at == st.offset - Len(st.partial)
  IN /\ Len(st.partial) <= st.offset /\ st.offset <= Len(file)
     /\ \A j \in 1 .. Len(st.partial) : st.partial[j] = file[at + j] /\ ~EndsRow(st.partial[j])
     /\ StartsClean(at)

\* The rows that are looked at, and are complete in the first x cells.
Whole(x) == {n \in DOMAIN rows : Width(n) <= MaxLine /\ \E i \in 1 .. x : file[i] = Cell(n, Width(n))}

LEMMA CellFields ==
  ASSUME RowsAreRows, file \in Seq(Cells)
  PROVE  /\ Len(file) \in Nat /\ DOMAIN file = 1 .. Len(file) /\ DOMAIN rows = 1 .. Len(rows) /\ Len(rows) \in Nat
         /\ \A i \in 1 .. Len(file) :
              /\ file[i] \in Cells /\ file[i] = <<file[i][1], file[i][2]>>
              /\ file[i][1] \in DOMAIN rows /\ file[i][1] \in Nat /\ file[i][2] \in Nat
              /\ Width(file[i][1]) \in Nat
<1>1. /\ Len(file) \in Nat /\ DOMAIN file = 1 .. Len(file) /\ DOMAIN rows = 1 .. Len(rows) /\ Len(rows) \in Nat
      /\ \A i \in 1 .. Len(file) : file[i] \in Cells
  BY SeqSpans DEF RowsAreRows
<1>2. ASSUME NEW c \in Cells
      PROVE  /\ c = <<c[1], c[2]>> /\ c[1] \in DOMAIN rows /\ c[1] \in Nat /\ c[2] \in Nat
             /\ Width(c[1]) \in Nat
  <2>1. c = <<c[1], c[2]>> /\ c[1] \in 1 .. Len(rows) /\ c[2] \in Nat
    BY DEF Cells
  <2>2. c[1] \in DOMAIN rows
    BY <1>1, <2>1
  <2>3. QED
    BY <2>1, <2>2, RowFields
<1>3. QED
  BY <1>1, <1>2

LEMMA WholeIsSome ==
  ASSUME RowsAreRows, NEW x
  PROVE  SomeRows(Whole(x))
<1>1. DOMAIN rows = 1 .. Len(rows) /\ Len(rows) \in Nat
  BY SeqSpans DEF RowsAreRows
<1>2. Whole(x) \subseteq 1 .. Len(rows)
  BY <1>1 DEF Whole
<1>3. IsFiniteSet(1 .. Len(rows))
  BY <1>1, FS_Interval
<1>4. IsFiniteSet(Whole(x))
  BY <1>2, <1>3, FS_Subset
<1>5. QED
  BY <1>1, <1>2, <1>4 DEF SomeRows

\* A cell more completes its row, if it is a newline, and no other.
LEMMA WholeGrows ==
  ASSUME RowsAreRows, file \in Seq(Cells), FileIsWhole, NEW y \in Nat, y + 1 <= Len(file)
  PROVE  LET c == file[y + 1]
         IN IF EndsRow(c) /\ Width(c[1]) <= MaxLine
            THEN Whole(y + 1) = Whole(y) \cup {c[1]} /\ \A m \in Whole(y) : m < c[1]
            ELSE Whole(y + 1) = Whole(y)
<1> DEFINE c == file[y + 1]
           ends == EndsRow(c) /\ Width(c[1]) <= MaxLine
<1>1. /\ y + 1 \in 1 .. Len(file) /\ Len(file) \in Nat
      /\ \A i \in 1 .. y : i \in 1 .. Len(file) /\ i \in 1 .. y + 1 /\ i < y + 1
      /\ \A i \in 1 .. y + 1 : i \in 1 .. y \/ i = y + 1
      /\ y + 1 \in 1 .. y + 1
  BY CellFields
<1>2. c = <<c[1], c[2]>> /\ c[1] \in DOMAIN rows /\ c[1] \in Nat /\ c[2] \in Nat
  BY <1>1, CellFields
<1>3. EndsRow(c) <=> c[2] = Width(c[1])
  BY DEF EndsRow
<1>4. \A n \in DOMAIN rows : c = Cell(n, Width(n)) <=> n = c[1] /\ EndsRow(c)
  BY <1>2, <1>3 DEF Cell
<1>5. ASSUME NEW n \in DOMAIN rows
      PROVE  n \in Whole(y + 1) <=> n \in Whole(y) \/ (ends /\ n = c[1])
  <2>1. (\E i \in 1 .. y + 1 : file[i] = Cell(n, Width(n)))
        <=> (\E i \in 1 .. y : file[i] = Cell(n, Width(n))) \/ c = Cell(n, Width(n))
    BY <1>1
  <2>2. c = Cell(n, Width(n)) <=> n = c[1] /\ EndsRow(c)
    BY <1>4
  <2> HIDE DEF c
  <2>3. QED
    BY <2>1, <2>2 DEF Whole
<1>6. \A x : Whole(x) \subseteq DOMAIN rows
  BY DEF Whole
<1>7. CASE ends
  <2>1. Whole(y + 1) = Whole(y) \cup {c[1]}
    <3> HIDE DEF c
    <3>1. QED
      BY <1>2, <1>5, <1>6, <1>7
  <2>2. ASSUME NEW m \in Whole(y) PROVE m < c[1]
    <3>1. m \in DOMAIN rows /\ Width(m) \in Nat /\ m \in Nat
      BY RowFields DEF Whole
    <3>2. PICK i \in 1 .. y : file[i] = Cell(m, Width(m))
      BY <2>2 DEF Whole
    <3>3. Before(file[i], c)
      BY <1>1 DEF FileIsWhole
    <3>4. file[i][1] = m /\ file[i][2] = Width(m)
      BY <3>2 DEF Cell
    <3>5. m < c[1] \/ (m = c[1] /\ Width(m) < c[2])
      BY <3>3, <3>4 DEF Before
    <3>6. m = c[1] => c[2] = Width(m)
      BY <1>3, <1>7
    <3> HIDE DEF c
    <3>7. QED
      BY <3>1, <3>5, <3>6
  <2>3. QED
    BY <1>7, <2>1, <2>2
<1>8. CASE ~ends
  <2>1. Whole(y + 1) = Whole(y)
    <3> HIDE DEF c, ends
    <3>1. \A n \in DOMAIN rows : n \in Whole(y + 1) <=> n \in Whole(y)
      BY <1>5, <1>8
    <3>2. Whole(y + 1) \subseteq DOMAIN rows /\ Whole(y) \subseteq DOMAIN rows
      BY <1>6
    <3>3. QED
      BY <3>1, <3>2
  <2>2. QED
    BY <1>8, <2>1
<1>9. QED
  BY <1>7, <1>8

LEMMA PlacesOfRow ==
  ASSUME NEW x \in Nat, NEW l \in Nat, NEW i \in 1 .. l, NEW m \in Nat, x + l <= m, NEW w \in Nat, w > 0
  PROVE  /\ i < w /\ w <= x + i =>
              w - i \in 1 .. w /\ w - i < w /\ (x + i - w) + (w - i) = x /\ w - i \in Nat /\ x > 0
         /\ w <= i => \A k \in 1 .. w : (i - w) + k \in 1 .. l /\ x + ((i - w) + k) = (x + i - w) + k
         /\ i > w => /\ 1 \in 1 .. w /\ i - w \in 1 .. l
                     /\ (x + i - w) + 1 \in 1 .. m /\ (x + i - w) + 1 > 1
                     /\ ((x + i - w) + 1) - 1 = x + (i - w)
<1>1. i \in Nat /\ i > 0 /\ i <= l
  OBVIOUS
<1>2. ASSUME i < w, w <= x + i
      PROVE  w - i \in 1 .. w /\ w - i < w /\ (x + i - w) + (w - i) = x /\ w - i \in Nat /\ x > 0
  BY <1>1, <1>2
<1>3. ASSUME w <= i, NEW k \in 1 .. w
      PROVE  (i - w) + k \in 1 .. l /\ x + ((i - w) + k) = (x + i - w) + k
  BY <1>1, <1>3
<1>4. ASSUME i > w
      PROVE  /\ 1 \in 1 .. w /\ i - w \in 1 .. l
             /\ (x + i - w) + 1 \in 1 .. m /\ (x + i - w) + 1 > 1
             /\ ((x + i - w) + 1) - 1 = x + (i - w)
  BY <1>1, <1>4
<1>5. QED
  BY <1>2, <1>3, <1>4

\* In a buffer that starts clean, the newlines of the rows that are looked at are
\* the lines that are taken.
LEMMA RowsAreSeen ==
  ASSUME RowsAreRows, file \in Seq(Cells), FileIsWhole, NEW x \in Nat, StartsClean(x),
         NEW buf, Len(buf) \in Nat, x + Len(buf) <= Len(file),
         \A j \in 1 .. Len(buf) : buf[j] = file[x + j],
         NEW i \in 1 .. Len(buf)
  PROVE  IsRow(buf, i) <=> EndsRow(file[x + i]) /\ Width(file[x + i][1]) <= MaxLine
<1> DEFINE c == file[x + i]
           n == c[1]
           w == Width(n)
<1>1. buf[i] = c
  OBVIOUS
<1>2. /\ x + i \in 1 .. Len(file) /\ Len(file) \in Nat /\ i \in Nat /\ i > 0
      /\ \A j \in 1 .. Len(buf) : x + j \in 1 .. Len(file)
  BY CellFields
<1>3. n \in DOMAIN rows /\ n \in Nat /\ c[2] \in Nat /\ w \in Nat /\ w > 0
  BY <1>2, CellFields, RowFields
<1>4. EndsRow(c) <=> c[2] = w
  BY DEF EndsRow
<1>5. IsRow(buf, i) => EndsRow(c) /\ w <= MaxLine
  BY <1>1 DEF IsRow
<1>6. ASSUME EndsRow(c), w <= MaxLine PROVE IsRow(buf, i)
  <2>1. RowStartsBy(x + i)
    BY <1>2 DEF FileIsWhole
  <2>2. w <= x + i /\ \A k \in 1 .. w : file[(x + i - w) + k] = Cell(n, k)
    <3>1. PICK y : y = x + i
      OBVIOUS
    <3>2. file[y][2] <= y /\ \A k \in 1 .. file[y][2] : file[y - file[y][2] + k] = Cell(file[y][1], k)
      BY <2>1, <3>1 DEF RowStartsBy
    <3>3. file[y][2] = w /\ file[y][1] = n
      BY <1>4, <1>6, <3>1
    <3> HIDE DEF w, n
    <3>4. w <= y /\ \A k \in 1 .. w : file[(y - w) + k] = Cell(n, k)
      BY <3>2, <3>3
    <3>5. y - w = x + i - w
      <4>1. w \in Nat /\ x \in Nat /\ i \in Nat
        BY <1>2, <1>3 DEF w
      <4>2. QED
        BY <3>1, <4>1
    <3>6. QED
      BY <3>1, <3>4, <3>5
  <2>3. w <= i
    <3>1. SUFFICES ASSUME i < w PROVE FALSE
      BY <1>2, <1>3
    <3> DEFINE k == w - i
    <3>2. k \in 1 .. w /\ k < w /\ (x + i - w) + k = x /\ k \in Nat /\ x > 0
      <4>1. w <= x + i /\ i < w /\ w \in Nat /\ w > 0 /\ Len(file) \in Nat
        BY <1>2, <1>3, <2>2, <3>1
      <4> HIDE DEF w
      <4>2. QED
        BY <4>1, PlacesOfRow
    <3>3. file[x] = Cell(n, k)
      BY <2>2, <3>2
    <3> HIDE DEF k
    <3>4. file[x][1] = n /\ file[x][2] = k
      BY <3>3 DEF Cell
    <3>5. ~EndsRow(file[x]) /\ ~(file[x][2] > MaxLine)
      <4>1. k # w /\ ~(k > MaxLine)
        BY <1>3, <1>6, <3>2, TailAssumption
      <4>2. QED
        BY <3>4, <4>1 DEF EndsRow
    <3>6. QED
      BY <3>2, <3>5 DEF StartsClean
  <2>4. \A k \in 1 .. w : buf[(i - w) + k] = Cell(n, k)
    <3>1. ASSUME NEW k \in 1 .. w PROVE buf[(i - w) + k] = Cell(n, k)
      <4>1. (i - w) + k \in 1 .. Len(buf) /\ x + ((i - w) + k) = (x + i - w) + k
        <5>1. w \in Nat /\ w > 0 /\ w <= i /\ Len(file) \in Nat
          BY <1>2, <1>3, <2>3
        <5> HIDE DEF w
        <5>2. QED
          BY <5>1, PlacesOfRow
      <4>2. buf[(i - w) + k] = file[x + ((i - w) + k)]
        BY <4>1
      <4>3. QED
        BY <2>2, <4>1, <4>2
    <3>2. QED
      BY <3>1
  <2>5. ASSUME i > w PROVE EndsRow(buf[i - w])
    <3> DEFINE p == x + i - w + 1
    <3>1. /\ 1 \in 1 .. w /\ p = (x + i - w) + 1 /\ p \in 1 .. Len(file) /\ p > 1 /\ p - 1 = x + (i - w)
          /\ i - w \in 1 .. Len(buf)
      <4>1. w \in Nat /\ w > 0 /\ i > w /\ Len(file) \in Nat
        BY <1>2, <1>3, <2>5
      <4> HIDE DEF w
      <4>2. QED
        BY <4>1, PlacesOfRow
    <3>2. file[p] = Cell(n, 1)
      BY <2>2, <3>1
    <3>3. RowStartsBy(p)
      BY <3>1 DEF FileIsWhole
    <3> HIDE DEF p
    <3>4. file[p][2] = 1
      BY <3>2 DEF Cell
    <3>5. EndsRow(file[p - 1])
      BY <3>1, <3>3, <3>4 DEF RowStartsBy
    <3>6. buf[i - w] = file[x + (i - w)]
      BY <3>1
    <3>7. QED
      BY <3>1, <3>5, <3>6
  <2>6. QED
    BY <1>1, <1>6, <2>3, <2>4, <2>5 DEF IsRow
<1>7. QED
  BY <1>5, <1>6

LEMMA BilledLater ==
  ASSUME NEW R, SomeRows(R), NEW b \in Seq(UsageRows), NEW k \in Nat, NEW l \in Nat, k <= l, Billed(R, b, k)
  PROVE  Billed(R, b, l)
<1> DEFINE t == Cardinality(TurnsOf(R))
<1>1. t \in Nat /\ Len(b) \in Nat
  BY PartsAreFinite, FS_CardinalityType
<1>2. t <= Len(b) + k
  BY DEF Billed
<1> HIDE DEF t
<1>3. t <= Len(b) + l /\ (l = 0 => k = 0)
  BY <1>1, <1>2
<1>4. QED
  BY <1>3 DEF Billed, t

\* What is lost of the rows in a set, when the set gets a row.
LEMMA LossGrows ==
  ASSUME NEW R, SomeRows(R), NEW n, n \notin R, NEW lost
  PROVE  /\ Cardinality(lost \cap R) \in Nat
         /\ Cardinality(lost \cap (R \cup {n})) =
              IF n \in lost THEN Cardinality(lost \cap R) + 1 ELSE Cardinality(lost \cap R)
<1>1. IsFiniteSet(lost \cap R)
  BY FS_Subset DEF SomeRows
<1>2. CASE n \in lost
  <2>1. lost \cap (R \cup {n}) = (lost \cap R) \cup {n} /\ n \notin lost \cap R
    BY <1>2
  <2>2. QED
    BY <1>1, <1>2, <2>1, FS_AddElement, FS_CardinalityType
<1>3. CASE n \notin lost
  <2>1. lost \cap (R \cup {n}) = lost \cap R
    BY <1>3
  <2>2. QED
    BY <1>1, <1>3, <2>1, FS_CardinalityType
<1>4. QED
  BY <1>2, <1>3

\* What is taken of a buffer that starts clean is what a reader lists, and is billed,
\* of the rows it completes.
LEMMA WalkLists ==
  ASSUME RowsAreRows, file \in Seq(Cells), FileIsWhole, IsView(View), NEW x \in Nat, StartsClean(x),
         NEW buf, Len(buf) \in Nat, x + Len(buf) <= Len(file),
         \A j \in 1 .. Len(buf) : buf[j] = file[x + j],
         NEW lost, NEW k \in Nat,
         Listed(Whole(x), View), Billed(Whole(x), View.usage, k + Cardinality(lost \cap Whole(x)))
  PROVE  LET y == x + Len(buf)
             s == TakesAll(buf, lost)
         IN /\ IsView(s) /\ Listed(Whole(y), s)
            /\ Billed(Whole(y), s.usage, k + Cardinality(lost \cap Whole(y)))
<1> DEFINE Done(i, s) ==
             /\ IsView(s) /\ Listed(Whole(x + i), s)
             /\ Billed(Whole(x + i), s.usage, k + Cardinality(lost \cap Whole(x + i)))
<1>1. PICK f : /\ TakesAll(buf, lost) = f[Len(buf)] /\ f[0] = View
               /\ \A i \in 1 .. Len(buf) :
                    f[i] = IF IsRow(buf, i) THEN Takes(f[i - 1], buf[i][1], lost) ELSE f[i - 1]
  BY TakesAllRuns
<1> DEFINE T == {i \in 0 .. Len(buf) : Done(i, f[i])}
<1>2. 0 \in T
  <2>1. x + 0 = x /\ 0 \in 0 .. Len(buf)
    OBVIOUS
  <2>2. Done(0, f[0])
    BY <1>1, <2>1
  <2>3. QED
    BY <2>1, <2>2
<1>3. ASSUME NEW i \in 0 .. Len(buf) - 1, i \in T PROVE i + 1 \in T
  <2>1. /\ i \in Nat /\ i + 1 \in 1 .. Len(buf) /\ i + 1 \in 0 .. Len(buf) /\ (i + 1) - 1 = i
        /\ x + i \in Nat /\ (x + i) + 1 <= Len(file) /\ (x + i) + 1 = x + (i + 1)
        /\ x + (i + 1) \in 1 .. Len(file)
    BY <1>3, CellFields
  <2>2. f[i + 1] = IF IsRow(buf, i + 1) THEN Takes(f[i], buf[i + 1][1], lost) ELSE f[i]
    BY <1>1, <2>1
  <2>3. Done(i, f[i])
    BY <1>3
  <2> DEFINE c == file[x + (i + 1)]
             n == c[1]
             W == Whole(x + i)
             V == Whole(x + (i + 1))
             l == k + Cardinality(lost \cap W)
  <2>4. buf[i + 1] = c /\ n \in DOMAIN rows
    BY <2>1, CellFields
  <2>5. IsRow(buf, i + 1) <=> EndsRow(c) /\ Width(n) <= MaxLine
    BY <2>1, RowsAreSeen
  <2>6. IF EndsRow(c) /\ Width(n) <= MaxLine
        THEN V = W \cup {n} /\ \A m \in W : m < n
        ELSE V = W
    BY <2>1, WholeGrows
  <2>7. SomeRows(W)
    BY WholeIsSome
  <2>8. IsView(f[i]) /\ Listed(W, f[i]) /\ Billed(W, f[i].usage, l)
    BY <2>3
  <2>9. f[i + 1] = IF IsRow(buf, i + 1) THEN Takes(f[i], n, lost) ELSE f[i]
    BY <2>2, <2>4
  <2>10. IsView(f[i + 1]) /\ Listed(V, f[i + 1]) /\ Billed(V, f[i + 1].usage, k + Cardinality(lost \cap V))
    <3> HIDE DEF Done, T, c, W, V
    <3>1. CASE IsRow(buf, i + 1)
      <4>1. V = W \cup {n} /\ \A m \in W : m < n
        BY <2>5, <2>6, <3>1
      <4>2. n \notin W /\ n \in Nat
        BY <2>4, <4>1, RowFields
      <4>3. /\ l \in Nat /\ k + Cardinality(lost \cap V) = IF n \in lost THEN l + 1 ELSE l
        <5> DEFINE a == Cardinality(lost \cap W)
                   b == Cardinality(lost \cap V)
        <5>1. a \in Nat /\ b = IF n \in lost THEN a + 1 ELSE a
          <6>1. /\ a \in Nat
                /\ Cardinality(lost \cap (W \cup {n})) = IF n \in lost THEN a + 1 ELSE a
            <7> HIDE DEF n
            <7>1. QED
              BY <2>7, <4>2, LossGrows, Zenon
          <6>2. QED
            BY <4>1, <6>1
        <5> HIDE DEF a, b
        <5>2. k + a \in Nat /\ k + b = IF n \in lost THEN (k + a) + 1 ELSE k + a
          BY <5>1
        <5>3. QED
          BY <5>2 DEF a, b
      <4>4. f[i + 1] = Takes(f[i], n, lost)
        BY <2>9, <3>1
      <4> HIDE DEF n, l
      <4>5. Listed(V, f[i + 1]) /\ Billed(V, f[i + 1].usage, IF n \in lost THEN l + 1 ELSE l)
        <5>1. /\ Listed(W \cup {n}, Takes(f[i], n, lost))
              /\ Billed(W \cup {n}, Takes(f[i], n, lost).usage, IF n \in lost THEN l + 1 ELSE l)
          BY <2>4, <2>7, <2>8, <4>1, <4>3, TakesLists
        <5>2. QED
          BY <4>1, <4>4, <5>1
      <4>6. IsView(f[i + 1])
        BY <2>4, <2>8, <4>4, TakesIs
      <4>7. QED
        BY <4>3, <4>5, <4>6
    <3>2. CASE ~IsRow(buf, i + 1)
      BY <2>5, <2>6, <2>8, <2>9, <3>2
    <3>3. QED
      BY <3>1, <3>2
  <2>11. Done(i + 1, f[i + 1])
    BY <2>10
  <2>12. QED
    BY <2>1, <2>11
<1>4. T = 0 .. Len(buf)
  <2> HIDE DEF T
  <2>1. T \in SUBSET (0 .. Len(buf))
    BY DEF T
  <2>2. QED
    BY <1>2, <1>3, <2>1, UpTo
<1>5. Len(buf) \in 0 .. Len(buf)
  OBVIOUS
<1>6. Done(Len(buf), f[Len(buf)])
  BY <1>4, <1>5
<1>7. QED
  BY <1>1, <1>6

-----------------------------------------------------------------------------
(* A poll.                                                                  *)

\* Some number of a bounded set of them is the greatest.
LEMMA GreatestNumber ==
  ASSUME NEW n \in Nat, NEW T \in SUBSET (1 .. n), T # {}
  PROVE  \E x \in T : \A y \in T : y <= x
<1> DEFINE D == {m \in Nat : \E x \in T : m = n - x}
<1>1. D \in SUBSET Nat
  OBVIOUS
<1>2. \A x \in T : x \in Nat /\ x <= n /\ n - x \in Nat
  OBVIOUS
<1>3. D # {}
  BY <1>2
<1>4. PICK m \in D : \A l \in D : ~(l < m)
  BY <1>1, <1>3, LeastNumber
<1>5. PICK x \in T : m = n - x
  BY <1>4
<1>6. ASSUME NEW y \in T PROVE y <= x
  <2>1. n - y \in D
    BY <1>2
  <2>2. ~(n - y < m)
    BY <1>4, <2>1
  <2>3. QED
    BY <1>2, <1>5, <2>2
<1>7. QED
  BY <1>5, <1>6

\* The rest of a buffer is its end from the last newline on.
LEMMA RestIs ==
  ASSUME NEW buf \in Seq(Cells)
  PROVE  LET rest == RestOf(buf)
             l == Len(buf) - Len(rest)
         IN /\ rest \in Seq(Cells) /\ Len(rest) \in Nat /\ Len(rest) <= Len(buf) /\ l \in Nat
            /\ \A j \in 1 .. Len(rest) : rest[j] = buf[l + j] /\ ~EndsRow(rest[j])
            /\ l = 0 \/ EndsRow(buf[l])
<1> DEFINE rest == RestOf(buf)
           l == Len(buf) - Len(rest)
           N == {i \in DOMAIN buf : EndsRow(buf[i])}
<1>1. Len(buf) \in Nat /\ DOMAIN buf = 1 .. Len(buf)
  BY SeqSpans
<1>2. CASE N = {}
  <2>1. rest = buf
    BY <1>2 DEF RestOf
  <2>2. \A j \in 1 .. Len(buf) : ~EndsRow(buf[j])
    BY <1>1, <1>2
  <2>3. l = 0
    BY <1>1, <2>1
  <2> HIDE DEF rest, l
  <2>4. \A j \in 1 .. Len(buf) : l + j = j
    BY <2>3
  <2>5. QED
    BY <1>1, <2>1, <2>2, <2>3, <2>4 DEF rest, l
<1>3. CASE N # {}
  <2> DEFINE top == CHOOSE i \in N : \A j \in N : j <= i
  <2>1. \E i \in N : \A j \in N : j <= i
    <3>1. N \in SUBSET (1 .. Len(buf))
      BY <1>1
    <3> HIDE DEF N
    <3>2. QED
      BY <1>1, <1>3, <3>1, GreatestNumber
  <2>2. top \in N /\ \A j \in N : j <= top
    <3> HIDE DEF N
    <3>1. QED
      BY <2>1
  <2>3. rest = SubSeq(buf, 1 + top, Len(buf))
    BY <1>3 DEF RestOf
  <2> HIDE DEF top, rest
  <2>4. top \in Nat /\ top > 0 /\ top <= Len(buf) /\ EndsRow(buf[top])
    BY <1>1, <2>2
  <2>5. /\ rest \in Seq(Cells) /\ Len(rest) = Len(buf) - top
        /\ \A j \in 1 .. Len(rest) : rest[j] = buf[top + j]
    <3>1. rest = SubSeq(buf, top + 1, Len(buf))
      BY <2>3, <2>4
    <3>2. Pieced(Cells, buf, top, Len(buf), rest)
      BY <1>1, <2>4, <3>1, PieceIs
    <3>3. QED
      BY <3>2 DEF Pieced
  <2>6. l = top
    BY <1>1, <2>4, <2>5
  <2>7. ASSUME NEW j \in 1 .. Len(rest) PROVE ~EndsRow(rest[j])
    <3>1. top + j \in 1 .. Len(buf) /\ ~(top + j <= top)
      BY <1>1, <2>4, <2>5
    <3>2. top + j \notin N
      BY <2>2, <3>1
    <3>3. QED
      BY <1>1, <2>5, <3>1, <3>2
  <2>8. Len(rest) \in Nat /\ Len(rest) <= Len(buf)
    BY <1>1, <2>4, <2>5
  <2> HIDE DEF l
  <2>9. QED
    BY <2>4, <2>5, <2>6, <2>7, <2>8 DEF l, rest
<1>4. QED
  BY <1>2, <1>3

LEMMA StFields ==
  ASSUME TailShapes
  PROVE  /\ file \in Seq(Cells) /\ Len(file) \in Nat /\ st \in StShapes
         /\ st.offset \in Nat /\ st.partial \in Seq(Cells) /\ Len(st.partial) \in Nat
         /\ st.pending \in [Tools -> Nat] /\ st.seq \in Nat
<1>1. file \in Seq(Cells) /\ st \in StShapes
  BY DEF TailShapes
<1>2. /\ st.offset \in Nat /\ st.partial \in Seq(Cells) /\ st.pending \in [Tools -> Nat] /\ st.seq \in Nat
  BY <1>1 DEF StShapes
<1>3. QED
  BY <1>1, <1>2, SeqSpans

LEMMA ViewFields ==
  ASSUME TailShapes
  PROVE  /\ RowsAreRows /\ IsView(View) /\ View.usage = usage /\ View.feed = feed
         /\ usage \in Seq(UsageRows) /\ feed \in Seq(FeedRows)
         /\ faults \in Nat /\ rotated \in Nat
<1>1. RowsAreRows /\ IsView(View) /\ faults \in 0 .. MaxFaults /\ rotated \in 0 .. MaxRotations
  BY DEF TailShapes
<1>2. View.usage \in Seq(UsageRows) /\ View.feed \in Seq(FeedRows)
  BY <1>1 DEF IsView, Views
<1>3. View.usage = usage /\ View.feed = feed
  BY DEF View
<1>4. QED
  BY <1>1, <1>2, <1>3

LEMMA PollShapes ==
  ASSUME TailShapes
  PROVE  /\ Poll(st).buf \in Seq(Cells)
         /\ Poll(st).after \in StShapes
         /\ Len(Poll(st).after.partial) <= MaxLine
         /\ Poll(st).after.pending = st.pending /\ Poll(st).after.seq = st.seq
<1> DEFINE cut == Len(file) < st.offset
           from == IF cut THEN 0 ELSE st.offset
           upto == IF Len(file) - from < MaxRead THEN Len(file) ELSE from + MaxRead
           held == IF cut THEN <<>> ELSE st.partial
           buf == held \o SubSeq(file, from + 1, upto)
           rest == RestOf(buf)
           left == IF Len(rest) > MaxLine THEN <<>> ELSE rest
<1>1. Poll(st) = [after |-> [st EXCEPT !.offset = upto, !.partial = left], buf |-> buf]
  BY DEF Poll
<1>2. /\ file \in Seq(Cells) /\ st.offset \in Nat /\ st.partial \in Seq(Cells) /\ Len(file) \in Nat
      /\ st \in StShapes
  BY StFields
<1>3. MaxRead \in Nat /\ MaxLine \in Nat
  BY TailAssumption
<1>4. from \in Nat /\ upto \in Nat /\ upto <= Len(file)
  BY <1>2, <1>3
<1>5. held \in Seq(Cells)
  BY <1>2
<1> HIDE DEF from, upto, held, cut
<1>6. SubSeq(file, from + 1, upto) \in Seq(Cells)
  BY <1>2, <1>4
<1>7. buf \in Seq(Cells)
  BY <1>5, <1>6
<1> HIDE DEF buf
<1>8. rest \in Seq(Cells) /\ Len(rest) \in Nat
  BY <1>7, RestIs
<1> HIDE DEF rest
<1>9. left \in Seq(Cells) /\ Len(left) <= MaxLine
  BY <1>3, <1>8
<1> HIDE DEF left
<1> DEFINE t == [st EXCEPT !.offset = upto, !.partial = left]
<1>10. t \in StShapes /\ t.partial = left /\ t.pending = st.pending /\ t.seq = st.seq
  BY <1>2, <1>4, <1>9 DEF StShapes
<1> HIDE DEF t
<1>11. Poll(st).after = t /\ Poll(st).buf = buf
  BY <1>1 DEF t
<1>12. QED
  BY <1>7, <1>9, <1>10, <1>11

LEMMA PlaceBefore ==
  ASSUME NEW u \in Nat, NEW r \in Nat, NEW k \in Nat, NEW z \in Nat, NEW n \in Nat,
         k >= 1, k < r, z + r = u, u <= n
  PROVE  /\ 1 \in 1 .. k /\ (u - k) + 1 \in 1 .. n /\ (u - k) + 1 > 1 /\ ((u - k) + 1) - 1 = u - k
         /\ u - k \in Nat /\ (u - k) - z \in 1 .. r /\ z + ((u - k) - z) = u - k
  OBVIOUS

\* Of a file that only grew, a poll sees what follows the partial line, and keeps
\* what has no newline yet.
LEMMA PollSees ==
  ASSUME TailShapes, FileIsWhole, PartialIsRest
  PROVE  LET p == Poll(st)
             x == st.offset - Len(st.partial)
             b == Len(p.after.partial)
         IN /\ x \in Nat /\ StartsClean(x)
            /\ Len(p.buf) \in Nat /\ x + Len(p.buf) = p.after.offset /\ p.after.offset <= Len(file)
            /\ \A j \in 1 .. Len(p.buf) : p.buf[j] = file[x + j]
            /\ b <= p.after.offset
            /\ \A j \in 1 .. b :
                 /\ p.after.partial[j] = file[(p.after.offset - b) + j]
                 /\ ~EndsRow(p.after.partial[j])
            /\ StartsClean(p.after.offset - b)
<1> DEFINE from == st.offset
           upto == IF Len(file) - from < MaxRead THEN Len(file) ELSE from + MaxRead
           buf == st.partial \o SubSeq(file, from + 1, upto)
           rest == RestOf(buf)
           left == IF Len(rest) > MaxLine THEN <<>> ELSE rest
           x == from - Len(st.partial)
<1>1. /\ file \in Seq(Cells) /\ from \in Nat /\ st.partial \in Seq(Cells) /\ Len(file) \in Nat
      /\ st \in StShapes /\ Len(st.partial) \in Nat
  BY StFields
<1>2. /\ Len(st.partial) <= from /\ from <= Len(file) /\ StartsClean(x)
      /\ \A j \in 1 .. Len(st.partial) : st.partial[j] = file[x + j] /\ ~EndsRow(st.partial[j])
  BY DEF PartialIsRest
<1>3. Poll(st) = [after |-> [st EXCEPT !.offset = upto, !.partial = left], buf |-> buf]
  <2>1. ~(Len(file) < st.offset)
    BY <1>1, <1>2
  <2>2. QED
    BY <2>1, Zenon DEF Poll
<1>4. MaxRead \in Nat /\ MaxLine \in Nat
  BY TailAssumption
<1>5. upto \in Nat /\ from <= upto /\ upto <= Len(file) /\ x \in Nat
  BY <1>1, <1>2, <1>4
<1> HIDE DEF from, upto
<1>6. /\ buf \in Seq(Cells) /\ Len(buf) = Len(st.partial) + (upto - from) /\ Len(buf) \in Nat
      /\ \A j \in 1 .. Len(st.partial) : buf[j] = st.partial[j]
      /\ \A j \in 1 .. Len(buf) : j > Len(st.partial) => buf[j] = file[from + (j - Len(st.partial))]
  <2> DEFINE new == SubSeq(file, from + 1, upto)
             h == Len(st.partial)
  <2>1. Pieced(Cells, file, from, upto, new)
    BY <1>1, <1>5, PieceIs
  <2> HIDE DEF new
  <2>2. /\ new \in Seq(Cells) /\ Len(new) = upto - from
        /\ \A j \in 1 .. upto - from : new[j] = file[from + j]
    BY <2>1 DEF Pieced
  <2>3. buf = st.partial \o new
    BY DEF new
  <2>4. JoinedWith(Cells, st.partial, new, buf)
    BY <1>1, <2>2, <2>3, JoinIs
  <2> HIDE DEF buf
  <2>5. /\ buf \in Seq(Cells) /\ Len(buf) = h + (upto - from)
        /\ \A j \in 1 .. h : buf[j] = st.partial[j]
        /\ \A j \in 1 .. upto - from : buf[h + j] = new[j]
    BY <2>2, <2>4 DEF JoinedWith
  <2>6. h \in Nat /\ Len(buf) \in Nat
    BY <1>1, <1>5, <2>5
  <2> HIDE DEF h
  <2>7. ASSUME NEW j \in 1 .. Len(buf), j > h PROVE buf[j] = file[from + (j - h)]
    <3>1. j - h \in 1 .. upto - from /\ h + (j - h) = j
      BY <1>1, <1>5, <2>5, <2>6, <2>7
    <3>2. QED
      BY <2>2, <2>5, <3>1
  <2>8. QED
    BY <2>5, <2>6, <2>7 DEF h
<1> HIDE DEF buf
<1> DEFINE h == Len(st.partial)
           m == Len(buf)
           r == Len(rest)
           l == m - r
<1>7. /\ h \in Nat /\ m \in Nat /\ h <= from /\ m = h + (upto - from) /\ x = from - h
      /\ from \in Nat /\ upto \in Nat /\ from <= upto
  BY <1>1, <1>2, <1>5, <1>6
<1>8. ASSUME NEW j \in 1 .. m PROVE buf[j] = file[x + j]
  <2>1. /\ \A k \in 1 .. h : buf[k] = file[x + k]
        /\ j > h => buf[j] = file[from + (j - h)]
    BY <1>2, <1>6
  <2> HIDE DEF h, m, x
  <2>2. j > h => from + (j - h) = x + j
    BY <1>7
  <2>3. ~(j > h) => j \in 1 .. h
    BY <1>7
  <2>4. QED
    BY <2>1, <2>2, <2>3
<1>9. /\ rest \in Seq(Cells) /\ r \in Nat /\ r <= m /\ l \in Nat
      /\ \A j \in 1 .. r : rest[j] = buf[l + j] /\ ~EndsRow(rest[j])
      /\ l = 0 \/ EndsRow(buf[l])
  BY <1>6, RestIs
<1> HIDE DEF rest, h, m, r, x
<1>10. /\ x + m = upto /\ upto - r = x + l /\ x + l \in Nat /\ r <= upto /\ l + r = m
  BY <1>7, <1>9
<1>11. \A j \in 1 .. r : l + j \in 1 .. m /\ x + (l + j) = (x + l) + j
  BY <1>5, <1>7, <1>9, <1>10
<1>12. l # 0 => l \in 1 .. m
  BY <1>7, <1>9
<1> HIDE DEF l
<1>13. \A j \in 1 .. r : rest[j] = file[(x + l) + j]
  BY <1>8, <1>9, <1>11
<1>14. StartsClean(x + l)
  <2>1. CASE l = 0
    BY <1>2, <1>5, <2>1 DEF x
  <2>2. CASE l # 0
    BY <1>8, <1>9, <1>12, <2>2 DEF StartsClean
  <2>3. QED
    BY <2>1, <2>2
<1>15. /\ Len(left) \in Nat /\ Len(left) <= upto
       /\ \A j \in 1 .. Len(left) : left[j] = file[(upto - Len(left)) + j] /\ ~EndsRow(left[j])
       /\ StartsClean(upto - Len(left))
  <2>1. CASE r <= MaxLine
    <3>1. left = rest /\ Len(left) = r
      BY <1>4, <1>9, <2>1 DEF r
    <3> HIDE DEF left
    <3>2. QED
      BY <1>9, <1>10, <1>13, <1>14, <3>1
  <2>2. CASE r > MaxLine
    <3>1. left = <<>> /\ Len(left) = 0 /\ upto - Len(left) = upto
      BY <1>4, <1>5, <1>9, <2>2 DEF r
    <3>2. file[upto][2] > MaxLine
      <4>1. upto \in 1 .. Len(file) /\ upto > 0 /\ r > 0
        BY <1>1, <1>4, <1>5, <1>9, <1>10, <2>2
      <4>2. file[upto][2] \in Nat /\ RowStartsBy(upto)
        BY <1>1, <4>1, CellFields DEF TailShapes, FileIsWhole
      <4> DEFINE k == file[upto][2]
                 q == upto - k
      <4>3. SUFFICES ASSUME k <= MaxLine PROVE FALSE
        BY <1>4, <4>2
      <4>4. /\ k >= 1 /\ k <= upto
            /\ \A j \in 1 .. k : file[(upto - k) + j] = Cell(file[upto][1], j)
        BY <4>2 DEF RowStartsBy
      <4>5. k \in Nat
        BY <4>2
      <4> HIDE DEF k
      <4>6. /\ 1 \in 1 .. k /\ q + 1 \in 1 .. Len(file) /\ q + 1 > 1 /\ (q + 1) - 1 = q /\ q \in Nat
            /\ q - (x + l) \in 1 .. r /\ (x + l) + (q - (x + l)) = q
        <5>1. PICK z : z = x + l
          OBVIOUS
        <5>2. MaxLine \in Nat /\ r \in Nat /\ upto \in Nat /\ Len(file) \in Nat /\ upto <= Len(file) /\ z \in Nat
          BY <1>1, <1>4, <1>5, <1>9, <1>10, <5>1
        <5>3. upto - r = z /\ r > MaxLine /\ k <= MaxLine /\ k >= 1
          BY <1>10, <2>2, <4>3, <4>4, <5>1
        <5>4. k < r /\ z + r = upto
          BY <4>5, <5>2, <5>3
        <5>5. /\ 1 \in 1 .. k /\ (upto - k) + 1 \in 1 .. Len(file) /\ (upto - k) + 1 > 1
              /\ ((upto - k) + 1) - 1 = upto - k /\ upto - k \in Nat
              /\ (upto - k) - z \in 1 .. r /\ z + ((upto - k) - z) = upto - k
          BY <4>5, <5>2, <5>3, <5>4, PlaceBefore
        <5>6. QED
          BY <5>1, <5>5
      <4>7. file[q + 1] = Cell(file[upto][1], 1)
        BY <4>4, <4>6
      <4>8. file[q + 1][2] = 1
        BY <4>7 DEF Cell
      <4>9. RowStartsBy(q + 1)
        BY <4>6 DEF FileIsWhole
      <4> HIDE DEF q
      <4>10. EndsRow(file[q])
        BY <4>6, <4>8, <4>9 DEF RowStartsBy
      <4>11. rest[q - (x + l)] = file[q] /\ ~EndsRow(rest[q - (x + l)])
        BY <1>9, <1>13, <4>6
      <4>12. QED
        BY <4>10, <4>11
    <3>3. StartsClean(upto)
      BY <3>2 DEF StartsClean
    <3> HIDE DEF left
    <3>4. QED
      BY <1>5, <3>1, <3>3
  <2>3. QED
    BY <1>4, <1>9, <2>1, <2>2
<1> HIDE DEF left
<1>16. Poll(st).buf = buf /\ Poll(st).after.offset = upto /\ Poll(st).after.partial = left
  <2> DEFINE t == [st EXCEPT !.offset = upto, !.partial = left]
  <2>1. t.offset = upto /\ t.partial = left
    BY <1>1 DEF StShapes
  <2> HIDE DEF t
  <2>2. Poll(st).after = t /\ Poll(st).buf = buf
    BY <1>3 DEF t
  <2>3. QED
    BY <2>1, <2>2
<1>17. x \in Nat /\ StartsClean(x) /\ x = st.offset - Len(st.partial)
  BY <1>2, <1>5 DEF x, from
<1>18. Len(buf) \in Nat /\ x + Len(buf) = upto /\ \A j \in 1 .. Len(buf) : buf[j] = file[x + j]
  BY <1>7, <1>8, <1>10 DEF m
<1>19. QED
  BY <1>5, <1>15, <1>16, <1>17, <1>18

-----------------------------------------------------------------------------
(* The invariant.                                                           *)

Grown ==
  /\ FileIsWhole /\ PartialIsRest
  /\ Listed(ReadRows, View) /\ Billed(ReadRows, usage, faults)

\* The inductive invariant.
TailInv == TailShapes /\ (rotated = 0 => Grown)

\* Rows that stay what they were are listed, and billed, as they were.
LEMMA ListedStays ==
  ASSUME NEW R, NEW s, Listed(R, s), ReadRows' = R, View' = s, flavor' = flavor, \A n \in R : rows'[n] = rows[n]
  PROVE  Listed(ReadRows, View)'
<1>1. \A n \in R : Event(n)' = Event(n)
  BY DEF Event
<1>2. StepsOf(ReadRows)' = StepsOf(R)
  <2>1. StepsOf(ReadRows)' = {n \in R : Event(n)'.op \in {"think", "call"}}
    BY DEF StepsOf
  <2>2. QED
    BY <1>1, <2>1 DEF StepsOf
<1>3. ASSUME NEW t PROVE OpenOf(ReadRows, t)' = OpenOf(R, t)
  <2>1. OpenOf(ReadRows, t)' =
          {c \in R : /\ Event(c)'.op = "call" /\ Event(c)'.id = t
                     /\ \A m \in R : c < m /\ Event(m)'.op \in {"call", "result"} => Event(m)'.id # t}
    BY DEF OpenOf
  <2>2. QED
    BY <1>1, <2>1 DEF OpenOf
<1>4. ASSUME NEW n \in R PROVE CallsFor(ReadRows, n)' = CallsFor(R, n)
  <2>1. CallsFor(ReadRows, n)' =
          {c \in R : /\ c < n /\ Event(c)'.op = "call" /\ Event(c)'.id = Event(n)'.id
                     /\ \A m \in R : c < m /\ m < n /\ Event(m)'.op \in {"call", "result"}
                                      => Event(m)'.id # Event(n)'.id}
    BY DEF CallsFor
  <2>2. QED
    BY <1>1, <2>1 DEF CallsFor
<1>5. ShownOf(ReadRows)' = ShownOf(R)
  <2>1. ShownOf(ReadRows)' =
          StepsOf(ReadRows)' \cup {n \in R : Event(n)'.op = "result" /\ CallsFor(ReadRows, n)' # {}}
    BY DEF ShownOf
  <2>2. QED
    BY <1>1, <1>2, <1>4, <2>1 DEF ShownOf
<1>6. ASSUME NEW n \in R PROVE NumberOf(ReadRows, n)' = NumberOf(R, n)
  <2>1. CallOf(ReadRows, n)' = CHOOSE c \in CallsFor(ReadRows, n)' : TRUE
    BY Zenon DEF CallOf
  <2>2. CallOf(ReadRows, n)' = CallOf(R, n)
    BY <1>4, <2>1 DEF CallOf
  <2>3. NumberOf(ReadRows, n)' = Nth(StepsOf(ReadRows)', IF Event(n)'.op = "result" THEN CallOf(ReadRows, n)' ELSE n)
    BY Zenon DEF NumberOf
  <2>4. QED
    BY <1>1, <1>2, <2>2, <2>3, Zenon DEF NumberOf
<1>7. ShownOf(R) \subseteq R
  BY DEF ShownOf, StepsOf
<1>8. FeedIs(ReadRows, View.feed)'
  <2>1. Len(s.feed) = Cardinality(ShownOf(R))
    BY DEF Listed, FeedIs
  <2>2. ASSUME NEW n \in ShownOf(R)
        PROVE  s.feed[Nth(ShownOf(R), n)] = [phase |-> Parse(flavor', Event(n)'), seq |-> NumberOf(ReadRows, n)']
    <3>1. s.feed[Nth(ShownOf(R), n)] = [phase |-> Parse(flavor, Event(n)), seq |-> NumberOf(R, n)]
      BY DEF Listed, FeedIs
    <3>2. Event(n)' = Event(n) /\ NumberOf(ReadRows, n)' = NumberOf(R, n)
      BY <1>1, <1>6, <1>7
    <3>3. QED
      BY <3>1, <3>2
  <2>3. View'.feed = s.feed
    OBVIOUS
  <2>4. QED
    BY <1>5, <2>1, <2>2, <2>3 DEF FeedIs
<1>9. QED
  BY <1>2, <1>3, <1>8 DEF Listed

LEMMA BilledStays ==
  ASSUME NEW R, NEW b, NEW k, Billed(R, b, k), ReadRows' = R, usage' = b, faults' = k, flavor' = flavor,
         \A n \in R : rows'[n] = rows[n]
  PROVE  Billed(ReadRows, usage, faults)'
<1>1. TurnsOf(ReadRows)' = TurnsOf(R)
  <2>1. TurnsOf(ReadRows)' = {n \in R : rows'[n].row.tokens # NoTokens}
    BY DEF TurnsOf, NoTokens
  <2>2. QED
    BY <2>1 DEF TurnsOf
<1>2. ASSUME NEW u, NEW n \in TurnsOf(R) PROVE Bills(u, n)' <=> Bills(u, n)
  <2>1. rows'[n] = rows[n]
    BY DEF TurnsOf
  <2>2. QED
    BY <2>1 DEF Bills
<1>3. /\ Len(b) <= Cardinality(TurnsOf(R)) /\ Cardinality(TurnsOf(R)) <= Len(b) + k
      /\ \A i \in DOMAIN b : \E n \in TurnsOf(R) : Bills(b[i], n)
      /\ k = 0 => \A n \in TurnsOf(R) : Bills(b[Nth(TurnsOf(R), n)], n)
  BY DEF Billed
<1>4. ASSUME NEW i \in DOMAIN b PROVE \E n \in TurnsOf(R) : Bills(b[i], n)'
  <2>1. PICK n \in TurnsOf(R) : Bills(b[i], n)
    BY <1>3
  <2>2. Bills(b[i], n)'
    BY <1>2, <2>1
  <2>3. QED
    BY <2>2
<1>5. ASSUME k = 0, NEW n \in TurnsOf(R), NEW u, u = b[Nth(TurnsOf(R), n)] PROVE Bills(u, n)'
  <2>1. Bills(u, n)
    BY <1>3, <1>5
  <2>2. QED
    BY <1>2, <2>1
<1>6. QED
  BY <1>1, <1>3, <1>4, <1>5 DEF Billed

\* With the file, the tailer's state and what it emitted as they are.
LEMMA GrownStays ==
  ASSUME TailShapes, Grown, flavor' = flavor, rows' = rows, file' = file, st' = st, feed' = feed, usage' = usage,
         faults' \in Nat, faults <= faults'
  PROVE  Grown'
<1>1. Width(1)' = Width(1) /\ \A n : Width(n)' = Width(n)
  BY DEF Width
<1>2. ReadRows' = ReadRows
  BY <1>1 DEF ReadRows
<1>3. View' = View
  BY DEF View
<1>4. FileIsWhole' /\ PartialIsRest'
  BY DEF Grown, FileIsWhole, PartialIsRest, RowStartsBy, StartsClean, EndsRow, Width
<1>5. ReadRows = Whole(st.offset)
  BY DEF ReadRows, Whole
<1>6. SomeRows(ReadRows)
  BY <1>5, WholeIsSome DEF TailShapes
<1>7. Listed(ReadRows, View)'
  BY <1>2, <1>3, ListedStays DEF Grown
<1>8. usage \in Seq(UsageRows) /\ faults \in Nat
  BY ViewFields
<1>9. Billed(ReadRows, usage, faults')
  BY <1>6, <1>8, BilledLater DEF Grown
<1>10. Billed(ReadRows, usage, faults)'
  BY <1>2, <1>9, BilledStays
<1>11. QED
  BY <1>4, <1>7, <1>10 DEF Grown

\* The partial line completes no row.
LEMMA RestEndsNone ==
  ASSUME TailShapes, FileIsWhole, PartialIsRest
  PROVE  Whole(st.offset - Len(st.partial)) = ReadRows
<1> DEFINE h == Len(st.partial)
           o == st.offset
           x == o - h
<1>1. h \in Nat /\ o \in Nat /\ h <= o
  BY StFields DEF PartialIsRest
<1>2. \A j \in 1 .. h : ~EndsRow(file[x + j])
  BY DEF PartialIsRest
<1>3. ReadRows = Whole(o)
  BY DEF ReadRows, Whole
<1> HIDE DEF h, o
<1>4. ASSUME NEW n \in DOMAIN rows, NEW i \in 1 .. o, file[i] = Cell(n, Width(n))
      PROVE  i \in 1 .. x
  <2>1. EndsRow(file[i])
    BY <1>4 DEF EndsRow, Cell
  <2>2. i > x => i - x \in 1 .. h /\ x + (i - x) = i
    BY <1>1
  <2>3. ~(i > x)
    BY <1>2, <2>1, <2>2
  <2>4. QED
    BY <1>1, <2>3
<1>5. \A i \in 1 .. x : i \in 1 .. o
  BY <1>1
<1>6. Whole(x) = Whole(o)
  <2> HIDE DEF x
  <2>1. QED
    BY <1>4, <1>5 DEF Whole
<1>7. QED
  BY <1>3, <1>6 DEF o, h

\* A poll and what is taken of it keep the invariant.
LEMMA ReadsKeep ==
  ASSUME TailInv, NEW isTick \in BOOLEAN, Reads(isTick), flavor' = flavor, rows' = rows, file' = file,
         rotated' = rotated
  PROVE  /\ st' \in StShapes /\ Len(st'.partial) <= MaxLine /\ IsView(View') /\ faults' \in 0 .. MaxFaults
         /\ soft' \in BOOLEAN /\ errorLatch' \in BOOLEAN
         /\ rotated = 0 => Grown'
<1> DEFINE p == Poll(st)
           seen == {p.buf[i][1] : i \in {j \in DOMAIN p.buf : IsRow(p.buf, j)}}
<1>1. TailShapes /\ (rotated = 0 => Grown)
  BY DEF TailInv
<1>2. /\ RowsAreRows /\ IsView(View) /\ View.usage = usage /\ usage \in Seq(UsageRows) /\ faults \in Nat
  BY <1>1, ViewFields
<1>3. PICK lost \in SUBSET {n \in seen : ParseUsage(flavor, rows[n].row) # <<>>} :
        /\ faults + Cardinality(lost) <= MaxFaults /\ faults' = faults + Cardinality(lost)
        /\ \E s \in {TakesAll(p.buf, lost)} :
             /\ st' = [p.after EXCEPT !.pending = s.pending, !.seq = s.seq]
             /\ feed' = s.feed /\ usage' = s.usage
  BY Zenon DEF Reads
<1> DEFINE s == TakesAll(p.buf, lost)
           c == Cardinality(lost)
<1>4. st' = [p.after EXCEPT !.pending = s.pending, !.seq = s.seq] /\ feed' = s.feed /\ usage' = s.usage
  BY <1>3
<1>5. /\ p.buf \in Seq(Cells) /\ p.after \in StShapes /\ Len(p.after.partial) <= MaxLine
  BY <1>1, PollShapes
<1>6. IsView(s)
  BY <1>2, <1>5, TakesAllShapes
<1>7. s \in Views /\ s.pending \in [Tools -> Nat] /\ s.seq \in Nat
  BY <1>6 DEF IsView, Views
<1>8. seen \subseteq DOMAIN rows
  <2>1. DOMAIN rows = 1 .. Len(rows)
    BY <1>2, SeqSpans DEF RowsAreRows
  <2>2. \A i \in DOMAIN p.buf : p.buf[i] \in Cells
    BY <1>5, SeqSpans
  <2>3. \A d \in Cells : d[1] \in DOMAIN rows
    BY <2>1 DEF Cells
  <2> HIDE DEF p
  <2>4. QED
    BY <2>2, <2>3
<1>9. IsFiniteSet(lost) /\ c \in Nat
  <2>1. DOMAIN rows = 1 .. Len(rows) /\ Len(rows) \in Nat
    BY <1>2, SeqSpans DEF RowsAreRows
  <2>2. lost \subseteq 1 .. Len(rows)
    BY <1>8, <2>1
  <2>3. IsFiniteSet(1 .. Len(rows))
    BY <2>1, FS_Interval
  <2>4. QED
    BY <2>2, <2>3, FS_Subset, FS_CardinalityType
<1> HIDE DEF p, seen, s
<1>10. faults' \in 0 .. MaxFaults /\ faults' \in Nat /\ faults' = faults + c
  <2> HIDE DEF c
  <2>1. faults + c <= MaxFaults /\ faults' = faults + c
    BY <1>3 DEF c
  <2>2. QED
    BY <1>2, <1>9, <2>1, TailAssumption
<1>11. /\ st' \in StShapes /\ st'.partial = p.after.partial /\ st'.offset = p.after.offset
       /\ st'.pending = s.pending /\ st'.seq = s.seq
  BY <1>4, <1>5, <1>7 DEF StShapes
<1>12. View' = s
  <2>1. View' = [pending |-> s.pending, seq |-> s.seq, feed |-> s.feed, usage |-> s.usage]
    BY <1>4, <1>11 DEF View
  <2>2. s = [pending |-> s.pending, seq |-> s.seq, feed |-> s.feed, usage |-> s.usage]
    BY <1>7 DEF Views
  <2>3. QED
    BY <2>1, <2>2
<1>13. soft' \in BOOLEAN /\ errorLatch' \in BOOLEAN
  BY Zenon DEF Reads
<1>14. ASSUME rotated = 0 PROVE Grown'
  <2> DEFINE x == st.offset - Len(st.partial)
             b == Len(p.after.partial)
             y == p.after.offset
             W == Whole(x)
             V == Whole(y)
  <2>1. FileIsWhole /\ PartialIsRest /\ Listed(ReadRows, View) /\ Billed(ReadRows, usage, faults)
    BY <1>1, <1>14 DEF Grown
  <2>2. /\ x \in Nat /\ StartsClean(x)
        /\ Len(p.buf) \in Nat /\ x + Len(p.buf) = y /\ y <= Len(file)
        /\ \A j \in 1 .. Len(p.buf) : p.buf[j] = file[x + j]
        /\ b <= y
        /\ \A j \in 1 .. b : p.after.partial[j] = file[(y - b) + j] /\ ~EndsRow(p.after.partial[j])
        /\ StartsClean(y - b)
    BY <1>1, <2>1, PollSees DEF p
  <2>3. W = ReadRows
    BY <1>1, <2>1, RestEndsNone
  <2>4. SomeRows(W) /\ SomeRows(V)
    BY <1>2, WholeIsSome
  <2>5. file \in Seq(Cells)
    BY <1>1, StFields
  <2>6. FileIsWhole'
    BY <2>1 DEF FileIsWhole, RowStartsBy, EndsRow, Width
  <2>7. ReadRows' = V
    BY <1>11 DEF ReadRows, Whole, Width
  <2> HIDE DEF x, b, y
  <2>8. PartialIsRest'
    <3>1. Len(st'.partial) = b /\ st'.offset = y
      BY <1>11 DEF b, y
    <3>2. \A k : EndsRow(file[k])' <=> EndsRow(file[k])
      BY DEF EndsRow, Width
    <3>3. \A k : EndsRow(k)' <=> EndsRow(k)
      BY DEF EndsRow, Width
    <3>4. ASSUME NEW k, k = y - b PROVE StartsClean(k)'
      BY <2>2, <3>2, <3>4 DEF StartsClean
    <3>5. \A j \in 1 .. b : st'.partial[j] = file[(y - b) + j] /\ ~EndsRow(st'.partial[j])
      BY <1>11, <2>2
    <3>6. QED
      BY <2>2, <3>1, <3>3, <3>4, <3>5 DEF PartialIsRest, StartsClean
  <2>9. Listed(W, View) /\ Billed(W, View.usage, faults + Cardinality(lost \cap W))
    <3>1. Cardinality(lost \cap W) \in Nat
      BY <1>9, FS_Subset, FS_CardinalityType
    <3>2. faults + Cardinality(lost \cap W) \in Nat /\ faults <= faults + Cardinality(lost \cap W)
      BY <1>2, <3>1
    <3>3. QED
      BY <1>2, <2>1, <2>3, <2>4, <3>2, BilledLater
  <2>10. Listed(V, s) /\ Billed(V, s.usage, faults + Cardinality(lost \cap V))
    BY <1>2, <2>1, <2>2, <2>5, <2>9, WalkLists DEF s
  <2>11. Billed(V, usage', faults')
    <3> DEFINE d == Cardinality(lost \cap V)
    <3>1. d \in Nat /\ d <= c
      BY <1>9, FS_Subset, FS_CardinalityType
    <3>2. s.usage \in Seq(UsageRows)
      BY <1>7 DEF Views
    <3> HIDE DEF d, c
    <3>3. faults + d \in Nat /\ faults + d <= faults'
      BY <1>2, <1>9, <1>10, <3>1
    <3>4. Billed(V, s.usage, faults + d)
      BY <2>10 DEF d
    <3>5. QED
      BY <1>4, <1>10, <2>4, <3>2, <3>3, <3>4, BilledLater
  <2>12. Listed(ReadRows, View)'
    BY <1>12, <2>7, <2>10, ListedStays
  <2>13. Billed(ReadRows, usage, faults)'
    BY <2>7, <2>11, BilledStays
  <2>14. QED
    BY <2>6, <2>8, <2>12, <2>13 DEF Grown
<1>15. QED
  BY <1>5, <1>6, <1>10, <1>11, <1>12, <1>13, <1>14

-----------------------------------------------------------------------------
(* The steps of the CLI.                                                    *)

\* Cells that are written past the end of the file change nothing of what was read.
LEMMA AppendsKeep ==
  ASSUME TailShapes, Grown, flavor' = flavor, st' = st, feed' = feed, usage' = usage, faults' = faults,
         \A n \in DOMAIN rows : n \in DOMAIN rows' /\ rows'[n] = rows[n],
         Len(file') \in Nat, Len(file) <= Len(file'), \A i \in 1 .. Len(file) : file'[i] = file[i]
  PROVE  PartialIsRest' /\ Listed(ReadRows, View)' /\ Billed(ReadRows, usage, faults)'
<1>1. RowsAreRows
  BY DEF TailShapes
<1>2. /\ file \in Seq(Cells) /\ Len(file) \in Nat /\ st.offset \in Nat /\ Len(st.partial) \in Nat
      /\ st.partial \in Seq(Cells)
  BY StFields
<1>3. /\ Len(st.partial) <= st.offset /\ st.offset <= Len(file)
      /\ \A j \in 1 .. Len(st.partial) :
           st.partial[j] = file[(st.offset - Len(st.partial)) + j] /\ ~EndsRow(st.partial[j])
      /\ StartsClean(st.offset - Len(st.partial))
  BY DEF Grown, PartialIsRest
<1>4. \A i \in 1 .. Len(file) : file[i] = <<file[i][1], file[i][2]>> /\ file[i][1] \in DOMAIN rows
  BY <1>1, <1>2, CellFields
<1>5. \A n \in DOMAIN rows : Width(n)' = Width(n)
  BY DEF Width
<1>6. ASSUME NEW i \in 1 .. Len(file) PROVE EndsRow(file[i])' <=> EndsRow(file[i])
  BY <1>4, <1>5 DEF EndsRow
<1>7. \A i \in 1 .. st.offset : i \in 1 .. Len(file)
  BY <1>2, <1>3
<1>8. ReadRows' = ReadRows
  <2>1. ReadRows' = {n \in DOMAIN rows' : Width(n)' <= MaxLine /\ \E i \in 1 .. st.offset : file[i] = Cell(n, Width(n)')}
    <3>1. \A i \in 1 .. st.offset : file'[i] = file[i]
      BY <1>7
    <3>2. ReadRows' = {n \in DOMAIN rows' : Width(n)' <= MaxLine /\ \E i \in 1 .. st.offset : file'[i] = Cell(n, Width(n)')}
      BY DEF ReadRows
    <3>3. QED
      BY <3>1, <3>2
  <2>2. \A i \in 1 .. st.offset : \A n, w : file[i] = Cell(n, w) => n \in DOMAIN rows
    BY <1>4, <1>7 DEF Cell
  <2>3. ASSUME NEW n, n \in DOMAIN rows
        PROVE  n \in ReadRows' <=> n \in ReadRows
    BY <1>5, <2>1, <2>3 DEF ReadRows
  <2>4. ReadRows \subseteq DOMAIN rows
    BY DEF ReadRows
  <2>5. ReadRows' \subseteq DOMAIN rows
    BY <2>1, <2>2
  <2>6. QED
    BY <2>3, <2>4, <2>5
<1>9. View' = View
  BY DEF View
<1>10. \A n \in ReadRows : rows'[n] = rows[n]
  BY DEF ReadRows
<1>11. Listed(ReadRows, View)'
  BY <1>8, <1>9, <1>10, ListedStays DEF Grown
<1>12. Billed(ReadRows, usage, faults)'
  BY <1>8, <1>10, BilledStays DEF Grown
<1>13. PartialIsRest'
  <2> DEFINE h == Len(st.partial)
             o == st.offset
             x == o - h
  <2>1. \A j \in 1 .. h : x + j \in 1 .. Len(file)
    <3>1. h \in Nat /\ o \in Nat /\ h <= o /\ o <= Len(file) /\ Len(file) \in Nat
      BY <1>2, <1>3
    <3> HIDE DEF h, o
    <3>2. QED
      BY <3>1
  <2>2. \A j \in 1 .. h : st.partial[j] = file'[x + j] /\ ~(EndsRow(st.partial[j])')
    <3>1. ASSUME NEW j \in 1 .. h PROVE st.partial[j] = file'[x + j] /\ ~(EndsRow(st.partial[j])')
      <4>1. st.partial[j] = file[x + j] /\ ~EndsRow(st.partial[j]) /\ x + j \in 1 .. Len(file)
        BY <1>3, <2>1
      <4>2. st'.partial[j][1] \in DOMAIN rows
        BY <1>4, <4>1
      <4>3. QED
        BY <1>5, <4>1, <4>2 DEF EndsRow
    <3>2. QED
      BY <3>1
  <2>3. ASSUME NEW k, k = x PROVE StartsClean(k)'
    <3>1. x = 0 \/ x \in 1 .. Len(file)
      <4>1. h \in Nat /\ o \in Nat /\ h <= o /\ o <= Len(file) /\ Len(file) \in Nat
        BY <1>2, <1>3
      <4> HIDE DEF h, o
      <4>2. QED
        BY <4>1
    <3>2. StartsClean(x)
      BY <1>3
    <3> HIDE DEF x
    <3>3. CASE x = 0
      BY <2>3, <3>3 DEF StartsClean
    <3>4. CASE x \in 1 .. Len(file)
      <4>1. PICK c : c = file[x]
        OBVIOUS
      <4>2. file'[k] = c /\ c[1] \in DOMAIN rows
        BY <1>4, <2>3, <3>4, <4>1
      <4>3. EndsRow(c)' <=> EndsRow(c)
        BY <1>5, <4>2 DEF EndsRow
      <4>4. EndsRow(file[x]) <=> EndsRow(c)
        BY <4>1
      <4>5. EndsRow(file[k])' <=> EndsRow(c)'
        BY <4>2
      <4>6. QED
        BY <2>3, <3>2, <4>1, <4>2, <4>3, <4>4, <4>5 DEF StartsClean
    <3>5. QED
      BY <3>1, <3>3, <3>4
  <2>4. st'.partial = st.partial /\ st'.offset = st.offset
    OBVIOUS
  <2>5. st.offset <= Len(file')
    BY <1>2, <1>3
  <2>6. QED
    BY <1>3, <2>2, <2>3, <2>4, <2>5 DEF PartialIsRest
<1>14. QED
  BY <1>11, <1>12, <1>13

LEMMA InOrPast ==
  ASSUME NEW l \in Nat, NEW m \in Nat
  PROVE  \A i \in 1 .. l + m : i \in 1 .. l \/ (i - l \in 1 .. m /\ l + (i - l) = i)
<1>1. ASSUME NEW i \in 1 .. l + m PROVE i \in 1 .. l \/ (i - l \in 1 .. m /\ l + (i - l) = i)
  <2>1. i \in Nat /\ i >= 1 /\ i <= l + m
    OBVIOUS
  <2>2. QED
    BY <2>1
<1>2. QED
  BY <1>1

\* Cells of the last row that are written behind what there is of it leave the file whole.
LEMMA AppendsWhole ==
  ASSUME RowsAreRows, file \in Seq(Cells), FileIsWhole, \A r \in DOMAIN rows : r \in DOMAIN rows' /\ rows'[r] = rows[r],
         NEW l \in Nat, l = Len(file), NEW m \in Nat, m > 0, NEW n, NEW p \in Nat,
         Len(file') = l + m, \A i \in 1 .. l : file'[i] = file[i], \A j \in 1 .. m : file'[l + j] = Cell(n, p + j),
         n = Len(rows'), n \in Nat, rows' # <<>>, Width(n)' \in Nat, p + m <= Width(n)',
         p = 0 => l = 0 \/ (EndsRow(file[l]) /\ file[l][1] < n),
         p > 0 => l > 0 /\ file[l] = <<n, p>>
  PROVE  FileIsWhole'
<1> DEFINE c(i) == file[i]
           w == Width(n)'
<1>1. /\ \A i \in 1 .. l : c(i)[1] \in DOMAIN rows /\ c(i)[1] \in Nat /\ c(i)[2] \in Nat
      /\ \A i \in 1 .. l : c(i) = <<c(i)[1], c(i)[2]>>
  BY CellFields
<1>2. \A r \in DOMAIN rows : rows'[r] = rows[r]
  OBVIOUS
<1>3. \A i \in 1 .. l : EndsRow(file[i])' <=> EndsRow(file[i])
  <2>1. ASSUME NEW i \in 1 .. l PROVE EndsRow(file[i])' <=> EndsRow(file[i])
    <3>1. file'[i] = c(i) /\ rows'[c(i)[1]] = rows[c(i)[1]]
      BY <1>1, <1>2
    <3>2. EndsRow(file[i])' <=> c(i)[2] = rows'[c(i)[1]].width
      BY <3>1 DEF EndsRow, Width
    <3>3. EndsRow(file[i]) <=> c(i)[2] = rows[c(i)[1]].width
      BY DEF EndsRow, Width
    <3>4. QED
      BY <3>1, <3>2, <3>3
  <2>2. QED
    BY <2>1
<1>4. /\ \A i \in 1 .. l : RowStartsBy(i)
      /\ \A i, j \in 1 .. l : i < j => Before(c(i), c(j))
  BY DEF FileIsWhole
<1>5. \A j \in 1 .. m : file'[l + j][1] = n /\ file'[l + j][2] = p + j
  <2>1. ASSUME NEW j \in 1 .. m PROVE file'[l + j][1] = n /\ file'[l + j][2] = p + j
    <3>1. file'[l + j] = <<n, p + j>>
      BY DEF Cell
    <3>2. QED
      BY <3>1
  <2>2. QED
    BY <2>1
<1>6. ASSUME NEW i \in 1 .. l PROVE RowStartsBy(i)'
  <2> DEFINE q == c(i)[2]
             r == c(i)[1]
  <2>1. /\ q \in 1 .. Width(r) /\ q <= i /\ q \in Nat
        /\ \A k \in 1 .. q : c((i - q) + k) = Cell(r, k)
        /\ q = 1 /\ i > 1 => EndsRow(c(i - 1))
    BY <1>1, <1>4 DEF RowStartsBy
  <2>2. rows'[r] = rows[r] /\ Width(r) = rows'[r].width
    BY <1>1, <1>2 DEF Width
  <2>3. file'[i] = c(i) /\ file'[i][2] = q /\ file'[i][1] = r
    OBVIOUS
  <2> HIDE DEF q, r
  <2>4. (\A k \in 1 .. q : (i - q) + k \in 1 .. l) /\ (i > 1 => i - 1 \in 1 .. l)
    <3>1. q \in Nat /\ q <= i /\ i \in Nat /\ i >= 1 /\ i <= l
      BY <2>1
    <3>2. ASSUME NEW k \in 1 .. q PROVE (i - q) + k \in 1 .. l
      BY <3>1
    <3>3. i > 1 => i - 1 \in 1 .. l
      BY <3>1
    <3>4. QED
      BY <3>2, <3>3
  <2>5. \A k \in 1 .. q : file'[(i - q) + k] = Cell(r, k)
    BY <2>1, <2>4
  <2>6. ASSUME q = 1, i > 1 PROVE EndsRow(file[i - 1])'
    BY <1>3, <2>1, <2>4, <2>6
  <2>7. QED
    BY <2>1, <2>2, <2>3, <2>5, <2>6 DEF RowStartsBy, Width
<1>7. p <= l /\ \A k \in 1 .. p : c((l - p) + k) = Cell(n, k)
  <2>1. CASE p = 0
    BY <2>1
  <2>2. CASE p > 0
    <3>1. l \in 1 .. l /\ c(l)[1] = n /\ c(l)[2] = p
      BY <2>2
    <3>2. RowStartsBy(l)
      BY <1>4, <3>1
    <3>3. QED
      BY <3>1, <3>2 DEF RowStartsBy
  <2>3. QED
    BY <2>1, <2>2
<1> DEFINE g == file'
<1>8. \A i \in 1 .. l + m : i \in 1 .. l \/ (i - l \in 1 .. m /\ l + (i - l) = i)
  BY InOrPast
<1>9. ASSUME NEW j \in 1 .. m PROVE RowStartsBy(l + j)'
  <2>1. g[l + j][2] = p + j /\ g[l + j][1] = n
    BY <1>5
  <2>2. p + j \in 1 .. w /\ p + j <= l + j /\ (l + j) - (p + j) = l - p
    <3>1. p \in Nat /\ l \in Nat /\ j \in Nat /\ j >= 1 /\ j <= m /\ p <= l /\ p + m <= w /\ w \in Nat
      BY <1>7
    <3> HIDE DEF w, c
    <3>2. QED
      BY <3>1
  <2>3. ASSUME NEW k \in 1 .. p + j PROVE g[(l - p) + k] = Cell(n, k)
    <3>1. CASE k <= p
      <4>1. k \in 1 .. p /\ (l - p) + k \in 1 .. l
        BY <1>7, <3>1
      <4>2. QED
        BY <1>7, <4>1
    <3>2. CASE k > p
      <4>1. k - p \in 1 .. m /\ l + (k - p) = (l - p) + k /\ p + (k - p) = k
        BY <3>2
      <4>2. g[l + (k - p)] = Cell(n, p + (k - p))
        BY <4>1
      <4>3. QED
        BY <4>1, <4>2
    <3>3. QED
      BY <3>1, <3>2
  <2>4. ASSUME p + j = 1, l + j > 1 PROVE EndsRow(file[(l + j) - 1])'
    <3>1. p = 0 /\ j = 1 /\ l # 0 /\ (l + j) - 1 = l /\ l \in 1 .. l
      <4>1. p \in Nat /\ l \in Nat /\ j \in Nat /\ j >= 1 /\ p + j = 1 /\ l + j > 1
        BY <2>4
      <4> HIDE DEF w, c, g
      <4>2. QED
        BY <4>1
    <3>2. EndsRow(file[l])'
      BY <1>3, <3>1
    <3>3. QED
      BY <3>1, <3>2
  <2>5. /\ g[l + j][2] \in 1 .. w /\ g[l + j][2] <= l + j
        /\ \A k \in 1 .. g[l + j][2] : g[(l + j) - g[l + j][2] + k] = Cell(g[l + j][1], k)
        /\ g[l + j][2] = 1 /\ l + j > 1 => EndsRow(file[(l + j) - 1])'
    BY <2>1, <2>2, <2>3, <2>4
  <2>6. w = rows'[g[l + j][1]].width
    BY <2>1 DEF Width
  <2>7. QED
    BY <2>5, <2>6 DEF RowStartsBy, Width
<1>10. ASSUME NEW i \in 1 .. l, NEW j \in 1 .. m PROVE Before(g[i], g[l + j])
  <2>1. c(i) = c(l) \/ Before(c(i), c(l))
    BY <1>4
  <2>2. g[i] = c(i) /\ g[l + j][1] = n /\ g[l + j][2] = p + j /\ l \in 1 .. l
    <3>1. g[i] = c(i)
      OBVIOUS
    <3>2. g[l + j][1] = n /\ g[l + j][2] = p + j
      BY <1>5
    <3>3. l \in 1 .. l
      OBVIOUS
    <3>4. QED
      BY <3>1, <3>2, <3>3
  <2>3. CASE p = 0
    <3>1. c(l)[1] < n /\ c(l)[1] \in Nat /\ c(i)[1] \in Nat
      BY <1>1, <2>2, <2>3
    <3>2. c(i)[1] = c(l)[1] \/ c(i)[1] < c(l)[1]
      BY <2>1 DEF Before
    <3>3. c(i)[1] < n
      BY <3>1, <3>2
    <3>4. QED
      BY <2>2, <3>3 DEF Before
  <2>4. CASE p > 0
    <3>1. c(l)[1] = n /\ c(l)[2] = p /\ c(i)[2] \in Nat
      BY <1>1, <2>4
    <3>2. c(i)[1] < n \/ (c(i)[1] = n /\ (c(i)[2] = p \/ c(i)[2] < p))
      BY <2>1, <3>1 DEF Before
    <3>3. c(i)[1] < n \/ (c(i)[1] = n /\ c(i)[2] < p + j)
      BY <3>1, <3>2
    <3>4. QED
      BY <2>2, <3>3 DEF Before
  <2>5. QED
    BY <2>3, <2>4
<1>11. ASSUME NEW i \in 1 .. l + m, NEW j \in 1 .. l + m, i < j PROVE Before(g[i], g[j])
  <2>1. CASE i \in 1 .. l /\ j \in 1 .. l
    BY <1>4, <1>11, <2>1
  <2>2. CASE i \in 1 .. l /\ j \notin 1 .. l
    BY <1>8, <1>10, <2>2
  <2>3. CASE i \notin 1 .. l
    <3>1. /\ i - l \in 1 .. m /\ l + (i - l) = i /\ j - l \in 1 .. m /\ l + (j - l) = j
          /\ p + (i - l) < p + (j - l)
      BY <1>11, <2>3
    <3>2. g[i][1] = n /\ g[i][2] = p + (i - l) /\ g[j][1] = n /\ g[j][2] = p + (j - l)
      BY <1>5, <3>1
    <3>3. QED
      BY <3>1, <3>2 DEF Before
  <2>4. QED
    BY <2>1, <2>2, <2>3
<1>12. \A i \in 1 .. l + m : RowStartsBy(i)'
  <2>1. ASSUME NEW i \in 1 .. l + m PROVE RowStartsBy(i)'
    <3>1. CASE i \in 1 .. l
      BY <1>6, <3>1
    <3>2. CASE i \notin 1 .. l
      <4>1. i - l \in 1 .. m /\ l + (i - l) = i
        BY <1>8, <3>2
      <4>2. RowStartsBy(l + (i - l))'
        BY <1>9, <4>1
      <4>3. QED
        BY <4>1, <4>2
    <3>3. QED
      BY <3>1, <3>2
  <2>2. QED
    BY <2>1
<1>13. g # <<>> /\ g[l + m][1] = n
  <2>1. m \in 1 .. m /\ l + m # 0
    OBVIOUS
  <2>2. QED
    BY <1>5, <2>1
<1>14. QED
  BY <1>11, <1>12, <1>13 DEF FileIsWhole

LEMMA SeqWider == ASSUME NEW S, NEW T, S \subseteq T, NEW q \in Seq(S) PROVE q \in Seq(T)
  OBVIOUS

LEMMA SpansNest == ASSUME NEW a \in Nat, NEW b \in Nat, a <= b PROVE 1 .. a \subseteq 1 .. b
  OBVIOUS

\* What is left to show of a step that leaves the tailer's state alone.
LEMMA ShapesStay ==
  ASSUME TailShapes, flavor' = flavor, rows' \in Seq(WideRows), Len(rows) <= Len(rows'), file' \in Seq(Cells'),
         st' = st, feed' = feed, usage' = usage,
         tail' \in {"locating", "tailing", "stopped", "misled", "abandoned"},
         soft' \in BOOLEAN, errorLatch' \in BOOLEAN, dead' \in BOOLEAN,
         inbox' \in Inboxes, rotated' \in 0 .. MaxRotations, faults' \in 0 .. MaxFaults
  PROVE  TailShapes'
<1>1. RowsAreRows'
  <2>1. WideRows' = WideRows
    BY DEF WideRows
  <2>2. QED
    BY <2>1 DEF RowsAreRows, TailShapes
<1>2. Cells \subseteq Cells'
  <2>1. Len(rows) \in Nat /\ Len(rows') \in Nat
    BY SeqSpans DEF TailShapes, RowsAreRows
  <2>2. Len(rows) <= Len(rows')
    OBVIOUS
  <2>3. 1 .. Len(rows) \subseteq 1 .. Len(rows')
    BY <2>1, <2>2, SpansNest
  <2>4. QED
    BY <2>3 DEF Cells
<1>3. st' \in StShapes'
  <2>1. st.partial \in Seq(Cells')
    BY <1>2, StFields, SeqWider
  <2>2. st \in [offset : Nat, partial : Seq(Cells), pending : [Tools -> Nat], seq : Nat]
    BY StFields DEF StShapes
  <2>3. st \in [offset : Nat, partial : Seq(Cells'), pending : [Tools -> Nat], seq : Nat]
    BY <2>1, <2>2
  <2>4. QED
    BY <2>3 DEF StShapes
<1>4. Len(st'.partial) <= MaxLine
  BY DEF TailShapes
<1>5. IsView(View')
  BY DEF TailShapes, View
<1>6. QED
  BY <1>1, <1>3, <1>4, <1>5 DEF TailShapes

\* A file that only grew and is not torn ends in a newline.
LEMMA NotTorn ==
  ASSUME TailShapes, FileIsWhole, file # <<>>
  PROVE  /\ Len(file) \in 1 .. Len(file) /\ Len(file) > 0
         /\ rows # <<>> /\ Len(rows) \in Nat /\ Len(rows) \in DOMAIN rows
         /\ file[Len(file)][1] = Len(rows) /\ Written = file[Len(file)][2]
         /\ Written \in 1 .. Width(Len(rows)) /\ Written \in Nat /\ Width(Len(rows)) \in Nat
         /\ RowIsTorn <=> Written < Width(Len(rows))
         /\ ~RowIsTorn => EndsRow(file[Len(file)])
<1> DEFINE l == Len(file)
           n == Len(rows)
<1>1. RowsAreRows /\ file \in Seq(Cells)
  BY DEF TailShapes
<1>2. l \in Nat /\ l > 0 /\ l \in 1 .. l /\ file[l] \in Cells
  BY <1>1, CellFields
<1>3. rows # <<>> /\ file[l][1] = n
  BY DEF FileIsWhole
<1>4. n \in Nat /\ n \in DOMAIN rows /\ Width(n) \in Nat /\ file[l][2] \in Nat
  BY <1>1, <1>2, <1>3, CellFields
<1>5. Last(file) = file[l]
  BY <1>1 DEF Last
<1>6. Written = file[l][2]
  BY <1>3, <1>5 DEF Written
<1>7. RowStartsBy(l)
  BY <1>2 DEF FileIsWhole
<1>8. Written \in 1 .. Width(n)
  BY <1>3, <1>6, <1>7 DEF RowStartsBy
<1>9. RowIsTorn <=> Written < Width(n)
  BY <1>3 DEF RowIsTorn
<1>10. ~RowIsTorn => EndsRow(file[l])
  <2>1. ~RowIsTorn => Written = Width(n)
    BY <1>4, <1>6, <1>8, <1>9
  <2>2. QED
    BY <1>3, <1>6, <2>1 DEF EndsRow
<1>11. QED
  BY <1>2, <1>3, <1>4, <1>6, <1>8, <1>9, <1>10

\* A row is begun.
LEMMA BeginsKeeps == ASSUME TailInv, CliBegins PROVE TailInv'
<1> DEFINE l == Len(file)
<1>1. TailShapes /\ RowsAreRows /\ file \in Seq(Cells) /\ rows \in Seq(WideRows)
  BY DEF TailInv, TailShapes, RowsAreRows
<1>2. l \in Nat /\ Len(rows) \in Nat /\ DOMAIN rows = 1 .. Len(rows) /\ DOMAIN file = 1 .. l
  BY <1>1, CellFields
<1> PICK n : n = Len(rows) + 1
  OBVIOUS
<1>3. /\ ~RowIsTorn /\ file' = Append(file, Cell(n, 1))
      /\ UNCHANGED <<flavor, tail, st, soft, feed, usage, errorLatch, dead, inbox, rotated, faults>>
  BY DEF CliBegins
<1>4. PICK row \in Rows(flavor), width \in {MaxLine, MaxLine + 2} :
        rows' = Append(rows, [row |-> row, width |-> width])
  BY DEF CliBegins
<1> DEFINE r == [row |-> row, width |-> width]
<1>5. r \in WideRows /\ r.width >= 1 /\ r.width \in Nat
  BY TailAssumption DEF WideRows
<1> HIDE DEF r
<1>6. /\ rows' \in Seq(WideRows) /\ Len(rows') = n /\ DOMAIN rows' = 1 .. n
      /\ rows'[n] = r /\ \A i \in 1 .. Len(rows) : rows'[i] = rows[i]
  BY <1>1, <1>4, <1>5 DEF r
<1>7. Cells \subseteq Cells' /\ Cell(n, 1) \in Cells'
  <2>1. n \in 1 .. n /\ 1 .. Len(rows) \subseteq 1 .. n /\ 1 \in Nat
    BY <1>2
  <2>2. QED
    BY <1>6, <2>1 DEF Cells, Cell
<1>8. file' \in Seq(Cells') /\ Len(file') = l + 1 /\ file'[l + 1] = Cell(n, 1) /\ \A i \in 1 .. l : file'[i] = file[i]
  <2>1. file \in Seq(Cells')
    BY <1>1, <1>7, SeqWider
  <2>2. QED
    BY <1>3, <1>7, <2>1
<1>9. TailShapes'
  <2>1. Len(rows) <= Len(rows')
    BY <1>2, <1>6
  <2>2. QED
    BY <1>1, <1>3, <1>6, <1>8, <2>1, ShapesStay DEF TailShapes
<1>10. ASSUME rotated' = 0 PROVE Grown'
  <2>1. Grown /\ FileIsWhole
    BY <1>3, <1>10 DEF TailInv, Grown
  <2>2. \A i \in DOMAIN rows : i \in DOMAIN rows' /\ rows'[i] = rows[i]
    BY <1>2, <1>6
  <2>3. PartialIsRest' /\ Listed(ReadRows, View)' /\ Billed(ReadRows, usage, faults)'
    <3>1. Len(file') \in Nat /\ Len(file) <= Len(file')
      BY <1>2, <1>8
    <3>2. QED
      BY <1>1, <1>3, <1>8, <2>1, <2>2, <3>1, AppendsKeep
  <2>4. l = 0 \/ (EndsRow(file[l]) /\ file[l][1] < n)
    <3>1. CASE file = <<>>
      BY <3>1
    <3>2. CASE file # <<>>
      BY <1>1, <1>2, <1>3, <2>1, <3>2, NotTorn
    <3>3. QED
      BY <3>1, <3>2
  <2>5. Width(n)' = r.width /\ rows' # <<>> /\ n \in Nat
    BY <1>2, <1>6 DEF Width
  <2> DEFINE m == 1
             p == 0
  <2>6. /\ Len(file') = l + m /\ \A j \in 1 .. m : file'[l + j] = Cell(n, p + j)
        /\ Width(n)' \in Nat /\ p + m <= Width(n)' /\ n = Len(rows') /\ m \in Nat /\ m > 0 /\ p \in Nat /\ ~(p > 0)
    BY <1>5, <1>6, <1>8, <2>5
  <2> HIDE DEF m, p
  <2>7. FileIsWhole'
    BY <1>1, <1>2, <1>8, <2>1, <2>2, <2>4, <2>5, <2>6, AppendsWhole
  <2>8. QED
    BY <2>3, <2>7 DEF Grown
<1>11. QED
  BY <1>9, <1>10 DEF TailInv

\* More of it is written.
LEMMA WritesKeeps == ASSUME TailInv, CliWrites PROVE TailInv'
<1> DEFINE l == Len(file)
           p == Written
<1> PICK n : n = Len(rows)
  OBVIOUS
<1>1. TailShapes /\ RowsAreRows /\ file \in Seq(Cells) /\ rows \in Seq(WideRows)
  BY DEF TailInv, TailShapes, RowsAreRows
<1>2. l \in Nat /\ n \in Nat /\ DOMAIN rows = 1 .. n
  BY <1>1, CellFields
<1>3. RowIsTorn /\ UNCHANGED <<flavor, rows, tail, st, soft, feed, usage, errorLatch, dead, inbox, rotated, faults>>
  BY DEF CliWrites
<1>4. rows # <<>> /\ n \in 1 .. n /\ n \in DOMAIN rows /\ Width(n) \in Nat /\ p < Width(n)
  <2>1. rows # <<>> /\ p < Width(n)
    BY <1>3 DEF RowIsTorn
  <2>2. n # 0
    BY <1>1, <2>1
  <2>3. n \in DOMAIN rows
    BY <1>2, <2>2
  <2>4. QED
    BY <1>1, <1>2, <2>1, <2>3, RowFields
<1>5. p \in Nat
  <2>1. Last(file) = file[l]
    BY <1>1 DEF Last
  <2>2. file # <<>> => l \in 1 .. l
    BY <1>1, <1>2
  <2>3. QED
    BY <1>1, <2>1, <2>2, CellFields DEF Written
<1>6. PICK upto \in p + 1 .. Width(n) : file' = file \o [k \in 1 .. upto - p |-> Cell(n, p + k)]
  BY DEF CliWrites
<1> DEFINE m == upto - p
           more == [k \in 1 .. m |-> Cell(n, p + k)]
<1> HIDE DEF p
<1>7. m \in Nat /\ m > 0 /\ p + m <= Width(n)
  BY <1>4, <1>5, <1>6
<1> HIDE DEF m
<1>8. more \in Seq(Cells) /\ Len(more) = m /\ \A j \in 1 .. m : more[j] = Cell(n, p + j)
  <2>1. ASSUME NEW k \in 1 .. m PROVE Cell(n, p + k) \in Cells
    <3>1. p + k \in Nat
      BY <1>5
    <3>2. QED
      BY <1>4, <3>1 DEF Cells, Cell
  <2>2. more \in [1 .. m -> Cells]
    BY <2>1
  <2>3. more \in Seq(Cells) /\ Len(more) = m
    BY <1>7, <2>2
  <2>4. QED
    BY <2>3
<1>9. JoinedWith(Cells, file, more, file')
  BY <1>1, <1>6, <1>8, JoinIs DEF m
<1> HIDE DEF more
<1>10. /\ file' \in Seq(Cells) /\ Len(file') = l + m /\ \A i \in 1 .. l : file'[i] = file[i]
       /\ \A j \in 1 .. m : file'[l + j] = Cell(n, p + j)
  BY <1>8, <1>9 DEF JoinedWith
<1>11. TailShapes'
  <2>1. Len(rows) <= Len(rows') /\ Cells' = Cells /\ rows' = rows
    BY <1>2, <1>3 DEF Cells
  <2>2. QED
    BY <1>1, <1>3, <1>10, <2>1, ShapesStay DEF TailShapes
<1>12. ASSUME rotated' = 0 PROVE Grown'
  <2>1. Grown /\ FileIsWhole
    BY <1>3, <1>12 DEF TailInv, Grown
  <2>2. \A i \in DOMAIN rows : i \in DOMAIN rows' /\ rows'[i] = rows[i]
    BY <1>3
  <2>3. PartialIsRest' /\ Listed(ReadRows, View)' /\ Billed(ReadRows, usage, faults)'
    <3>1. Len(file') \in Nat /\ Len(file) <= Len(file')
      BY <1>2, <1>7, <1>10
    <3>2. QED
      BY <1>1, <1>3, <1>10, <2>1, <2>2, <3>1, AppendsKeep
  <2>4. p > 0 /\ l > 0 /\ file[l] = <<n, p>>
    <3>1. file # <<>>
      BY <1>4, <2>1 DEF FileIsWhole
    <3>2. l \in 1 .. l /\ l > 0 /\ file[l][1] = n /\ p = file[l][2] /\ p \in 1 .. Width(n)
      BY <1>1, <2>1, <3>1, NotTorn DEF p
    <3>3. file[l] = <<file[l][1], file[l][2]>>
      BY <1>1, <3>2, CellFields
    <3>4. QED
      BY <1>5, <3>2, <3>3
  <2>5. Width(n)' = Width(n) /\ n = Len(rows') /\ rows' # <<>>
    BY <1>3, <1>4 DEF Width
  <2>6. FileIsWhole'
    <3>1. /\ Width(n)' \in Nat /\ p + m <= Width(n)' /\ (p = 0 => l = 0)
      BY <1>4, <1>5, <1>7, <2>4, <2>5
    <3>2. QED
      BY <1>1, <1>2, <1>5, <1>7, <1>10, <2>1, <2>2, <2>4, <2>5, <3>1, AppendsWhole
  <2>7. QED
    BY <2>3, <2>6 DEF Grown
<1>13. QED
  BY <1>11, <1>12 DEF TailInv

\* The file is cut back: from then on nothing is said of what was read.
LEMMA RotatesKeeps == ASSUME TailInv, CliRotates PROVE TailInv'
<1>1. TailShapes /\ file \in Seq(Cells) /\ rows \in Seq(WideRows) /\ Len(rows) \in Nat
  <2>1. TailShapes /\ file \in Seq(Cells) /\ rows \in Seq(WideRows)
    BY DEF TailInv, TailShapes, RowsAreRows
  <2>2. QED
    BY <2>1, SeqSpans
<1>2. /\ rotated < MaxRotations /\ rotated' = rotated + 1
      /\ UNCHANGED <<flavor, rows, tail, st, soft, feed, usage, errorLatch, dead, inbox, faults>>
  BY DEF CliRotates
<1>3. rotated' \in 0 .. MaxRotations /\ rotated' # 0
  <2>1. rotated \in Nat
    BY <1>1, ViewFields
  <2>2. QED
    BY <1>2, <2>1, TailAssumption
<1>4. PICK k \in {0} \cup {i \in 1 .. Len(file) - 1 : EndsRow(file[i])} : file' = SubSeq(file, 1, k)
  BY DEF CliRotates
<1>5. file' \in Seq(Cells)
  <2>1. Len(file) \in Nat
    BY <1>1, StFields
  <2>2. k \in Nat /\ k <= Len(file)
    BY <2>1
  <2>3. Pieced(Cells, file, 0, k, SubSeq(file, 0 + 1, k))
    BY <1>1, <2>2, PieceIs
  <2>4. QED
    BY <1>4, <2>3 DEF Pieced
<1>6. Cells' = Cells /\ Len(rows) <= Len(rows') /\ rows' = rows
  BY <1>1, <1>2 DEF Cells
<1>7. TailShapes'
  BY <1>1, <1>2, <1>3, <1>5, <1>6, ShapesStay DEF TailShapes
<1>8. QED
  BY <1>3, <1>7 DEF TailInv

-----------------------------------------------------------------------------
(* The steps of the task, and of what surrounds it.                         *)

\* A step that leaves the file, the tailer's state and what it emitted alone.
LEMMA StaysKeeps ==
  ASSUME TailInv, UNCHANGED <<flavor, rows, file, st, feed, usage, rotated>>,
         tail' \in {"locating", "tailing", "stopped", "misled", "abandoned"},
         soft' \in BOOLEAN, errorLatch' \in BOOLEAN, dead' \in BOOLEAN,
         inbox' \in Inboxes, faults' \in 0 .. MaxFaults, faults <= faults'
  PROVE  TailInv'
<1>1. TailShapes /\ rows \in Seq(WideRows) /\ Len(rows) \in Nat /\ file \in Seq(Cells)
  <2>1. TailShapes /\ file \in Seq(Cells) /\ rows \in Seq(WideRows)
    BY DEF TailInv, TailShapes, RowsAreRows
  <2>2. QED
    BY <2>1, SeqSpans
<1>2. Cells' = Cells /\ Len(rows) <= Len(rows') /\ rotated' \in 0 .. MaxRotations
  BY <1>1 DEF Cells, TailShapes
<1>3. TailShapes'
  BY <1>1, <1>2, ShapesStay
<1>4. faults' \in Nat
  BY TailAssumption
<1>5. rotated' = 0 => Grown'
  BY <1>1, <1>4, GrownStays DEF TailInv
<1>6. QED
  BY <1>3, <1>5 DEF TailInv

\* A poll.
LEMMA PollsKeeps ==
  ASSUME TailInv, NEW isTick \in BOOLEAN, Reads(isTick), UNCHANGED <<flavor, rows, file, dead, rotated>>,
         tail' \in {"locating", "tailing", "stopped", "misled", "abandoned"}, inbox' \in Inboxes
  PROVE  TailInv'
<1>1. TailShapes
  BY DEF TailInv
<1>2. /\ st' \in StShapes /\ Len(st'.partial) <= MaxLine /\ IsView(View') /\ faults' \in 0 .. MaxFaults
      /\ soft' \in BOOLEAN /\ errorLatch' \in BOOLEAN
      /\ rotated = 0 => Grown'
  BY ReadsKeep
<1>3. WideRows' = WideRows /\ Cells' = Cells /\ StShapes' = StShapes
  BY DEF WideRows, Cells, StShapes
<1>4. TailShapes'
  BY <1>1, <1>2, <1>3 DEF TailShapes, RowsAreRows
<1>5. QED
  BY <1>2, <1>4 DEF TailInv

LEMMA InboxStays ==
  ASSUME TailShapes
  PROVE  /\ inbox # <<>> => Tail(inbox) \in Inboxes
         /\ \A e \in {"exited", "error"} : PublishState(e) => inbox' \in Inboxes
         /\ <<>> \in Inboxes
<1>1. inbox \in Inboxes
  BY DEF TailShapes
<1>2. inbox # <<>> => Tail(inbox) \in Inboxes
  BY <1>1 DEF Inboxes
<1>3. ASSUME NEW e \in {"exited", "error"} PROVE Append(inbox, e) \in Inboxes
  BY <1>1 DEF Inboxes
<1>4. <<>> \in Inboxes
  BY DEF Inboxes
<1>5. QED
  BY <1>1, <1>2, <1>3, <1>4 DEF PublishState

\* The steps of the tailer, and of what surrounds it.
LEMMA TaskKeeps ==
  ASSUME TailInv, Locates \/ GivesUp \/ Ticks \/ Hears \/ Mishears \/ SoftErrors \/ Dies \/ Lags
  PROVE  TailInv'
<1>1. /\ TailShapes
      /\ tail \in {"locating", "tailing", "stopped", "misled", "abandoned"}
      /\ soft \in BOOLEAN /\ errorLatch \in BOOLEAN /\ dead \in BOOLEAN
      /\ inbox \in Inboxes /\ faults \in 0 .. MaxFaults
  BY DEF TailInv, TailShapes
<1>2. faults <= faults /\ TRUE \in BOOLEAN /\ FALSE \in BOOLEAN
  BY <1>1, TailAssumption
<1>3. CASE Locates
  BY <1>1, <1>2, <1>3, StaysKeeps DEF Locates
<1>4. CASE GivesUp
  BY <1>1, <1>2, <1>4, StaysKeeps DEF GivesUp
<1>5. CASE Ticks
  BY <1>1, <1>2, <1>5, PollsKeeps DEF Ticks
<1>6. CASE Hears
  <2>1. inbox' \in Inboxes
    BY <1>1, <1>6, InboxStays DEF Hears
  <2>2. CASE Head(inbox) = "exited" \/ dead
    <3>1. Reads(FALSE) /\ tail' = "stopped" /\ UNCHANGED <<flavor, rows, file, dead, rotated>>
      BY <1>6, <2>2 DEF Hears
    <3>2. QED
      BY <1>2, <2>1, <3>1, PollsKeeps
  <2>3. CASE ~(Head(inbox) = "exited" \/ dead)
    <3>1. soft' = TRUE /\ UNCHANGED <<tail, st, feed, usage, errorLatch, faults, flavor, rows, file, dead, rotated>>
      BY <1>6, <2>3 DEF Hears
    <3>2. QED
      BY <1>1, <1>2, <2>1, <3>1, StaysKeeps
  <2>4. QED
    BY <2>2, <2>3
<1>7. CASE Mishears
  <2>1. inbox' \in Inboxes
    BY <1>1, <1>7, InboxStays DEF Mishears
  <2>2. QED
    BY <1>2, <1>7, <2>1, PollsKeeps DEF Mishears
<1>8. CASE SoftErrors
  <2>1. inbox' \in Inboxes
    BY <1>1, <1>8, InboxStays DEF SoftErrors
  <2>2. QED
    BY <1>1, <1>2, <1>8, <2>1, StaysKeeps DEF SoftErrors
<1>9. CASE Dies
  <2>1. inbox' \in Inboxes
    BY <1>1, <1>9, InboxStays DEF Dies
  <2>2. QED
    BY <1>1, <1>2, <1>9, <2>1, StaysKeeps DEF Dies
<1>10. CASE Lags
  <2>1. faults' \in 0 .. MaxFaults /\ faults <= faults' /\ inbox' = <<>>
    BY <1>1, <1>10, TailAssumption DEF Lags
  <2>2. QED
    BY <1>1, <1>10, <2>1, InboxStays, StaysKeeps DEF Lags
<1>11. QED
  BY <1>3, <1>4, <1>5, <1>6, <1>7, <1>8, <1>9, <1>10

LEMMA TailStepKeeps == ASSUME TailInv, [TailNext]_tailVars PROVE TailInv'
<1>1. ASSUME UNCHANGED tailVars PROVE TailInv'
  <2>1. UNCHANGED <<flavor, rows, file, tail, st, soft, feed, usage, errorLatch, dead, inbox, rotated, faults>>
    BY <1>1 DEF tailVars
  <2>2. /\ tail \in {"locating", "tailing", "stopped", "misled", "abandoned"}
        /\ soft \in BOOLEAN /\ errorLatch \in BOOLEAN /\ dead \in BOOLEAN
        /\ inbox \in Inboxes /\ faults \in 0 .. MaxFaults /\ faults <= faults
    BY TailAssumption DEF TailInv, TailShapes
  <2>3. QED
    BY <2>1, <2>2, StaysKeeps
<1>2. QED
  BY <1>1, BeginsKeeps, WritesKeeps, RotatesKeeps, TaskKeeps DEF TailNext

LEMMA TailBegins == ASSUME TailInit PROVE TailInv
<1>1. /\ flavor \in Flavors /\ rows = <<>> /\ file = <<>> /\ feed = <<>> /\ usage = <<>> /\ faults = 0
      /\ st = [offset |-> 0, partial |-> <<>>, pending |-> [t \in Tools |-> 0], seq |-> 0]
  BY DEF TailInit
<1>2. /\ rows \in Seq(WideRows) /\ file \in Seq(Cells) /\ feed \in Seq(FeedRows) /\ usage \in Seq(UsageRows)
      /\ <<>> \in Seq(Cells) /\ <<>> \in Inboxes
  BY <1>1 DEF Inboxes
<1>3. st \in StShapes /\ Len(st.partial) <= MaxLine
  BY <1>1, <1>2, TailAssumption DEF StShapes
<1>4. View = [pending |-> [t \in Tools |-> 0], seq |-> 0, feed |-> <<>>, usage |-> <<>>]
  BY <1>1 DEF View
<1>5. IsView(View)
  <2>1. View \in Views
    BY <1>1, <1>2, <1>4 DEF Views
  <2>2. DOMAIN View.feed = {} /\ \A t \in Tools : View.pending[t] = 0 /\ View.seq = 0
    BY <1>4
  <2>3. QED
    BY <2>1, <2>2 DEF IsView
<1>6. TailShapes
  <2>1. RowsAreRows
    BY <1>1, <1>2 DEF RowsAreRows
  <2>2. tail = "locating" /\ soft = FALSE /\ errorLatch = FALSE /\ dead = FALSE /\ inbox = <<>> /\ rotated = 0
    BY DEF TailInit
  <2>3. rotated \in 0 .. MaxRotations /\ faults \in 0 .. MaxFaults
    BY <1>1, <2>2, TailAssumption
  <2>4. QED
    BY <1>2, <1>3, <1>5, <2>1, <2>2, <2>3 DEF TailShapes
<1>7. FileIsWhole
  BY <1>1 DEF FileIsWhole
<1>8. PartialIsRest
  BY <1>1 DEF PartialIsRest, StartsClean
<1>9. DOMAIN rows = {}
  BY <1>1
<1>10. ReadRows = {}
  BY <1>9 DEF ReadRows
<1>11. Cardinality({}) = 0
  BY FS_EmptySet
<1>12. Listed({}, View)
  <2>1. StepsOf({}) = {} /\ ShownOf({}) = {} /\ \A t : OpenOf({}, t) = {}
    BY DEF StepsOf, ShownOf, OpenOf
  <2>2. View.seq = 0 /\ View.feed = <<>> /\ \A t \in Tools : View.pending[t] = 0
    BY <1>4
  <2>3. FeedIs({}, <<>>)
    BY <1>11, <2>1 DEF FeedIs
  <2>4. QED
    BY <1>11, <2>1, <2>2, <2>3 DEF Listed
<1>13. Billed({}, <<>>, 0)
  <2>1. TurnsOf({}) = {}
    BY DEF TurnsOf
  <2>2. QED
    BY <1>11, <2>1 DEF Billed
<1>14. Grown
  BY <1>1, <1>7, <1>8, <1>10, <1>12, <1>13 DEF Grown
<1>15. QED
  BY <1>6, <1>14 DEF TailInv

-----------------------------------------------------------------------------
(* The theorems.                                                            *)

\* The inductive invariant of the tailer: the file is whole rows, the partial line
\* is its end before the offset, and what was shown and billed is what a reader
\* of the complete rows would list.
THEOREM TailIsSound == TailSpec => []TailInv
<1>1. TailInit => TailInv
  BY TailBegins
<1>2. TailInv /\ [TailNext]_tailVars => TailInv'
  BY TailStepKeeps
<1>3. QED
  BY <1>1, <1>2, PTL DEF TailSpec

\* The tailer's state keeps its types: the results that wait have numbers that
\* were given out, and the partial line is never longer than a line may be.
THEOREM TailTypesHold == TailSpec => []TailTypeOK
<1>1. TailInv => TailTypeOK
  <2>1. SUFFICES ASSUME TailInv PROVE TailTypeOK
    OBVIOUS
  <2>2. TailShapes
    BY <2>1 DEF TailInv
  <2>3. RowsAreRows /\ IsView(View) /\ st.offset \in Nat /\ usage \in Seq(UsageRows) /\ feed \in Seq(FeedRows)
    BY <2>2, StFields, ViewFields
  <2>4. View.pending = st.pending /\ View.seq = st.seq /\ View.feed = feed
    BY DEF View
  <2>5. View.seq \in Nat /\ View.pending \in [Tools -> Nat]
    BY <2>3 DEF IsView, Views
  <2>6. \A t \in Tools : st.pending[t] \in Nat /\ st.pending[t] <= st.seq /\ st.seq \in Nat
    BY <2>3, <2>4, <2>5 DEF IsView
  <2>7. \A t \in Tools : st.pending[t] \in 0 .. st.seq
    BY <2>6
  <2>8. \A i \in DOMAIN feed : feed[i].phase \in Phases /\ feed[i].seq \in 1 .. st.seq
    <3>1. \A i \in DOMAIN feed : feed[i] \in FeedRows
      BY <2>3, SeqSpans
    <3>2. \A i \in DOMAIN feed : feed[i].seq \in 1 .. st.seq
      BY <2>3, <2>4 DEF IsView
    <3>3. QED
      BY <3>1, <3>2 DEF FeedRows
  <2>9. QED
    BY <2>2, <2>3, <2>7, <2>8 DEF TailTypeOK, TailShapes, RowsAreRows
<1>2. QED
  BY <1>1, TailIsSound, PTL

\* Each row of a file that only grows is shown once, in order, and each result
\* with its call, whatever the cuts of writes and chunks, the huge rows, the
\* failed inserts and the end of the tailer.
THEOREM RowsAreReadOnce == TailSpec => []ReadExactlyOnce
<1>1. TailInv => ReadExactlyOnce
  <2>1. SUFFICES ASSUME TailInv, rotated = 0 PROVE ReadExactlyOnce
    BY DEF ReadExactlyOnce
  <2>2. FeedIs(ReadRows, View.feed) /\ View.feed = feed
    BY <2>1 DEF TailInv, Grown, Listed, View
  <2>3. QED
    BY <2>2 DEF FeedIs, ReadExactlyOnce
<1>2. QED
  BY <1>1, TailIsSound, PTL

\* The prompts of a file that only grows are billed once and in order, and only a
\* failed insert loses any.
THEOREM PromptsAreBilled == TailSpec => []PromptsAreBilledOnce
<1>1. TailInv => PromptsAreBilledOnce
  <2>1. SUFFICES ASSUME TailInv, rotated = 0 PROVE PromptsAreBilledOnce
    BY DEF PromptsAreBilledOnce
  <2>2. Billed(ReadRows, usage, faults)
    BY <2>1 DEF TailInv, Grown
  <2>3. QED
    BY <2>2 DEF Billed, Bills, PromptsAreBilledOnce
<1>2. QED
  BY <1>1, TailIsSound, PTL
=============================================================================
