----------------------------- MODULE Transcript -----------------------------
(***************************************************************************)
(* The tailer of one worker's session file: transcript.rs.  The worker's   *)
(* CLI appends JSON rows, in pieces; the tailer polls the file's tail in   *)
(* chunks, cuts it into lines, turns each line into tool events and token  *)
(* usage, and ends with the process.                                       *)
(*                                                                         *)
(* A row is written in cells, of which the last is the newline, so that    *)
(* chunks and rows do not meet.  A cell <<n, k>> is the k-th cell of the   *)
(* n-th row ever written.  The engines' row formats are external.          *)
(***************************************************************************)
EXTENDS Integers, Sequences, SequencesExt, FiniteSets

CONSTANTS
  Flavors,       \* the engines that are tailed: claude, codex, kimi
  Tools,         \* ids of tool calls
  MaxRead,       \* cells of one read
  MaxLine,       \* cells of the longest line that is looked at
  MaxRows,       \* bound: rows written
  MaxRotations,  \* bound: times the file is truncated or begun anew
  MaxFaults      \* bound: failed statements

ASSUME TailAssumption ==
  /\ MaxRead \in Nat \ {0} /\ MaxLine \in Nat \ {0}
  /\ MaxRows \in Nat /\ MaxRotations \in Nat /\ MaxFaults \in Nat

VARIABLES
  flavor,
  rows,      \* every row ever written or begun, with its width
  file,      \* what is in the file
  tail,      \* the tailer: locating, tailing, stopped, misled, abandoned
  st,        \* its TailState: offset, partial, pending, seq
  soft,      \* it heard of a soft error
  feed,      \* the activity it emitted
  usage,     \* the rows of agent_usage
  errorLatch,     \* agents.last_error is set
  dead,      \* the process is gone, and the row says so
  inbox,     \* lifecycle events that wait in its subscription
  rotated, faults

tailVars == <<flavor, rows, file, tail, st, soft, feed, usage, errorLatch, dead, inbox, rotated, faults>>

TailInit ==
  /\ flavor \in Flavors /\ rows = <<>> /\ file = <<>>
  /\ tail = "locating" /\ soft = FALSE
  /\ st = [offset |-> 0, partial |-> <<>>, pending |-> [t \in Tools |-> 0], seq |-> 0]
  /\ feed = <<>> /\ usage = <<>> /\ errorLatch = FALSE /\ dead = FALSE /\ inbox = <<>>
  /\ rotated = 0 /\ faults = 0

-----------------------------------------------------------------------------
(* The rows of the three formats: what the engine did, if anything, and    *)
(* the tokens of a turn, as the engine splits them.                        *)

NoTokens == [input |-> 0, cached |-> 0, output |-> 0]
Turn == [input |-> 3, cached |-> 2, output |-> 1]

NoEvent == [op |-> "none"]
Said == [op : {"think"}] \cup [op : {"call"}, id : Tools]
Results == [op : {"result"}, id : Tools, end : {"ok", "error"}]

\* claude has the tokens of a turn on a row of it, codex and kimi on their own.
Rows(f) ==
  [event : Results, tokens : {NoTokens}]
  \cup IF f = "claude" THEN [event : Said, tokens : {NoTokens, Turn}]
       ELSE [event : Said, tokens : {NoTokens}] \cup [event : {NoEvent}, tokens : {Turn}]

\* Tokens of the prompt: codex counts the cached ones in its input, the others
\* beside it.
Prompt(f, t) == IF f = "codex" THEN t.input ELSE t.input + t.cached

\* parse_claude, parse_codex, parse_kimi: the phase an event is shown in.  codex
\* has no error flag.
Parse(f, e) ==
  CASE e.op = "think" -> "pulse"
    [] e.op = "call"  -> "running"
    [] OTHER          -> IF f = "codex" THEN "ok" ELSE e.end

\* parse_usage that takes codex's input for the uncached part.
ParseUsageAsIs(f, row) ==
  IF row.tokens = NoTokens THEN <<>>
  ELSE <<[input |-> row.tokens.input, read |-> row.tokens.cached, output |-> row.tokens.output]>>

\* parse_usage: the cached part of codex's input is taken out of it.
ParseUsage(f, row) ==
  IF row.tokens = NoTokens THEN <<>>
  ELSE LET t == row.tokens
           uncached == IF t.input > t.cached THEN t.input - t.cached ELSE 0
       IN <<[input |-> IF f = "codex" THEN uncached ELSE t.input, read |-> t.cached, output |-> t.output]>>

-----------------------------------------------------------------------------
(* The CLI.                                                                 *)

Cell(n, k) == <<n, k>>
Width(n) == rows[n].width
EndsRow(c) == c[2] = Width(c[1])
Written == IF file = <<>> \/ Last(file)[1] # Len(rows) THEN 0 ELSE Last(file)[2]
RowIsTorn == rows # <<>> /\ Written < Width(Len(rows))

\* A row is begun: a short one, or one with a huge result in it.
CliBegins ==
  /\ ~dead /\ ~RowIsTorn /\ Len(rows) < MaxRows
  /\ \E row \in Rows(flavor), width \in {MaxLine, MaxLine + 2} :
       /\ width > MaxLine => row.event \in Results
       /\ rows' = Append(rows, [row |-> row, width |-> width])
  /\ file' = Append(file, Cell(Len(rows) + 1, 1))
  /\ UNCHANGED <<flavor, tail, st, soft, feed, usage, errorLatch, dead, inbox, rotated, faults>>

\* More of it reaches the file.
CliWrites ==
  /\ ~dead /\ RowIsTorn
  /\ \E upto \in Written + 1 .. Width(Len(rows)) :
       file' = file \o [k \in 1 .. upto - Written |-> Cell(Len(rows), Written + k)]
  /\ UNCHANGED <<flavor, rows, tail, st, soft, feed, usage, errorLatch, dead, inbox, rotated, faults>>

\* The file is cut back to some of its lines, or begun anew.
CliRotates ==
  /\ ~dead /\ ~RowIsTorn /\ file # <<>> /\ rotated < MaxRotations /\ rotated' = rotated + 1
  /\ \E k \in {0} \cup {i \in 1 .. Len(file) - 1 : EndsRow(file[i])} : file' = SubSeq(file, 1, k)
  /\ UNCHANGED <<flavor, rows, tail, st, soft, feed, usage, errorLatch, dead, inbox, faults>>

-----------------------------------------------------------------------------
(* TailState.                                                               *)

\* A step of its own number.
Numbered(s, phase) == [s EXCEPT !.seq = @ + 1, !.feed = Append(@, [phase |-> phase, seq |-> s.seq + 1])]

\* emit: a result has its call's number, and without a call it is ignored.
Emit(s, e) ==
  CASE e.op = "think" -> Numbered(s, Parse(flavor, e))
    [] e.op = "call"  -> [Numbered(s, Parse(flavor, e)) EXCEPT !.pending[e.id] = s.seq + 1]
    [] e.op = "result" /\ s.pending[e.id] # 0 ->
         [s EXCEPT !.pending[e.id] = 0,
                   !.feed = Append(@, [phase |-> Parse(flavor, e), seq |-> s.pending[e.id]])]
    [] OTHER -> s

\* One line: what it says is emitted, and its tokens are inserted, unless the
\* insert fails (persist_usage, best effort).
Takes(s, n, lost) ==
  [Emit(s, rows[n].row.event) EXCEPT
     !.usage = IF n \in lost THEN @ ELSE @ \o ParseUsage(flavor, rows[n].row)]

\* buf[i] is the newline of a line that is one whole row, not a piece of one
\* nor two run together, and not too long.
IsRow(buf, i) ==
  LET n == buf[i][1]
      w == Width(n)
  IN /\ EndsRow(buf[i]) /\ w <= MaxLine /\ w <= i
     /\ \A k \in 1 .. w : buf[i - w + k] = Cell(n, k)
     /\ i > w => EndsRow(buf[i - w])

\* The lines of a buffer, one after the other.
TakesAll(buf, lost) ==
  LET after[i \in 0 .. Len(buf)] ==
        IF i = 0 THEN [pending |-> st.pending, seq |-> st.seq, feed |-> feed, usage |-> usage]
        ELSE IF IsRow(buf, i) THEN Takes(after[i - 1], buf[i][1], lost)
        ELSE after[i - 1]
  IN after[Len(buf)]

\* What follows the last newline.
RestOf(buf) ==
  LET newlines == {i \in DOMAIN buf : EndsRow(buf[i])}
  IN IF newlines = {} THEN buf
     ELSE SubSeq(buf, 1 + CHOOSE i \in newlines : \A j \in newlines : j <= i, Len(buf))

\* poll: one chunk; a shorter file is read from its start, an overlong partial
\* line is dropped.
Poll(s) ==
  LET cut  == Len(file) < s.offset
      from == IF cut THEN 0 ELSE s.offset
      upto == IF Len(file) - from < MaxRead THEN Len(file) ELSE from + MaxRead
      buf  == (IF cut THEN <<>> ELSE s.partial) \o SubSeq(file, from + 1, upto)
      rest == RestOf(buf)
  IN [after |-> [s EXCEPT !.offset = upto, !.partial = IF Len(rest) > MaxLine THEN <<>> ELSE rest],
      buf   |-> buf]

-----------------------------------------------------------------------------
(* The tailer's task: run.                                                  *)

\* A poll and what it found, persisted; on a tick, activity after a soft error
\* clears the latch.
Reads(isTick) ==
  LET p      == Poll(st)
      seen   == {p.buf[i][1] : i \in {j \in DOMAIN p.buf : IsRow(p.buf, j)}}
      active == \E n \in seen : rows[n].row.event.op # "none"
  IN /\ \E lost \in SUBSET {n \in seen : ParseUsage(flavor, rows[n].row) # <<>>} :
          /\ faults + Cardinality(lost) <= MaxFaults /\ faults' = faults + Cardinality(lost)
          /\ \E s \in {TakesAll(p.buf, lost)} :
               /\ st' = [p.after EXCEPT !.pending = s.pending, !.seq = s.seq]
               /\ feed' = s.feed /\ usage' = s.usage
     /\ soft' = (soft /\ ~(isTick /\ active))
     /\ errorLatch' = (errorLatch /\ ~(soft /\ isTick /\ active))

Locates ==
  /\ tail = "locating" /\ file # <<>> /\ tail' = "tailing"
  /\ UNCHANGED <<flavor, rows, file, st, soft, feed, usage, errorLatch, dead, inbox, rotated, faults>>

GivesUp ==
  /\ tail = "locating" /\ file = <<>> /\ tail' = "abandoned"
  /\ UNCHANGED <<flavor, rows, file, st, soft, feed, usage, errorLatch, dead, inbox, rotated, faults>>

\* The tick; with nothing new in the file nothing happens.
Ticks ==
  /\ tail = "tailing" /\ Len(file) # st.offset /\ Reads(TRUE)
  /\ UNCHANGED <<flavor, rows, file, tail, dead, inbox, rotated>>

\* An Error whose agent_process_dead read fails is taken for the end.
Mishears ==
  /\ tail = "tailing" /\ inbox # <<>> /\ inbox' = Tail(inbox)
  /\ Head(inbox) = "error" /\ ~dead /\ MaxFaults > 0
  /\ tail' = "misled" /\ Reads(FALSE)
  /\ UNCHANGED <<flavor, rows, file, dead, rotated>>

\* Hears that takes every Error for the end.
HearsTheWorst ==
  /\ tail = "tailing" /\ inbox # <<>> /\ inbox' = Tail(inbox)
  /\ tail' = "stopped" /\ Reads(FALSE)
  /\ UNCHANGED <<flavor, rows, file, dead, rotated>>

\* A lifecycle event: Exited, and an Error of a dead process, end the tailer
\* after a last read; any other Error is kept in mind.
Hears ==
  /\ tail = "tailing" /\ inbox # <<>> /\ inbox' = Tail(inbox)
  /\ IF Head(inbox) = "exited" \/ dead
     THEN tail' = "stopped" /\ Reads(FALSE)
     ELSE soft' = TRUE /\ UNCHANGED <<tail, st, feed, usage, errorLatch, faults>>
  /\ UNCHANGED <<flavor, rows, file, dead, rotated>>

-----------------------------------------------------------------------------
(* The lifecycle task, the health scanner and the watchdogs publish to whom *)
(* subscribed.                                                              *)

PublishState(e) == inbox' = IF tail = "tailing" THEN Append(inbox, e) ELSE inbox

SoftErrors ==
  /\ ~dead /\ ~errorLatch /\ errorLatch' = TRUE /\ PublishState("error")
  /\ UNCHANGED <<flavor, rows, file, tail, st, soft, feed, usage, dead, rotated, faults>>

Dies ==
  /\ ~dead /\ dead' = TRUE /\ (\E e \in {"exited", "error"} : PublishState(e))
  /\ UNCHANGED <<flavor, rows, file, tail, st, soft, feed, usage, errorLatch, rotated, faults>>

\* The channel overran the tailer: what it missed is gone.
Lags ==
  /\ inbox # <<>> /\ faults < MaxFaults /\ faults' = faults + 1 /\ inbox' = <<>>
  /\ UNCHANGED <<flavor, rows, file, tail, st, soft, feed, usage, errorLatch, dead, rotated>>

-----------------------------------------------------------------------------
TailNext ==
  \/ CliBegins \/ CliWrites \/ CliRotates \/ Locates \/ GivesUp \/ Ticks \/ Hears \/ Mishears
  \/ SoftErrors \/ Dies \/ Lags

TailSpec == TailInit /\ [][TailNext]_tailVars

\* The tailer's task goes on; a row once begun is finished.  The tick can be
\* taken whenever the file is not at the offset: WF_tailVars(Ticks) unfolded,
\* and so for Hears.
TailFairness ==
  /\ WF_tailVars(Locates) /\ WF_tailVars(CliWrites)
  /\ []<>(tail # "tailing" \/ inbox = <<>>) \/ []<><<Hears>>_tailVars
  /\ []<>(tail # "tailing" \/ Len(file) = st.offset) \/ []<><<Ticks>>_tailVars

TailLiveSpec == TailSpec /\ TailFairness

-----------------------------------------------------------------------------
(* Properties.                                                              *)

Phases == {"running", "pulse", "ok", "error"}
UsageRows == [input : Nat, read : Nat, output : Nat]

TailTypeOK ==
  /\ flavor \in Flavors /\ tail \in {"locating", "tailing", "stopped", "misled", "abandoned"}
  /\ st.offset \in Nat /\ Len(st.partial) <= MaxLine
  /\ \A t \in Tools : st.pending[t] \in 0 .. st.seq
  /\ \A i \in DOMAIN feed : feed[i].phase \in Phases /\ feed[i].seq \in 1 .. st.seq
  /\ usage \in Seq(UsageRows) /\ soft \in BOOLEAN /\ errorLatch \in BOOLEAN /\ dead \in BOOLEAN
  /\ rotated \in 0 .. MaxRotations /\ faults \in 0 .. MaxFaults

\* The rows whose lines are complete below the offset, but for those that are
\* too long to be looked at.
ReadRows ==
  {n \in DOMAIN rows : Width(n) <= MaxLine /\ \E i \in 1 .. st.offset : file[i] = Cell(n, Width(n))}

\* What a reader with those rows R would list: every step numbered in order, a
\* result with the number of the latest call of its tool, unless that has had
\* its result.
Event(n) == rows[n].row.event
Nth(S, n) == Cardinality({m \in S : m <= n})
StepsOf(R) == {n \in R : Event(n).op \in {"think", "call"}}
CallsFor(R, n) ==
  {c \in R : /\ c < n /\ Event(c).op = "call" /\ Event(c).id = Event(n).id
             /\ \A m \in R : c < m /\ m < n /\ Event(m).op \in {"call", "result"} => Event(m).id # Event(n).id}
ShownOf(R) == StepsOf(R) \cup {n \in R : Event(n).op = "result" /\ CallsFor(R, n) # {}}
CallOf(R, n) == CHOOSE c \in CallsFor(R, n) : TRUE
NumberOf(R, n) == Nth(StepsOf(R), IF Event(n).op = "result" THEN CallOf(R, n) ELSE n)
TurnsOf(R) == {n \in R : rows[n].row.tokens # NoTokens}

\* As long as the file only grows, however it is torn between writes and
\* chunks and whatever too long a row is in it, the tailer has shown each of
\* its rows once, in order, each result with its call.
ReadExactlyOnce ==
  rotated = 0 =>
    LET shown == ShownOf(ReadRows)
    IN /\ Len(feed) = Cardinality(shown)
       /\ \A n \in shown :
            feed[Nth(shown, n)] = [phase |-> Parse(flavor, Event(n)), seq |-> NumberOf(ReadRows, n)]

\* As long as the file only grows, the tokens of the prompts are billed once
\* and in order: the cached ones of each engine are in one of the two columns
\* the cost is made of, and only a failed insert loses any.
PromptsAreBilledOnce ==
  rotated = 0 =>
    LET turns == TurnsOf(ReadRows)
        Bills(u, n) == u.input + u.read = Prompt(flavor, rows[n].row.tokens)
    IN /\ Len(usage) <= Cardinality(turns) /\ Cardinality(turns) <= Len(usage) + faults
       /\ \A k \in DOMAIN usage : \E n \in turns : Bills(usage[k], n)
       /\ faults = 0 => \A n \in turns : Bills(usage[Nth(turns, n)], n)

Total(seq, Val(_)) == FoldLeft(LAMBDA sum, x : sum + Val(x), 0, seq)

\* A worker that goes on writing is followed to the end of its file: while its
\* process lives and no failed read misled the tailer, soft errors, huge rows
\* and torn writes never make it stop short.
EverythingIsRead ==
  (tail = "tailing" /\ st.offset < Len(file)) ~> (st.offset = Len(file) \/ dead \/ tail = "misled")

\* A worker's end ends its tailer.
ExitIsTerminal == (dead /\ tail = "tailing") ~> (tail # "tailing")

\* What store.rs says of agent_usage: the tailer reads each line exactly once,
\* the offset only advances, so a usage line cannot be inserted twice.
UsageCountedOnce == Total(usage, LAMBDA u : u.input + u.read) <= Total(rows, LAMBDA r : Prompt(flavor, r.row.tokens))
=============================================================================
