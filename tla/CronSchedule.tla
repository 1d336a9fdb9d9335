---------------------------- MODULE CronSchedule ----------------------------
(***************************************************************************)
(* The arithmetic of schedules: what five cron fields match, what the      *)
(* form accepts, and the next run the list and the preview announce.       *)
(*                                                                         *)
(* Time is in minutes since the epoch.  The sizes of an hour and a day are *)
(* parameters, so that a few days can be searched minute by minute; the    *)
(* calendar of days is the real one.                                       *)
(***************************************************************************)
EXTENDS Integers, Sequences, FiniteSets

CONSTANTS
  HourLen, Hours,  \* minutes of an hour, hours of a day: 60 and 24
  Window,          \* days next_after looks ahead: 366
  StartDays,       \* days the walk begins at
  Walk,            \* bound: minutes walked
  Exprs,           \* expressions that are tried
  Offsets          \* minutes east of UTC

\* What stands between the commas of a field.
CronParts ==
  [is : {"star"}] \cup [is : {"step", "one"}, n : Nat] \cup [is : {"range"}, a : Nat, b : Nat]

ASSUME ScheduleAssumption ==
  /\ {HourLen, Hours, Window} \subseteq Nat \ {0}
  /\ StartDays \subseteq Int /\ Offsets \subseteq Int
  /\ \A e \in Exprs : e.minute \cup e.hour \cup e.dom \cup e.month \cup e.dow \subseteq CronParts

VARIABLES now, expr, offset

scheduleVars == <<now, expr, offset>>

DayLen == HourLen * Hours
NoRun == "none"

-----------------------------------------------------------------------------
(* The calendar.                                                            *)

\* civil_from_days.
Civil(days) ==
  LET z   == days + 719468
      era == z \div 146097
      doe == z - era * 146097
      yoe == (doe - doe \div 1460 + doe \div 36524 - doe \div 146096) \div 365
      doy == doe - (365 * yoe + yoe \div 4 - yoe \div 100)
      mp  == (5 * doy + 2) \div 153
      m   == IF mp < 10 THEN mp + 3 ELSE mp - 9
  IN [year |-> yoe + era * 400 + (IF m <= 2 THEN 1 ELSE 0), month |-> m,
      dom |-> doy - (153 * mp + 2) \div 5 + 1]

\* fields_from_unix.  The first of January 1970 was a Thursday.
Fields(t) ==
  LET days == t \div DayLen
      date == Civil(days)
  IN [minute |-> t % HourLen, hour |-> (t % DayLen) \div HourLen,
      dom |-> date.dom, month |-> date.month, dow |-> ((days % 7) + 4) % 7]

-----------------------------------------------------------------------------
(* Matching.  A field is a set of parts: every value, every n-th, a range,  *)
(* or one.                                                                  *)

PartMatches(p, value, min, max) ==
  CASE p.is = "star"  -> TRUE
    [] p.is = "step"  -> p.n # 0 /\ (IF value < min THEN 0 ELSE value - min) % p.n = 0
    [] p.is = "range" -> value >= p.a /\ value >= min /\ value <= p.b /\ value <= max
    [] OTHER          -> p.n = value

\* field_matches.
FieldMatches(parts, value, min, max) == \E p \in parts : PartMatches(p, value, min, max)

\* date_matches: Sunday is 0 or 7.
DateMatches(e, f) ==
  /\ FieldMatches(e.dom, f.dom, 1, 31) /\ FieldMatches(e.month, f.month, 1, 12)
  /\ \/ FieldMatches(e.dow, f.dow, 0, 6)
     \/ f.dow = 0 /\ FieldMatches(e.dow, 7, 0, 7)

TimeMatches(e, f) ==
  FieldMatches(e.hour, f.hour, 0, Hours - 1) /\ FieldMatches(e.minute, f.minute, 0, HourLen - 1)

\* matches.
Matches(e, f) == DateMatches(e, f) /\ TimeMatches(e, f)

\* field_valid and is_valid.
PartValid(p, min, max) ==
  CASE p.is = "star"  -> TRUE
    [] p.is = "step"  -> p.n # 0
    [] p.is = "range" -> p.a \in min .. max /\ p.b \in min .. max /\ p.a <= p.b
    [] OTHER          -> p.n \in min .. max
FieldValid(parts, min, max) == parts # {} /\ \A p \in parts : PartValid(p, min, max)
IsValid(e) ==
  /\ FieldValid(e.minute, 0, HourLen - 1) /\ FieldValid(e.hour, 0, Hours - 1)
  /\ FieldValid(e.dom, 1, 31) /\ FieldValid(e.month, 1, 12) /\ FieldValid(e.dow, 0, 7)

-----------------------------------------------------------------------------
\* next_after that jumps to the next midnight of UTC.
NextAfterByUtc(e, from, east) ==
  LET limit == from + 1 + Window * DayLen
      next[t \in from + 1 .. limit + DayLen] ==
        LET f == Fields(t + east)
        IN IF t > limit THEN NoRun
           ELSE IF ~DateMatches(e, f) THEN next[(t \div DayLen + 1) * DayLen]
           ELSE IF TimeMatches(e, f) THEN t
           ELSE next[t + 1]
  IN IF IsValid(e) THEN next[from + 1] ELSE NoRun

\* next_after: minute by minute, but a day whose date does not match is left
\* for the next local midnight.
NextAfter(e, from, east) ==
  LET limit == from + 1 + Window * DayLen
      next[t \in from + 1 .. limit + DayLen] ==
        LET f == Fields(t + east)
        IN IF t > limit THEN NoRun
           ELSE IF ~DateMatches(e, f) THEN next[((t + east) \div DayLen + 1) * DayLen - east]
           ELSE IF TimeMatches(e, f) THEN t
           ELSE next[t + 1]
  IN IF IsValid(e) THEN next[from + 1] ELSE NoRun

-----------------------------------------------------------------------------
(* A walk through some days.                                                *)

ScheduleInit ==
  /\ now \in {d * DayLen : d \in StartDays}
  /\ expr \in Exprs /\ offset \in Offsets

MinuteWalks == (now % DayLen) + 1 < Walk /\ now' = now + 1 /\ UNCHANGED <<expr, offset>>

ScheduleSpec == ScheduleInit /\ [][MinuteWalks]_scheduleVars

-----------------------------------------------------------------------------
(* Properties.                                                              *)

Leap(y) == y % 4 = 0 /\ (y % 100 # 0 \/ y % 400 = 0)
MonthLen(y, m) == IF m = 2 THEN (IF Leap(y) THEN 29 ELSE 28) ELSE IF m \in {4, 6, 9, 11} THEN 30 ELSE 31
Tomorrow(d) ==
  IF d.dom < MonthLen(d.year, d.month) THEN [d EXCEPT !.dom = @ + 1]
  ELSE IF d.month < 12 THEN [d EXCEPT !.month = @ + 1, !.dom = 1]
  ELSE [year |-> d.year + 1, month |-> 1, dom |-> 1]

\* The days follow each other as the calendar says, over the ends of months,
\* of leap years and of centuries, before the epoch and after it.
CalendarIsRight ==
  LET day == now \div DayLen
  IN Civil(0) = [year |-> 1970, month |-> 1, dom |-> 1] /\ Civil(day + 1) = Tomorrow(Civil(day))

\* The next run that is announced is the first minute the scheduler would
\* fire in, whatever the offset: no day is left that has one.
PreviewAgrees ==
  LET span  == now + 1 .. now + 1 + Window * DayLen
      fires == {t \in span : Matches(expr, Fields(t + offset))}
      next  == NextAfter(expr, now, offset)
  IN IsValid(expr) =>
       IF fires = {} THEN next = NoRun ELSE next \in fires /\ \A t \in fires : next <= t

\* No schedule is accepted one of whose fields never matches.
AcceptedFieldsFire ==
  IsValid(expr) =>
    /\ \E v \in 0 .. HourLen - 1 : FieldMatches(expr.minute, v, 0, HourLen - 1)
    /\ \E v \in 0 .. Hours - 1 : FieldMatches(expr.hour, v, 0, Hours - 1)
    /\ \E d \in 1 .. 31, m \in 1 .. 12, w \in 0 .. 6 : DateMatches(expr, [dom |-> d, month |-> m, dow |-> w])
=============================================================================
