------------------------------- MODULE CronExpr -------------------------------
(***************************************************************************)
(* timer/cronexpr.go of leaf: parseCronField, which turns the items of a   *)
(* field into a bit set, and Next, which advances a time field by field    *)
(* until all match.  The calendar is small: the months have different      *)
(* lengths, and the days of the week go on through them.                   *)
(*                                                                         *)
(* A time is the number of seconds that the clocks of its location show;   *)
(* its absolute time is less by the offset of the zone, which is a whole   *)
(* number of hours only in some places (+05:30).  The offset stays: no     *)
(* clock is put forward or back between the argument and the result.       *)
(***************************************************************************)
EXTENDS Integers, Sequences, SequencesExt, FiniteSetsExt

CONSTANTS
  MonthDays,       \* days of each month of a year, a sequence
  Week,            \* days of a week
  Hours, Minutes, Seconds,   \* of a day, an hour, a minute
  Zones,           \* offsets of locations, in seconds
  Starts,          \* times Next is called with, in seconds
  Fields           \* of each name, the items an expression may have

VARIABLES
  expr,            \* CronExpr: of each name the set of values, or Invalid
  zone,            \* offset of the location of from
  from,            \* the argument of Next
  t,               \* the time Next has come to
  initFlag,
  pc               \* where Next is: a field, "done" or "zero"

vars == <<expr, zone, from, t, initFlag, pc>>

-----------------------------------------------------------------------------
\* The calendar (package time): of a number of seconds, its fields.
MinuteLen == Seconds
HourLen == Minutes * MinuteLen
DayLen == Hours * HourLen
YearDays == FoldLeft(LAMBDA a, b : a + b, 0, MonthDays)
DaysBefore(m) == FoldLeft(LAMBDA a, b : a + b, 0, SubSeq(MonthDays, 1, m - 1))

DayOf(x) == x \div DayLen
Year(x) == DayOf(x) \div YearDays
YearDay(x) == DayOf(x) % YearDays
Month(x) == Max({m \in DOMAIN MonthDays : DaysBefore(m) <= YearDay(x)})
Day(x) == YearDay(x) - DaysBefore(Month(x)) + 1
Weekday(x) == DayOf(x) % Week
Hour(x) == (x \div HourLen) % Hours
Minute(x) == (x \div MinuteLen) % Minutes
Second(x) == x % Seconds

\* time.Date of the first instant of a day, and AddDate of a month and of a day.
Date(y, m, d) == (y * YearDays + DaysBefore(m) + d - 1) * DayLen
AddMonth(x) == x + MonthDays[Month(x)] * DayLen
AddDay(x) == x + DayLen
Midnight(x) == x - (x % DayLen)

\* time.Truncate of a unit: down to a multiple of it of the absolute time.
Truncate(x, unit) == x - ((x - zone) % unit)

-----------------------------------------------------------------------------
Invalid == {-1}

Bounds == [sec |-> <<0, Seconds - 1>>, min |-> <<0, Minutes - 1>>, hour |-> <<0, Hours - 1>>,
           dom |-> <<1, Max(Range(MonthDays))>>, month |-> <<1, Len(MonthDays)>>, dow |-> <<0, Week - 1>>]

\* An item: "*" or a number to begin with, after "-" a last number, after "/" a step, of
\* which the last two may be missing.
None == -1
Star == -2

Start(item, min) == IF item.start = Star THEN min ELSE item.start

End(item, max) ==
  CASE item.start = Star -> max
    [] item.end # None   -> item.end
    [] item.incr # None  -> max
    [] OTHER             -> item.start

Valid(item, min, max) ==
  /\ item.start = Star => item.end = None
  /\ Start(item, min) <= End(item, max)
  /\ Start(item, min) >= min /\ End(item, max) <= max
  /\ item.incr = None \/ item.incr > 0

Steps(first, last, incr) == {i \in first .. last : (i - first) % incr = 0}

\* parseCronField.
Parse(items, b) ==
  IF \A k \in items : Valid(k, b[1], b[2])
  THEN UNION {Steps(Start(k, b[1]), End(k, b[2]), IF k.incr = None THEN 1 ELSE k.incr) : k \in items}
  ELSE Invalid

\* NewCronExpr: an expression of which every field is valid; Next is called with a time.
Init ==
  /\ \E sec \in Fields.sec, min \in Fields.min, hour \in Fields.hour, dom \in Fields.dom,
        month \in Fields.month, dow \in Fields.dow :
       expr = [sec |-> Parse(sec, Bounds.sec), min |-> Parse(min, Bounds.min),
               hour |-> Parse(hour, Bounds.hour), dom |-> Parse(dom, Bounds.dom),
               month |-> Parse(month, Bounds.month), dow |-> Parse(dow, Bounds.dow)]
  /\ from \in Starts /\ zone \in Zones
  /\ t = from /\ initFlag = FALSE
  /\ pc = IF \E n \in DOMAIN Bounds : expr[n] = Invalid THEN "error" ELSE "call"

-----------------------------------------------------------------------------
\* matchDay: a field that lists every day leaves the choice to the other.
MatchDay(x) ==
  LET all(n) == expr[n] = Bounds[n][1] .. Bounds[n][2]
  IN  CASE all("dom") -> Weekday(x) \in expr.dow
        [] all("dow") -> Day(x) \in expr.dom
        [] OTHER      -> Weekday(x) \in expr.dow \/ Day(x) \in expr.dom

\* The upcoming second.
Call ==
  /\ pc = "call"
  /\ t' = from + 1
  /\ pc' = "year"
  /\ UNCHANGED <<expr, zone, from, initFlag>>

\* retry: two years are searched.
TryYear ==
  /\ pc = "year"
  /\ pc' = IF Year(t) > Year(from + 1) + 1 THEN "zero" ELSE "month"
  /\ UNCHANGED <<expr, zone, from, t, initFlag>>

\* A round of the loop of a field: the first one that does not match clears the fields below.
Round(here, match, cleared, Add(_), wrapped(_), next) ==
  /\ pc = here
  /\ IF match THEN pc' = next /\ UNCHANGED <<t, initFlag>>
     ELSE /\ initFlag' = TRUE
          /\ t' = Add(IF initFlag THEN t ELSE cleared)
          /\ pc' = IF wrapped(t') THEN "year" ELSE here
  /\ UNCHANGED <<expr, zone, from>>

\* Mutant: the day and the time of day are kept.
TryMonth_KeepsDay == Round("month", Month(t) \in expr.month, t, AddMonth,
                           LAMBDA x : Month(x) = 1, "day")

TryMonth == Round("month", Month(t) \in expr.month, Date(Year(t), Month(t), 1), AddMonth,
                  LAMBDA x : Month(x) = 1, "day")
TryDay == Round("day", MatchDay(t), Midnight(t), AddDay, LAMBDA x : Day(x) = 1, "hour")
TryHour == Round("hour", Hour(t) \in expr.hour, Truncate(t, HourLen), LAMBDA x : x + HourLen,
                 LAMBDA x : Hour(x) = 0, "minute")
TryMinute == Round("minute", Minute(t) \in expr.min, Truncate(t, MinuteLen), LAMBDA x : x + MinuteLen,
                   LAMBDA x : Minute(x) = 0, "second")
TrySecond == Round("second", Second(t) \in expr.sec, t, LAMBDA x : x + 1, LAMBDA x : Second(x) = 0, "done")

Next == Call \/ TryYear \/ TryMonth \/ TryDay \/ TryHour \/ TryMinute \/ TrySecond

Spec == Init /\ [][Next]_vars

-----------------------------------------------------------------------------
Matches(x) ==
  /\ Month(x) \in expr.month /\ MatchDay(x)
  /\ Hour(x) \in expr.hour /\ Minute(x) \in expr.min /\ Second(x) \in expr.sec

\* The matches Next has passed over
Passed == {x \in from + 1 .. t - 1 : Matches(x)}

\* Times at the beginning of an hour or a minute, of which Truncate of the absolute time
\* leaves a rest when the offset has a part that is less than the unit
Early(x) == x % HourLen < zone % HourLen \/ x % MinuteLen < zone % MinuteLen

\* Next returns a time after its argument that matches the expression.  Where the offset of
\* the zone is a whole number of hours it is the first one: Next passes over none, and gives
\* up only when this year and the next have none.  Elsewhere Next goes through the hours at
\* the minute its rounding has left, and may miss times that are Early; where the offset is a
\* whole number of minutes they are all in one hour, so that Next is right from then on.
CronNext ==
  /\ pc = "done" => t > from /\ Matches(t)
  /\ pc \notin {"call", "error"} =>
       LET passed == Passed IN
       /\ \A x \in passed : Early(x)
       /\ zone % MinuteLen = 0 => \A x, y \in passed : x \div HourLen = y \div HourLen
  /\ pc = "zero" => Year(t) > Year(from + 1) + 1
=============================================================================
