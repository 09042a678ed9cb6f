------------------------------- MODULE CronExpr -------------------------------
(***************************************************************************)
(* Five-field cron expressions, as backend/internal/cronexpr parses them   *)
(* and looks for the next minute that matches.                             *)
(*                                                                         *)
(* The calendar belongs to the package time of Go and to the zone of the   *)
(* server; it is given by constants: minutes are counted from 1, days from *)
(* 1, and Wall and Instant say what the clocks of the zone show.  The      *)
(* search goes from one candidate to the next; Advance is one turn of its  *)
(* loop, so that a search that never ends can be told from one that does.  *)
(***************************************************************************)
EXTENDS Integers

CONSTANTS
  LastMinute,      \* bound: the end of the calendar
  Horizon,         \* bound: searches end before this minute
  Days,            \* the days of the calendar
  MinutesPerHour, HoursPerDay, DaysPerMonth, MonthsPerYear, DaysPerWeek,
  Dates,           \* the month, day of the month and weekday of each day
  Wall,            \* the day, hour and minute the clocks show in each minute
  Instant,         \* time.Date: the minute of a day, an hour and a minute
  FirstOfMonth,    \* the first day of the month of a day
  AddMonth,        \* the same day a month later: AddDate(0, 1, 0)
  AddYears         \* the same day as many years later as Next looks ahead

Minutes == 1 .. LastMinute
Hours == 0 .. HoursPerDay - 1
Mins == 0 .. MinutesPerHour - 1

\* The zero time.Time, long before every minute.
Zero == 0

Part == [star : BOOLEAN, lo : Int, hi : Int, step : Int]
Field == [bare : BOOLEAN, parts : SUBSET Part]
Text == [minute : Field, hour : Field, dom : Field, month : Field, dow : Field]

ASSUME SizesAssumption ==
  {LastMinute, Horizon, MinutesPerHour, HoursPerDay} \subseteq Nat /\ Horizon <= LastMinute
ASSUME ClocksAssumption ==
  Wall \in [Minutes -> [day : Days, hour : Hours, minute : Mins]]

------------------------------------------------------------------------------
(* Parsing.  A field is a list of parts; "*" is a part of every value, and *)
(* a number is a range of one.  bare: the field is the text "*".           *)

InRange(part, min, max) ==
  part.step > 0 /\ (part.star \/ (min <= part.lo /\ part.lo <= part.hi /\ part.hi <= max))

Values(part, min, max) ==
  LET lo == IF part.star THEN min ELSE part.lo
      hi == IF part.star THEN max ELSE part.hi
  IN {v \in lo .. hi : (v - lo) % part.step = 0}

FieldParses(field, min, max) ==
  field.parts # {} /\ \A part \in field.parts : InRange(part, min, max)
ParseField(field, min, max) == UNION {Values(part, min, max) : part \in field.parts}

Parses(text) ==
  /\ FieldParses(text.minute, 0, MinutesPerHour - 1)
  /\ FieldParses(text.hour, 0, HoursPerDay - 1)
  /\ FieldParses(text.dom, 1, DaysPerMonth)
  /\ FieldParses(text.month, 1, MonthsPerYear)
  /\ FieldParses(text.dow, 0, DaysPerWeek - 1)

Parse(text) == [
  minute  |-> ParseField(text.minute, 0, MinutesPerHour - 1),
  hour    |-> ParseField(text.hour, 0, HoursPerDay - 1),
  dom     |-> ParseField(text.dom, 1, DaysPerMonth),
  month   |-> ParseField(text.month, 1, MonthsPerYear),
  dow     |-> ParseField(text.dow, 0, DaysPerWeek - 1),
  domStar |-> text.dom.bare,
  dowStar |-> text.dow.bare]

------------------------------------------------------------------------------
(* Searching.                                                              *)

\* A "*" does not restrict; of two restrictions either is enough.
DayMatches(s, d) ==
  LET domOK == s.domStar \/ Dates[d].dom \in s.dom
      dowOK == s.dowStar \/ Dates[d].dow \in s.dow
  IN IF s.domStar \/ s.dowStar THEN domOK /\ dowOK ELSE domOK \/ dowOK

MonthMatches(s, t) == Dates[Wall[t].day].month \in s.month
Matches(s, t) ==
  /\ MonthMatches(s, t)
  /\ DayMatches(s, Wall[t].day)
  /\ Wall[t].hour \in s.hour
  /\ Wall[t].minute \in s.minute

Least(S) == CHOOSE x \in S : \A y \in S : x <= y

NextMonth(t) ==
  LET first == Wall[Instant[FirstOfMonth[Wall[t].day]][0][0]]
  IN Instant[AddMonth[first.day]][first.hour][first.minute]

NextDay(t) ==
  LET midnight == Wall[Instant[Wall[t].day][0][0]]
  IN Instant[midnight.day + 1][midnight.hour][midnight.minute]

NextHour(s, t) ==
  LET later == {h \in s.hour : h > Wall[t].hour}
  IN IF later = {} THEN NextDay(t) ELSE Instant[Wall[t].day][Least(later)][0]

\* (Slip: the rest of the hour is not looked at.)
NextHourAnyway(s, t) == Instant[Wall[t].day][Wall[t].hour][0] + MinutesPerHour

NextMinute(s, t) ==
  LET later == {m \in s.minute : m > Wall[t].minute}
      hour == Instant[Wall[t].day][Wall[t].hour]
  IN IF later = {} THEN hour[0] + MinutesPerHour ELSE hour[Least(later)]

\* One turn of the loop of Next, for a minute that does not match.
Advance(s, t) ==
  IF ~MonthMatches(s, t) THEN NextMonth(t)
  ELSE IF ~DayMatches(s, Wall[t].day) THEN NextDay(t)
  ELSE IF Wall[t].hour \notin s.hour THEN NextHour(s, t)
  ELSE NextMinute(s, t)

\* What the search relies on: up to the horizon, each of its jumps goes forward
\* and passes over minutes of the same month, of the same day, of earlier
\* hours of the day, of the same hour or of earlier minutes of the hour only.
\* It holds where clocks are never put forward or back.
Over(t, u) == IF u \in Minutes /\ t < u THEN t .. u - 1 ELSE {}
Forward(t, u) == u \in Minutes /\ t < u
SameDay(t, v) == Wall[v].day = Wall[t].day
SameHour(t, v) == SameDay(t, v) /\ Wall[v].hour = Wall[t].hour

Regular ==
  \A t \in 1 .. Horizon :
    /\ Forward(t, NextMonth(t)) /\ Forward(t, NextDay(t))
    /\ \A v \in Over(t, NextMonth(t)) : Dates[Wall[v].day].month = Dates[Wall[t].day].month
    /\ \A v \in Over(t, NextDay(t)) : SameDay(t, v) /\ Wall[v].hour >= Wall[t].hour
    /\ \A h \in Hours :
         LET u == Instant[Wall[t].day][h][0] IN
         h > Wall[t].hour =>
           /\ Forward(t, u)
           /\ \A v \in Over(t, u) : SameDay(t, v) /\ Wall[v].hour \in Wall[t].hour .. h - 1
    /\ \A m \in Mins :
         LET u == Instant[Wall[t].day][Wall[t].hour][m] IN
         m > Wall[t].minute =>
           /\ Forward(t, u)
           /\ \A v \in Over(t, u) : SameHour(t, v) /\ Wall[v].minute \in Wall[t].minute .. m - 1
    /\ LET u == Instant[Wall[t].day][Wall[t].hour][0] + MinutesPerHour IN
       /\ Forward(t, u)
       /\ \A v \in Over(t, u) : SameHour(t, v) /\ Wall[v].minute >= Wall[t].minute

Limit(after) == Instant[AddYears[Wall[after].day]][Wall[after].hour][Wall[after].minute]
==============================================================================
