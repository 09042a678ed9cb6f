----------------------------- MODULE MCAutopilot -----------------------------
(* Autopilot for TLC, with a small calendar: hours of two minutes, days of  *)
(* three hours, weeks of two days, years of two months.                     *)
EXTENDS Autopilot, Sequences

CONSTANTS
  Gap,   \* the first of the minutes that are skipped when summer time begins
  h1

MCMonths == <<2, 1, 2, 2, 2, 1, 2, 1>>
MCFirst == [i \in 1 .. 9 |-> 1 + LET sum[j \in 0 .. 8] == IF j = 0 THEN 0 ELSE sum[j - 1] + MCMonths[j]
                                IN sum[i - 1]]
MCDays == 1 .. MCFirst[9] - 1
MCMonthOf == [d \in MCDays |-> CHOOSE i \in 1 .. 8 : MCFirst[i] <= d /\ d < MCFirst[i + 1]]

MCDates == [d \in MCDays |-> [month |-> 1 + ((MCMonthOf[d] - 1) % 2),
                              dom |-> 1 + d - MCFirst[MCMonthOf[d]], dow |-> d % 2]]
Later(d, n) ==
  LET i == MCMonthOf[d] + n IN IF i > 8 THEN 1 ELSE MCFirst[i] + d - MCFirst[MCMonthOf[d]]
MCFirstOfMonth == [d \in MCDays |-> MCFirst[MCMonthOf[d]]]
MCAddMonth == [d \in MCDays |-> IF Later(d, 1) \in MCDays THEN Later(d, 1) ELSE 1]
MCAddYears == [d \in MCDays |-> IF Later(d, 4) \in MCDays THEN Later(d, 4) ELSE 1]

\* Minutes as the clocks count them; those in the gap never come.  Asked for
\* one of them, time.Date in a zone west of Greenwich goes an hour back.
MCLastMinute == 6 * (MCFirst[9] - 1) - 2
Clock(u) == IF u < Gap THEN u - 1 ELSE u + 1
MCWall == [u \in 1 .. MCLastMinute |->
             [day |-> 1 + Clock(u) \div 6, hour |-> (Clock(u) % 6) \div 2, minute |-> Clock(u) % 2]]
Shown(d, h, m) == LET v == 6 * (d - 1) + 2 * h + m + 1 IN IF v < Gap THEN v ELSE v - 2
MCInstant == [d \in MCDays |-> [h \in 0 .. 2 |-> [m \in 0 .. 1 |-> Shown(d, h, m)]]]

\* Without a gap the calendar is as the search wants it.
ASSUME Gap > MCLastMinute => Regular

Star == [bare |-> TRUE, parts |-> {[star |-> TRUE, lo |-> 0, hi |-> 0, step |-> 1]}]
Only(n) == [bare |-> FALSE, parts |-> {[star |-> FALSE, lo |-> n, hi |-> n, step |-> 1]}]
EveryOther == [bare |-> FALSE, parts |-> {[star |-> TRUE, lo |-> 0, hi |-> 0, step |-> 2]}]

AllTexts == [
  hourly   |-> [minute |-> Only(1), hour |-> Star, dom |-> Star, month |-> Star, dow |-> Star],
  second   |-> [minute |-> Only(0), hour |-> Only(1), dom |-> Star, month |-> Star, dow |-> Star],
  leapday  |-> [minute |-> Star, hour |-> EveryOther, dom |-> Only(2), month |-> Only(2), dow |-> Star],
  never    |-> [minute |-> Only(0), hour |-> Only(0), dom |-> Only(3), month |-> Only(2), dow |-> Star],
  wrong    |-> [minute |-> Only(2), hour |-> Star, dom |-> Star, month |-> Star, dow |-> Star]]

MCTextOf == [x \in Texts |-> AllTexts[x]]

In(trigger, text, hook, enabled) ==
  [trigger |-> trigger, text |-> text, hook |-> hook, enabled |-> enabled]
MCInputs == {In("cron", "hourly", h1, TRUE), In("cron", "leapday", NoHook, TRUE),
             In("webhook", "hourly", h1, TRUE), In("cron", "wrong", NoHook, TRUE),
             In("manual", "hourly", NoHook, FALSE)}
\* For "Known deviations" in the README, where DueIsServed fails: a date that
\* never comes, and with Gap = 9 a time that one day does not come.
MCNever == {In("cron", "never", NoHook, TRUE)}
MCSecond == {In("cron", "second", NoHook, TRUE)}
==============================================================================
