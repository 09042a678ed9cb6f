--------------------------- MODULE AutopilotProofs ---------------------------
(***************************************************************************)
(* Schedules are kept for any number of autopilots, webhooks, schedulers   *)
(* and requests, any specifications, and any calendar in which the jumps   *)
(* of the search go forward (Regular); with any number of failures.        *)
(*                                                                         *)
(* The argument: every copy of a row that is in flight agrees with itself  *)
(* (Sound), because a next run is only ever put into a copy by the search  *)
(* for that copy; so whichever copy is written last, the table has whole   *)
(* rows.  The search passes over no match because Advance does not.        *)
(***************************************************************************)
EXTENDS Autopilot, TLAPS, WellFoundedInduction

------------------------------------------------------------------------------
(* Least elements, and the fields of a schedule.                           *)

LEMMA LeastInSet ==
  ASSUME NEW S \in SUBSET Nat, S # {}
  PROVE  Least(S) \in S /\ \A y \in S : Least(S) <= y
<1>1. \E x \in S : \A y \in S : ~ (<<y, x>> \in OpToRel(<, Nat))
  BY NatLessThanWellFounded, WFMin
<1>2. PICK x \in S : \A y \in S : ~ (<<y, x>> \in OpToRel(<, Nat))
  BY <1>1
<1>3. ASSUME NEW y \in S
      PROVE  x <= y
  <2>1. x \in Nat /\ y \in Nat /\ ~ (<<y, x>> \in {p \in Nat \X Nat : p[1] < p[2]})
    BY <1>2 DEF OpToRel
  <2> QED
    BY <2>1
<1> QED
  BY <1>3 DEF Least

LEMMA ValuesInRange ==
  ASSUME NEW part \in Part, NEW min \in Nat, NEW max \in Nat, InRange(part, min, max)
  PROVE  Values(part, min, max) \subseteq min .. max
  BY DEF Part, InRange, Values

LEMMA FieldInRange ==
  ASSUME NEW field \in Field, NEW min \in Nat, NEW max \in Nat, FieldParses(field, min, max)
  PROVE  ParseField(field, min, max) \subseteq min .. max
  BY ValuesInRange DEF Field, FieldParses, ParseField

LEMMA ScheduleInRange ==
  ASSUME NEW row \in Row, Valid(row), HoursPerDay > 0, MinutesPerHour > 0
  PROVE  Schedule(row).hour \subseteq Hours /\ Schedule(row).minute \subseteq Mins
<1> DEFINE x == TextOf[row.text]
<1>1. row.text \in Texts /\ x \in Text /\ Parses(x) /\ Schedule(row) = Parse(x)
  BY TextsAssumption DEF Row, Valid, ValidTexts, Schedule, Schedules
<1>2. x.hour \in Field /\ x.minute \in Field
  BY <1>1 DEF Text
<1>3. HoursPerDay - 1 \in Nat /\ MinutesPerHour - 1 \in Nat
  BY SizesAssumption
<1>4. ParseField(x.hour, 0, HoursPerDay - 1) \subseteq 0 .. HoursPerDay - 1
  BY <1>1, <1>2, <1>3, FieldInRange DEF Parses
<1>5. ParseField(x.minute, 0, MinutesPerHour - 1) \subseteq 0 .. MinutesPerHour - 1
  BY <1>1, <1>2, <1>3, FieldInRange DEF Parses
<1> QED
  BY <1>1, <1>4, <1>5 DEF Parse, Hours, Mins

------------------------------------------------------------------------------
(* One turn of the search.                                                 *)

\* Advance goes forward, and over minutes that do not match.
LEMMA AdvanceSkipsNothing ==
  ASSUME Regular, NEW row \in Row, Valid(row), NEW t \in 1 .. Horizon,
         ~Matches(Schedule(row), t)
  PROVE  /\ Advance(Schedule(row), t) \in Minutes /\ t < Advance(Schedule(row), t)
         /\ \A v \in t .. Advance(Schedule(row), t) - 1 : ~Matches(Schedule(row), v)
<1> DEFINE s == Schedule(row)
<1>1. t \in Minutes /\ Minutes \subseteq Nat
  BY SizesAssumption DEF Minutes
<1>2. \A v \in Minutes : Wall[v].hour \in Hours /\ Wall[v].minute \in Mins
  BY ClocksAssumption
<1>3. HoursPerDay > 0 /\ MinutesPerHour > 0 /\ HoursPerDay \in Nat /\ MinutesPerHour \in Nat
  BY <1>1, <1>2, SizesAssumption DEF Hours, Mins
<1>4. s.hour \subseteq Hours /\ s.minute \subseteq Mins
  BY <1>3, ScheduleInRange
<1>5. Hours \subseteq Nat /\ Mins \subseteq Nat
  BY <1>3 DEF Hours, Mins
<1>6. CASE ~MonthMatches(s, t)
  <2>1. Advance(s, t) = NextMonth(t)
    BY <1>6 DEF Advance
  <2>2. /\ NextMonth(t) \in Minutes /\ t < NextMonth(t)
        /\ \A v \in t .. NextMonth(t) - 1 : Dates[Wall[v].day].month = Dates[Wall[t].day].month
    BY DEF Regular, Forward, Over
  <2> QED
    BY <1>6, <2>1, <2>2 DEF Matches, MonthMatches
<1>7. /\ NextDay(t) \in Minutes /\ t < NextDay(t)
      /\ \A v \in t .. NextDay(t) - 1 : Wall[v].day = Wall[t].day /\ Wall[v].hour >= Wall[t].hour
  BY DEF Regular, Forward, Over, SameDay
<1>8. CASE MonthMatches(s, t) /\ ~DayMatches(s, Wall[t].day)
  <2>1. Advance(s, t) = NextDay(t)
    BY <1>8 DEF Advance
  <2> QED
    BY <1>7, <1>8, <2>1 DEF Matches
<1>9. CASE MonthMatches(s, t) /\ DayMatches(s, Wall[t].day) /\ Wall[t].hour \notin s.hour
  <2> DEFINE later == {h \in s.hour : h > Wall[t].hour}
  <2>1. Advance(s, t) = NextHour(s, t)
    BY <1>9 DEF Advance
  <2>2. CASE later = {}
    <3>1. NextHour(s, t) = NextDay(t)
      BY <2>2 DEF NextHour
    <3>2. ASSUME NEW v \in t .. NextDay(t) - 1
          PROVE  Wall[v].hour \notin s.hour
      <4>1. v \in Minutes
        BY <1>1, <1>7, SizesAssumption DEF Minutes
      <4>2. Wall[v].hour \in Nat /\ Wall[t].hour \in Nat
        BY <4>1, <1>1, <1>2, <1>5
      <4> QED
        BY <1>7, <1>9, <2>2, <4>2
    <3> QED
      BY <1>7, <2>1, <3>1, <3>2 DEF Matches
  <2>3. CASE later # {}
    <3> DEFINE h == Least(later)
               u == Instant[Wall[t].day][h][0]
    <3>1. h \in later /\ \A y \in later : h <= y
      BY <2>3, <1>4, <1>5, LeastInSet
    <3>2. NextHour(s, t) = u
      BY <2>3 DEF NextHour
    <3>3. h \in Hours /\ h > Wall[t].hour
      BY <3>1, <1>4
    <3>4. /\ u \in Minutes /\ t < u
          /\ \A v \in t .. u - 1 : Wall[v].hour \in Wall[t].hour .. h - 1
      BY <3>3 DEF Regular, Forward, Over
    <3>5. ASSUME NEW v \in t .. u - 1
          PROVE  Wall[v].hour \notin s.hour
      <4>1. Wall[v].hour \in Wall[t].hour .. h - 1 /\ Wall[t].hour \in Nat /\ h \in Nat
        BY <3>3, <3>4, <1>1, <1>2, <1>5
      <4>2. ASSUME Wall[v].hour \in later
            PROVE  FALSE
        <5>1. h <= Wall[v].hour
          BY <4>2, <3>1
        <5> QED
          BY <5>1, <4>1
      <4> QED
        BY <4>1, <4>2, <1>9
    <3> QED
      BY <2>1, <3>2, <3>4, <3>5 DEF Matches
  <2> QED
    BY <2>2, <2>3
<1>10. CASE /\ MonthMatches(s, t) /\ DayMatches(s, Wall[t].day)
            /\ Wall[t].hour \in s.hour
  <2> DEFINE later == {m \in s.minute : m > Wall[t].minute}
             hour == Instant[Wall[t].day][Wall[t].hour]
  <2>1. Advance(s, t) = NextMinute(s, t) /\ Wall[t].minute \notin s.minute
    BY <1>10 DEF Advance, Matches
  <2>2. CASE later = {}
    <3> DEFINE u == hour[0] + MinutesPerHour
    <3>1. NextMinute(s, t) = u
      BY <2>2 DEF NextMinute
    <3>2. /\ u \in Minutes /\ t < u
          /\ \A v \in t .. u - 1 : Wall[v].minute >= Wall[t].minute
      BY DEF Regular, Forward, Over
    <3>3. ASSUME NEW v \in t .. u - 1
          PROVE  Wall[v].minute \notin s.minute
      <4>1. v \in Minutes
        BY <1>1, <3>2, SizesAssumption DEF Minutes
      <4>2. Wall[v].minute \in Nat /\ Wall[t].minute \in Nat
        BY <4>1, <1>1, <1>2, <1>5
      <4> QED
        BY <2>1, <2>2, <3>2, <4>2
    <3> QED
      BY <2>1, <3>1, <3>2, <3>3 DEF Matches
  <2>3. CASE later # {}
    <3> DEFINE m == Least(later)
               u == hour[m]
    <3>1. m \in later /\ \A y \in later : m <= y
      BY <2>3, <1>4, <1>5, LeastInSet
    <3>2. NextMinute(s, t) = u
      BY <2>3 DEF NextMinute
    <3>3. m \in Mins /\ m > Wall[t].minute
      BY <3>1, <1>4
    <3>4. /\ u \in Minutes /\ t < u
          /\ \A v \in t .. u - 1 : Wall[v].minute \in Wall[t].minute .. m - 1
      BY <3>3 DEF Regular, Forward, Over
    <3>5. ASSUME NEW v \in t .. u - 1
          PROVE  Wall[v].minute \notin s.minute
      <4>1. Wall[v].minute \in Wall[t].minute .. m - 1 /\ Wall[t].minute \in Nat /\ m \in Nat
        BY <3>3, <3>4, <1>1, <1>2, <1>5
      <4>2. ASSUME Wall[v].minute \in later
            PROVE  FALSE
        <5>1. m <= Wall[v].minute
          BY <4>2, <3>1
        <5> QED
          BY <5>1, <4>1
      <4> QED
        BY <4>1, <4>2, <2>1
    <3> QED
      BY <2>1, <3>2, <3>4, <3>5 DEF Matches
  <2> QED
    BY <2>2, <2>3
<1> QED
  BY <1>6, <1>8, <1>9, <1>10

------------------------------------------------------------------------------
(* The inductive invariant: the copies of rows in flight are sound.        *)

\* A row of a list, that a worker with these local variables may act on.
Listed(o, row) == row.trigger \in Triggers /\ Agrees(row) /\ (o.req = "tick" => row.trigger = "cron")

ListOK(o) == \A a \in Pilots : o.list[a] = NoRow \/ Listed(o, o.list[a])

SearchOK(o) ==
  /\ o.row.trigger = "cron" /\ Valid(o.row)
  /\ o.after \in 1 .. MaxNow
  /\ o.t \in Minutes /\ o.after < o.t
  /\ NoMatch(o.row, o.after + 1, o.t - 1)

SaveOK(o) ==
  /\ o.row.trigger \in Triggers /\ Agrees(o.row)
  /\ o.row.trigger = "cron" =>
       NoMatch(o.row, o.after + 1, (IF o.row.next = Zero THEN Limit(o.after) ELSE o.row.next) - 1)

OpOK(o) ==
  /\ o \in Ops
  /\ ListOK(o)
  /\ o.req = "tick" => o.after \in 1 .. MaxNow
  /\ o.pc = "act" => Listed(o, o.row)
  /\ o.pc = "list" => o.req # "tick"
  /\ o.pc = "lookup" => o.row.trigger = "webhook" /\ o.row.next = Unset /\ o.req # "tick"
  /\ o.pc = "search" => SearchOK(o)
  /\ o.pc = "save" => SaveOK(o)

IInv == TypeOK /\ RowsAgree /\ \A w \in Workers : OpOK(op[w])

LEMMA NoRowOK == NoRow \in Row /\ Agrees(NoRow) /\ NoRow.trigger = "none"
  BY TextsAssumption, SizesAssumption DEF NoRow, AnyText, Row, Agrees, Times, Unset, Zero, Minutes

LEMMA GoneOK == Gone \in Row /\ Agrees(Gone)
<1>1. Gone.trigger = "gone" /\ Gone.next = Unset /\ Gone \in Row
  BY NoRowOK DEF Gone, Row, NoRow
<1>2. Unset \notin Minutes
  BY SizesAssumption DEF Unset, Minutes
<1> QED
  BY <1>1, <1>2 DEF Agrees

LEMMA IdleOK == OpOK(Idle)
<1>1. Idle \in Ops
  BY NoRowOK DEF Idle, Ops, Times, Unset
<1> QED
  BY <1>1 DEF OpOK, ListOK, Idle

LEMMA TakeNextOK ==
  ASSUME NEW o \in Ops, ListOK(o), o.req = "tick" => o.after \in 1 .. MaxNow
  PROVE  OpOK(TakeNext(o))
<1> DEFINE rest == {a \in Pilots : o.list[a] # NoRow}
           a == Least(rest)
<1>1. CASE rest = {}
  BY <1>1, IdleOK DEF TakeNext
<1>2. CASE rest # {}
  <2> DEFINE p == [o EXCEPT !.pc = "act", !.pilot = a, !.row = o.list[a], !.list[a] = NoRow, !.t = Unset]
  <2>1. a \in rest
    BY <1>2, PilotsAssumption, LeastInSet
  <2>2. TakeNext(o) = p
    BY <1>2 DEF TakeNext
  <2>3. /\ p.pc = "act" /\ p.req = o.req /\ p.after = o.after /\ p.row = o.list[a] /\ p.t = Unset
        /\ p.hook = o.hook /\ p.on = o.on /\ p.pilot = a
        /\ p.list = [o.list EXCEPT ![a] = NoRow]
    BY DEF Ops
  <2>4. p \in Ops
    BY <2>1, NoRowOK DEF Ops, Times
  <2>5. ListOK(p)
    <3>1. p.list \in [Pilots -> Row] /\ o.list \in [Pilots -> Row]
      BY <2>4 DEF Ops
    <3>2. \A b \in Pilots : p.list[b] = NoRow \/ p.list[b] = o.list[b]
      BY <2>3, <3>1
    <3> QED
      BY <2>3, <3>2 DEF ListOK, Listed
  <2>6. Listed(p, p.row)
    BY <2>1, <2>3 DEF ListOK, Listed
  <2> QED
    BY <2>2, <2>3, <2>4, <2>5, <2>6 DEF OpOK
<1> QED
  BY <1>1, <1>2

LEMMA RescheduleOK ==
  ASSUME NEW o \in Ops, NEW after \in 1 .. MaxNow, ListOK(o),
         o.row.trigger \in Triggers, o.row.trigger = "cron" => Valid(o.row),
         o.row.trigger # "cron" => o.row.next = Unset, o.req = "tick" => o.row.trigger = "cron"
  PROVE  OpOK(Reschedule(o, after))
<1>1. after \in Minutes /\ after + 1 \in Minutes
  BY BoundsAssumption, SizesAssumption DEF Minutes
<1>2. CASE o.row.trigger = "cron"
  <2> DEFINE p == [o EXCEPT !.pc = "search", !.after = after, !.t = after + 1]
  <2>1. Reschedule(o, after) = p
    BY <1>2 DEF Reschedule
  <2>2. /\ p \in Ops /\ p.pc = "search" /\ p.req = o.req /\ p.list = o.list
        /\ p.row = o.row /\ p.after = after /\ p.t = after + 1
    BY <1>1 DEF Ops, Times
  <2>3. SearchOK(p)
    BY <1>1, <1>2, <2>2 DEF SearchOK, NoMatch
  <2> QED
    BY <2>1, <2>2, <2>3 DEF OpOK, ListOK, Listed
<1>3. CASE o.row.trigger # "cron"
  <2> DEFINE p == [o EXCEPT !.pc = "save"]
  <2>1. Reschedule(o, after) = p
    BY <1>3 DEF Reschedule
  <2>2. p \in Ops /\ p.pc = "save" /\ p.req = o.req /\ p.list = o.list /\ p.row = o.row
    BY DEF Ops
  <2>3. SaveOK(p)
    BY <1>3, <2>2 DEF SaveOK, Agrees, Unset, Minutes
  <2> QED
    BY <1>3, <2>1, <2>2, <2>3 DEF OpOK, ListOK, Listed
<1> QED
  BY <1>2, <1>3

------------------------------------------------------------------------------
(* Each action preserves the invariant.                                    *)

\* What a step of one worker that leaves the tables alone has to show.
LEMMA MoveOK ==
  ASSUME IInv, NEW w \in Workers, NEW o, OpOK(o), Move(w, o),
         UNCHANGED <<now, hooks, pilots>>, mishaps' \in 0 .. MaxMishaps
  PROVE  IInv'
<1>1. /\ op' \in [Workers -> Ops]
      /\ \A v \in Workers : OpOK(op'[v])
  BY DEF IInv, TypeOK, Move, OpOK
<1>2. \A v \in Workers :
        op'[v].pc \in {"act", "search", "save"} => op'[v].row.trigger \in Triggers
  BY <1>1 DEF OpOK, Listed, SearchOK, SaveOK, Triggers
<1> QED
  BY <1>1, <1>2 DEF IInv, TypeOK, RowsAgree

\* What a step that changes one row of a table has to show.
LEMMA TablesOK ==
  ASSUME IInv, pilots' \in [Pilots -> Row], \A a \in Pilots : Agrees(pilots'[a]),
         hooks' \in [Hooks -> {"none", "on", "off", "gone"}], UNCHANGED <<now, mishaps>>,
         UNCHANGED op \/ \E w \in Workers : \E o : OpOK(o) /\ Move(w, o)
  PROVE  IInv'
<1>1. /\ op' \in [Workers -> Ops]
      /\ \A v \in Workers : OpOK(op'[v])
  BY DEF IInv, TypeOK, Move, OpOK
<1>2. \A v \in Workers :
        op'[v].pc \in {"act", "search", "save"} => op'[v].row.trigger \in Triggers
  BY <1>1 DEF OpOK, Listed, SearchOK, SaveOK, Triggers
<1> QED
  BY <1>1, <1>2 DEF IInv, TypeOK, RowsAgree

\* The list a worker starts on: rows of the table.
LEMMA ListOfOK ==
  ASSUME IInv, NEW o \in Ops, NEW S \in SUBSET Pilots, \A a \in S : Exists(a),
         o.req = "tick" => \A a \in S : pilots[a].trigger = "cron"
  PROVE  /\ [o EXCEPT !.list = ListOf(S)] \in Ops
         /\ ListOK([o EXCEPT !.list = ListOf(S)])
<1>1. ListOf(S) \in [Pilots -> Row]
  BY NoRowOK DEF IInv, TypeOK, ListOf
<1>2. [o EXCEPT !.list = ListOf(S)] \in Ops
  BY <1>1 DEF Ops
<1>3. /\ [o EXCEPT !.list = ListOf(S)].list = ListOf(S)
      /\ [o EXCEPT !.list = ListOf(S)].req = o.req
  BY DEF Ops
<1> QED
  BY <1>2, <1>3 DEF ListOK, ListOf, Listed, IInv, RowsAgree, Exists

LEMMA InitOK ==
  ASSUME Init
  PROVE  IInv
<1>1. Idle \in Ops /\ Idle.pc = "idle" /\ 1 \in 1 .. MaxNow /\ 0 \in 0 .. MaxMishaps
  BY IdleOK, BoundsAssumption DEF OpOK, Idle, Minutes
<1>2. TypeOK
  BY <1>1, NoRowOK DEF Init, TypeOK
<1> QED
  BY <1>2, IdleOK, NoRowOK DEF Init, IInv, RowsAgree

LEMMA TickOK ==
  ASSUME IInv, NEW s \in Schedulers, Tick(s)
  PROVE  IInv'
<1> DEFINE due == {a \in Pilots : Due(a)}
           o == [Idle EXCEPT !.req = "tick", !.after = now]
           p == [Idle EXCEPT !.req = "tick", !.list = ListOf(due), !.after = now]
<1>1. now \in Minutes /\ now \in 1 .. MaxNow
  BY BoundsAssumption, SizesAssumption DEF IInv, TypeOK, Minutes
<1>2. o \in Ops /\ o.req = "tick"
  BY <1>1, IdleOK DEF OpOK, Idle, Ops, Times
<1>3. \A a \in due : Exists(a) /\ pilots[a].trigger = "cron"
  BY DEF Due, Exists, Triggers
<1>4. p = [o EXCEPT !.list = ListOf(due)] /\ p.after = now
  BY DEF Idle
<1>5. p \in Ops /\ ListOK(p)
  BY <1>2, <1>3, <1>4, ListOfOK
<1>6. OpOK(TakeNext(p))
  BY <1>1, <1>4, <1>5, TakeNextOK
<1>7. Move(s, TakeNext(p)) /\ s \in Workers /\ UNCHANGED <<now, hooks, pilots>>
      /\ mishaps' \in 0 .. MaxMishaps
  BY DEF Tick, Workers, IInv, TypeOK
<1> QED
  BY <1>6, <1>7, MoveOK

\* Requests: what begins one is a list of at most one row, or a copy made up
\* from the input.
LEMMA RequestOK ==
  ASSUME IInv, NEW h \in Handlers, NEW p \in Ops, p.req # "tick", OpOK(p), Move(h, p),
         UNCHANGED <<now, hooks, pilots, mishaps>>
  PROVE  IInv'
<1>1. h \in Workers /\ mishaps' \in 0 .. MaxMishaps
  BY DEF Workers, IInv, TypeOK
<1> QED
  BY <1>1, MoveOK

LEMMA ReceiveEventOK ==
  ASSUME IInv, NEW h \in Handlers, NEW k \in Hooks, ReceiveEvent(h, k)
  PROVE  IInv'
<1> DEFINE p == [Idle EXCEPT !.pc = "list", !.req = "event", !.hook = k]
<1>1. Idle \in Ops /\ \A a \in Pilots : Idle.list[a] = NoRow
  BY IdleOK DEF OpOK, Idle
<1>2. /\ p \in Ops /\ p.req = "event" /\ p.pc = "list" /\ p.list = Idle.list
  BY <1>1 DEF Ops, Idle, Kinds
<1>3. OpOK(p)
  BY <1>1, <1>2 DEF OpOK, ListOK
<1> QED
  BY <1>2, <1>3, RequestOK DEF ReceiveEvent

LEMMA FireWebhookOK ==
  ASSUME IInv, NEW h \in Handlers, FireWebhook(h)
  PROVE  IInv'
<1> DEFINE o == op[h]
           S == BoundTo(o.hook)
           p == [o EXCEPT !.list = ListOf(S)]
<1>1. o \in Ops /\ OpOK(o) /\ h \in Workers /\ mishaps' \in 0 .. MaxMishaps
  BY DEF IInv, TypeOK, Workers, FireWebhook
<1>2. CASE o.req # "tick"
  <2>1. p \in Ops /\ ListOK(p) /\ p.req = o.req
    BY <1>1, <1>2, ListOfOK DEF BoundTo, Ops
  <2>2. OpOK(TakeNext(p))
    BY <1>2, <2>1, TakeNextOK
  <2> QED
    BY <1>1, <2>2, MoveOK DEF FireWebhook
<1>3. CASE o.req = "tick"
  BY <1>1, <1>3 DEF FireWebhook, At, OpOK
<1> QED
  BY <1>2, <1>3

LEMMA TriggerOK ==
  ASSUME IInv, NEW h \in Handlers, NEW a \in Pilots, TriggerAutopilot(h, a)
  PROVE  IInv'
<1> DEFINE o == [Idle EXCEPT !.req = "trigger"]
           p == [Idle EXCEPT !.req = "trigger", !.list = ListOf({a})]
<1>1. o \in Ops /\ o.req = "trigger" /\ p = [o EXCEPT !.list = ListOf({a})]
  BY IdleOK DEF OpOK, Ops, Idle, Kinds
<1>2. p \in Ops /\ ListOK(p) /\ p.req = "trigger"
  <2>1. {a} \in SUBSET Pilots /\ \A b \in {a} : Exists(b)
    BY DEF TriggerAutopilot
  <2>2. o.req # "tick"
    BY <1>1
  <2>3. p \in Ops /\ ListOK(p)
    BY <1>1, <2>1, <2>2, ListOfOK
  <2> QED
    BY <2>3 DEF Idle
<1>3. OpOK(TakeNext(p))
  BY <1>2, TakeNextOK
<1>4. h \in Workers /\ mishaps' \in 0 .. MaxMishaps
  BY DEF TriggerAutopilot, Workers, IInv, TypeOK
<1> QED
  BY <1>3, <1>4, MoveOK DEF TriggerAutopilot

LEMMA ExecuteOK ==
  ASSUME IInv, NEW w \in Workers, ExecuteAction(w)
  PROVE  IInv'
<1> DEFINE o == op[w]
           after == IF o.req = "tick" THEN o.after ELSE now
<1>1. /\ o \in Ops /\ ListOK(o) /\ Listed(o, o.row)
      /\ o.req = "tick" => o.after \in 1 .. MaxNow
      /\ now \in 1 .. MaxNow /\ mishaps' \in 0 .. MaxMishaps
  BY DEF IInv, OpOK, ExecuteAction, At, TypeOK
<1>2. /\ o.row.trigger \in Triggers /\ (o.row.trigger = "cron" => Valid(o.row))
      /\ (o.row.trigger # "cron" => o.row.next = Unset)
      /\ (o.req = "tick" => o.row.trigger = "cron")
  BY <1>1 DEF Listed, Agrees
<1>3. OpOK(Reschedule(o, after))
  BY <1>1, <1>2, RescheduleOK
<1>4. OpOK(TakeNext(o))
  BY <1>1, TakeNextOK
<1>5. \/ Move(w, Reschedule(o, after))
      \/ Move(w, TakeNext(o))
  BY DEF ExecuteAction
<1> QED
  BY <1>1, <1>3, <1>4, <1>5, MoveOK DEF ExecuteAction

LEMMA SearchStepOK ==
  ASSUME Regular, IInv, NEW w \in Workers, Search(w)
  PROVE  IInv'
<1> DEFINE o == op[w]
           s == Schedule(o.row)
<1>1. /\ o \in Ops /\ ListOK(o) /\ SearchOK(o) /\ o.pc = "search"
      /\ mishaps' \in 0 .. MaxMishaps
      /\ (o.req = "tick" => o.after \in 1 .. MaxNow)
  BY DEF IInv, OpOK, Search, At, TypeOK
<1>2. o.row \in Row /\ o.after \in Nat /\ o.t \in Nat /\ Minutes \subseteq Nat
  BY <1>1, BoundsAssumption DEF Ops, SearchOK, Minutes
<1>3. Limit(o.after) \in o.after + 1 .. Horizon
  BY <1>1, HorizonAssumption DEF SearchOK
<1>4. CASE o.t >= Limit(o.after)
  <2> DEFINE p == [o EXCEPT !.pc = "save", !.row.next = Zero]
  <2>1. /\ p \in Ops /\ p.pc = "save" /\ p.req = o.req /\ p.list = o.list /\ p.after = o.after
        /\ p.row.next = Zero /\ p.row.trigger = o.row.trigger /\ p.row.text = o.row.text
    BY <1>1, <1>2 DEF Ops, Row, Times
  <2>2. Zero \notin Minutes /\ Zero # Unset
    BY DEF Zero, Minutes, Unset
  <2>3. Agrees(p.row)
    BY <1>1, <2>1, <2>2 DEF Agrees, SearchOK, Valid
  <2>4. NoMatch(p.row, p.after + 1, Limit(p.after) - 1)
    BY <1>1, <1>2, <1>3, <1>4, <2>1, SizesAssumption DEF SearchOK, NoMatch, Schedule
  <2>5. OpOK(p)
    BY <1>1, <2>1, <2>3, <2>4 DEF OpOK, ListOK, Listed, SaveOK, SearchOK, Triggers
  <2> QED
    BY <1>1, <1>4, <2>5, MoveOK DEF Search
<1>5. CASE ~(o.t >= Limit(o.after)) /\ Matches(s, o.t)
  <2> DEFINE p == [o EXCEPT !.pc = "save", !.row.next = o.t]
  <2>1. /\ p \in Ops /\ p.pc = "save" /\ p.req = o.req /\ p.list = o.list /\ p.after = o.after
        /\ p.row.next = o.t /\ p.row.trigger = o.row.trigger /\ p.row.text = o.row.text
    BY <1>1, <1>2 DEF Ops, Row, Times, SearchOK
  <2>2. o.t # Unset /\ o.t # Zero
    BY <1>1 DEF Zero, Minutes, Unset, SearchOK
  <2>3. Agrees(p.row)
    BY <1>1, <1>5, <2>1, <2>2 DEF Agrees, SearchOK, Valid, Schedule
  <2>4. NoMatch(p.row, p.after + 1, p.row.next - 1)
    BY <1>1, <2>1 DEF SearchOK, NoMatch, Schedule
  <2>5. OpOK(p)
    BY <1>1, <2>1, <2>2, <2>3, <2>4 DEF OpOK, ListOK, Listed, SaveOK, SearchOK, Triggers
  <2> QED
    BY <1>1, <1>5, <2>5, MoveOK DEF Search
<1>6. CASE ~(o.t >= Limit(o.after)) /\ ~Matches(s, o.t)
  <2> DEFINE u == Advance(s, o.t)
             p == [o EXCEPT !.t = u]
  <2>1. o.t \in 1 .. Horizon /\ Valid(o.row)
    BY <1>1, <1>2, <1>3, <1>6, SizesAssumption DEF SearchOK, Minutes
  <2>2. u \in Minutes /\ o.t < u /\ \A v \in o.t .. u - 1 : ~Matches(s, v)
    BY <1>2, <1>6, <2>1, AdvanceSkipsNothing
  <2>3. /\ p \in Ops /\ p.pc = "search" /\ p.req = o.req /\ p.list = o.list
        /\ p.after = o.after /\ p.t = u /\ p.row = o.row
    BY <1>1, <2>2 DEF Ops, Times
  <2>4. SearchOK(p)
    BY <1>1, <1>2, <2>2, <2>3 DEF SearchOK, NoMatch
  <2>5. OpOK(p)
    BY <1>1, <2>3, <2>4 DEF OpOK, ListOK, Listed
  <2> QED
    BY <1>1, <1>6, <2>5, MoveOK DEF Search
<1> QED
  BY <1>4, <1>5, <1>6

LEMMA SaveStepOK ==
  ASSUME IInv, NEW w \in Workers, Save(w)
  PROVE  IInv'
<1> DEFINE o == op[w]
<1>1. o \in Ops /\ OpOK(o) /\ SaveOK(o)
  BY DEF IInv, OpOK, Save, At
<1>2. o.row \in Row /\ Agrees(o.row)
  BY <1>1 DEF Ops, SaveOK
<1>3. \/ pilots' = pilots
      \/ \E a : pilots' = [pilots EXCEPT ![a] = o.row]
  BY DEF Save
<1>4. pilots' \in [Pilots -> Row] /\ \A a \in Pilots : Agrees(pilots'[a])
  BY <1>2, <1>3 DEF IInv, TypeOK, RowsAgree
<1>5. OpOK(TakeNext(o))
  BY <1>1, TakeNextOK DEF OpOK
<1>6. hooks' \in [Hooks -> {"none", "on", "off", "gone"}]
  BY DEF Save, IInv, TypeOK
<1> QED
  BY <1>4, <1>5, <1>6, TablesOK DEF Save

LEMMA FromInputOK ==
  ASSUME NEW in \in Inputs, Acceptable(in), NEW p \in Ops,
         ListOK(p), p.req # "tick", p.row = FromInput(in, Unset), now \in 1 .. MaxNow
  PROVE  OpOK(Validated(p))
<1>1. /\ p.row.trigger \in Triggers /\ p.row.next = Unset /\ (p.row.trigger = "cron" => Valid(p.row))
  BY InputsAssumption DEF FromInput, Input, Acceptable, Valid
<1>2. CASE p.row.trigger = "webhook"
  <2> DEFINE q == [p EXCEPT !.pc = "lookup"]
  <2>1. q \in Ops /\ q.pc = "lookup" /\ q.req = p.req /\ q.list = p.list /\ q.row = p.row
    BY DEF Ops
  <2>2. OpOK(q)
    BY <1>1, <1>2, <2>1 DEF OpOK, ListOK, Listed
  <2> QED
    BY <1>2, <2>2 DEF Validated
<1>3. CASE p.row.trigger # "webhook"
  BY <1>1, <1>3, RescheduleOK DEF Validated
<1> QED
  BY <1>2, <1>3

LEMMA FromInputTyped ==
  ASSUME NEW in \in Inputs
  PROVE  FromInput(in, Unset) \in Row
  BY InputsAssumption DEF FromInput, Input, Row, Times

LEMMA CreateOK ==
  ASSUME IInv, NEW h \in Handlers, NEW in \in Inputs, CreateAutopilot(h, in)
  PROVE  IInv'
<1> DEFINE p == [Idle EXCEPT !.req = "create", !.row = FromInput(in, Unset)]
<1>1. Idle \in Ops /\ \A a \in Pilots : Idle.list[a] = NoRow
  BY IdleOK DEF OpOK, Idle
<1>2. /\ p \in Ops /\ p.req = "create" /\ p.list = Idle.list /\ p.row = FromInput(in, Unset)
  BY <1>1, FromInputTyped DEF Ops, Idle, Kinds
<1>3. now \in 1 .. MaxNow /\ h \in Workers /\ mishaps' \in 0 .. MaxMishaps /\ Acceptable(in)
  BY DEF IInv, TypeOK, Workers, CreateAutopilot
<1>4. OpOK(Validated(p))
  BY <1>1, <1>2, <1>3, FromInputOK DEF ListOK
<1> QED
  BY <1>3, <1>4, MoveOK DEF CreateAutopilot

LEMMA UpdateOK ==
  ASSUME IInv, NEW h \in Handlers, NEW a \in Pilots, NEW in \in Inputs, UpdateAutopilot(h, a, in)
  PROVE  IInv'
<1> DEFINE p == [Idle EXCEPT !.req = "update", !.pilot = a, !.row = FromInput(in, Unset)]
<1>1. Idle \in Ops /\ \A b \in Pilots : Idle.list[b] = NoRow
  BY IdleOK DEF OpOK, Idle
<1>2. /\ p \in Ops /\ p.req = "update" /\ p.list = Idle.list /\ p.row = FromInput(in, Unset)
  BY <1>1, FromInputTyped DEF Ops, Idle, Kinds
<1>3. now \in 1 .. MaxNow /\ h \in Workers /\ mishaps' \in 0 .. MaxMishaps /\ Acceptable(in)
  BY DEF IInv, TypeOK, Workers, UpdateAutopilot
<1>4. OpOK(Validated(p))
  BY <1>1, <1>2, <1>3, FromInputOK DEF ListOK
<1> QED
  BY <1>3, <1>4, MoveOK DEF UpdateAutopilot

LEMMA LookupOK ==
  ASSUME IInv, NEW h \in Handlers, LookupWebhook(h)
  PROVE  IInv'
<1> DEFINE o == op[h]
<1>1. /\ h \in Workers /\ o \in Ops /\ ListOK(o) /\ now \in 1 .. MaxNow
      /\ o.row.trigger = "webhook" /\ o.row.next = Unset /\ o.req # "tick"
      /\ mishaps' \in 0 .. MaxMishaps
  BY DEF IInv, TypeOK, OpOK, Workers, LookupWebhook, At
<1>2. OpOK(Reschedule(o, now))
  BY <1>1, RescheduleOK DEF Triggers
<1> QED
  BY <1>1, <1>2, IdleOK, MoveOK DEF LookupWebhook

LEMMA HooksOK ==
  ASSUME IInv, NEW h \in Handlers, NEW k \in Hooks, CreateWebhook(h, k) \/ DeleteWebhook(h, k)
  PROVE  IInv'
<1>1. hooks' \in [Hooks -> {"none", "on", "off", "gone"}]
  BY DEF IInv, TypeOK, CreateWebhook, DeleteWebhook
<1>2. pilots' \in [Pilots -> Row] /\ \A a \in Pilots : Agrees(pilots'[a])
  BY GoneOK DEF IInv, TypeOK, RowsAgree, CreateWebhook, DeleteWebhook
<1> QED
  BY <1>1, <1>2, TablesOK DEF CreateWebhook, DeleteWebhook

LEMMA SaveWebhookOK ==
  ASSUME IInv, NEW h \in Handlers, SaveWebhook(h)
  PROVE  IInv'
<1>1. hooks' \in [Hooks -> {"none", "on", "off", "gone"}]
  BY DEF IInv, TypeOK, SaveWebhook
<1>2. h \in Workers /\ Move(h, Idle) /\ UNCHANGED <<now, pilots, mishaps>>
  BY DEF SaveWebhook, Workers
<1> QED
  BY <1>1, <1>2, IdleOK, TablesOK DEF IInv, TypeOK, RowsAgree

LEMMA DeleteOK ==
  ASSUME IInv, NEW h \in Handlers, NEW a \in Pilots, DeleteAutopilot(h, a)
  PROVE  IInv'
<1>1. pilots' \in [Pilots -> Row] /\ \A b \in Pilots : Agrees(pilots'[b])
  BY GoneOK DEF IInv, TypeOK, RowsAgree, DeleteAutopilot
<1> QED
  BY <1>1, TablesOK DEF DeleteAutopilot, IInv, TypeOK

LEMMA UpdateWebhookOK ==
  ASSUME IInv, NEW h \in Handlers, NEW k \in Hooks, NEW req, UpdateWebhook(h, k, req)
  PROVE  IInv'
<1> DEFINE on == IF req = "toggle" THEN ~(hooks[k] = "on") ELSE hooks[k] = "on"
           p == [Idle EXCEPT !.pc = "hook", !.req = req, !.hook = k, !.on = on]
<1>1. Idle \in Ops /\ (\A b \in Pilots : Idle.list[b] = NoRow) /\ req \in {"rename", "toggle"}
  BY IdleOK DEF OpOK, Idle, UpdateWebhook
<1>2. p \in Ops /\ p.pc = "hook" /\ p.req = req /\ p.list = Idle.list
  BY <1>1 DEF Ops, Idle, Kinds
<1>3. OpOK(p) /\ p.req # "tick"
  BY <1>1, <1>2 DEF OpOK, ListOK
<1> QED
  BY <1>2, <1>3, RequestOK DEF UpdateWebhook

LEMMA MinuteOK ==
  ASSUME IInv, MinutePasses
  PROVE  IInv'
<1>1. now' \in 1 .. MaxNow
  BY BoundsAssumption, SizesAssumption DEF IInv, TypeOK, MinutePasses, Minutes
<1> QED
  BY <1>1 DEF IInv, TypeOK, RowsAgree, MinutePasses

LEMMA FailsOK ==
  ASSUME IInv, NEW w \in Workers, StatementFails(w) \/ Crash(w)
  PROVE  IInv'
<1>1. op[w] \in Ops /\ ListOK(op[w]) /\ (op[w].req = "tick" => op[w].after \in 1 .. MaxNow)
  BY DEF IInv, OpOK
<1>2. OpOK(TakeNext(op[w]))
  BY <1>1, TakeNextOK
<1>3. mishaps' \in 0 .. MaxMishaps
  BY BoundsAssumption DEF IInv, TypeOK, StatementFails, Crash
<1> QED
  BY <1>2, <1>3, IdleOK, MoveOK DEF StatementFails, Crash

LEMMA NextOK ==
  ASSUME Regular, IInv, [Next]_vars
  PROVE  IInv'
<1>1. CASE UNCHANGED vars
  BY <1>1 DEF vars, IInv, TypeOK, RowsAgree
<1>2. ASSUME NEW h \in Handlers, Request(h)
      PROVE  IInv'
  <2>1. ASSUME NEW in \in Inputs, CreateAutopilot(h, in) \/ \E a \in Pilots : UpdateAutopilot(h, a, in)
        PROVE  IInv'
    BY <2>1, CreateOK, UpdateOK
  <2>2. ASSUME NEW a \in Pilots, TriggerAutopilot(h, a)
        PROVE  IInv'
    BY <2>2, TriggerOK
  <2>3. ASSUME NEW a \in Pilots, DeleteAutopilot(h, a)
        PROVE  IInv'
    BY <2>3, DeleteOK
  <2>4. ASSUME NEW k \in Hooks, ReceiveEvent(h, k) \/ CreateWebhook(h, k) \/ DeleteWebhook(h, k)
        PROVE  IInv'
    BY <2>4, ReceiveEventOK, HooksOK
  <2>5. ASSUME NEW k \in Hooks, NEW req, UpdateWebhook(h, k, req)
        PROVE  IInv'
    BY <2>5, UpdateWebhookOK
  <2> QED
    BY <1>2, <2>1, <2>2, <2>3, <2>4, <2>5 DEF Request
<1>3. ASSUME NEW h \in Handlers, FireWebhook(h) \/ LookupWebhook(h)
      PROVE  IInv'
  BY <1>3, FireWebhookOK, LookupOK
<1>4. ASSUME NEW h \in Handlers, SaveWebhook(h)
      PROVE  IInv'
  BY <1>4, SaveWebhookOK
<1>5. ASSUME NEW w \in Workers, Step(w)
      PROVE  IInv'
  BY <1>5, ExecuteOK, SearchStepOK, SaveStepOK DEF Step
<1>6. ASSUME NEW s \in Schedulers, Tick(s)
      PROVE  IInv'
  BY <1>6, TickOK
<1>7. ASSUME NEW w \in Workers, StatementFails(w) \/ Crash(w)
      PROVE  IInv'
  BY <1>7, FailsOK
<1>8. ASSUME MinutePasses
      PROVE  IInv'
  BY <1>8, MinuteOK
<1> QED
  BY <1>1, <1>2, <1>3, <1>4, <1>5, <1>6, <1>7, <1>8 DEF Next

------------------------------------------------------------------------------
(* Theorems.                                                               *)

\* The invariant holds, in a calendar in which clocks are never changed.
THEOREM AutopilotInvariance ==
  ASSUME Regular
  PROVE  Spec => []IInv
<1>1. Init => IInv
  BY InitOK
<1>2. IInv /\ [Next]_vars => IInv'
  BY NextOK
<1> QED
  BY <1>1, <1>2, PTL DEF Spec

\* Tables and workers keep their shape (webhooks, autopilots and requests).
THEOREM AutopilotTypeCorrect ==
  ASSUME Regular
  PROVE  Spec => []TypeOK
<1>1. IInv => TypeOK
  BY DEF IInv
<1> QED
  BY <1>1, AutopilotInvariance, PTL

\* An autopilot has a next run exactly if it has a schedule, and the next run
\* is a minute of that schedule, whatever writes whose row back.
THEOREM WholeRows ==
  ASSUME Regular
  PROVE  Spec => []RowsAgree
<1>1. IInv => RowsAgree
  BY DEF IInv
<1> QED
  BY <1>1, AutopilotInvariance, PTL

\* The search for the next run passes over no minute that matches.
THEOREM NextRunIsFirst ==
  ASSUME Regular
  PROVE  Spec => []NothingSkipped
<1>1. IInv => NothingSkipped
  BY DEF IInv, OpOK, SearchOK, SaveOK, NothingSkipped, At
<1> QED
  BY <1>1, AutopilotInvariance, PTL
==============================================================================
