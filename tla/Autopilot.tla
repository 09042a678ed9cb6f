------------------------------ MODULE Autopilot ------------------------------
(***************************************************************************)
(* Webhooks and autopilots of backend/internal/automation.  An autopilot   *)
(* acts (creates an issue or enqueues a run) when its cron schedule is     *)
(* due, when an event arrives at its webhook, or when it is triggered by   *)
(* hand.  Every server runs a scheduler; schedulers and requests read      *)
(* whole rows and write whole rows back, and each action below is one      *)
(* statement of one of them, or one turn of the search for the next run.   *)
(*                                                                         *)
(* Times are minutes; the seconds of a moment are left out.  So are        *)
(* last_fired_at, which nothing reads, and names, titles and targets.      *)
(***************************************************************************)
EXTENDS CronExpr

CONSTANTS
  Pilots,      \* identifiers of autopilots, in the order of their creation
  Hooks,       \* identifiers of webhooks
  NoHook,
  Schedulers,  \* the scheduler goroutine of each server
  Handlers,    \* concurrent requests
  Texts,       \* bound: names of the cron specifications in use
  TextOf,      \* what they say
  Inputs,      \* bound: what requests ask autopilots to be
  Requests,    \* bound: the requests that are sent
  MaxNow,      \* bound: when the clock stops
  MaxMishaps   \* bound: failing statements and crashes

Workers == Schedulers \union Handlers
Kinds == {"create", "update", "delete", "trigger", "event", "toggle", "rename", "unhook"}

\* next_run_at: null, the zero time, or a minute.
Unset == -1
Times == {Unset, Zero} \union Minutes

Triggers == {"cron", "webhook", "manual"}
Input == [trigger : Triggers, text : Texts, hook : Hooks \union {NoHook}, enabled : BOOLEAN]

ASSUME PilotsAssumption == Pilots \subseteq Nat
ASSUME HooksAssumption == NoHook \notin Hooks
ASSUME WorkersAssumption == Schedulers \intersect Handlers = {}
ASSUME InputsAssumption == Inputs \subseteq Input /\ Requests \subseteq Kinds
ASSUME TextsAssumption == Texts # {} /\ TextOf \in [Texts -> Text]
ASSUME BoundsAssumption == MaxNow \in Minutes /\ MaxNow < LastMinute /\ MaxMishaps \in Nat
ASSUME HorizonAssumption == \A u \in 1 .. MaxNow : Limit(u) \in u + 1 .. Horizon

VARIABLES
  now,      \* the clock
  hooks,    \* table webhooks
  pilots,   \* table autopilots
  op,       \* what each worker is doing, with its local variables
  mishaps   \* how many there have been

vars == <<now, hooks, pilots, op, mishaps>>

\* "none": not created yet; "gone": deleted.
Row == [trigger : Triggers \union {"none", "gone"}, text : Texts, hook : Hooks \union {NoHook},
        enabled : BOOLEAN, next : Times]
AnyText == CHOOSE x \in Texts : TRUE
NoRow == [trigger |-> "none", text |-> AnyText, hook |-> NoHook,
          enabled |-> FALSE, next |-> Unset]
Gone == [NoRow EXCEPT !.trigger = "gone"]

\* list: the listed rows that are not handled yet; row: the copy in work;
\* after, t: the arguments of the search; on: the enabled flag of a webhook.
Idle == [pc |-> "idle", req |-> "none", list |-> [a \in Pilots |-> NoRow], pilot |-> 0,
         row |-> NoRow, after |-> Unset, t |-> Unset, hook |-> NoHook, on |-> FALSE]
Ops == [pc : {"idle", "lookup", "list", "act", "search", "save", "hook"},
        req : Kinds \union {"none", "tick"}, list : [Pilots -> Row], pilot : Pilots \union {0},
        row : Row, after : Times, t : Times, hook : Hooks \union {NoHook}, on : BOOLEAN]

TypeOK ==
  /\ now \in 1 .. MaxNow
  /\ hooks \in [Hooks -> {"none", "on", "off", "gone"}]
  /\ pilots \in [Pilots -> Row]
  /\ op \in [Workers -> Ops]
  /\ mishaps \in 0 .. MaxMishaps
  /\ \A w \in Workers :
       op[w].pc \in {"act", "search", "save"} => op[w].row.trigger \in Triggers

------------------------------------------------------------------------------
Schedules == [x \in Texts |-> Parse(TextOf[x])]
ValidTexts == {x \in Texts : Parses(TextOf[x])}
Schedule(row) == Schedules[row.text]
Valid(row) == row.text \in ValidTexts

Exists(a) == pilots[a].trigger \in Triggers
HookExists(k) == hooks[k] \in {"on", "off"}
\* The foreign key on webhook_id.
Bound(row) == row.hook = NoHook \/ HookExists(row.hook)

At(w, pc) == op[w].pc = pc
Move(w, o) == op' = [op EXCEPT ![w] = o]
Begin(h, req) == h \in Handlers /\ op[h] = Idle /\ req \in Requests

\* DueCronAutopilots.
Due(a) ==
  /\ pilots[a].trigger = "cron" /\ pilots[a].enabled
  /\ pilots[a].next <= now
\* ListAutopilotsByWebhook.
BoundTo(k) == {a \in Pilots : Exists(a) /\ pilots[a].hook = k /\ pilots[a].enabled}

\* On to the next autopilot of the list.
TakeNext(o) ==
  LET rest == {a \in Pilots : o.list[a] # NoRow}
      a == Least(rest)
  IN IF rest = {} THEN Idle
     ELSE [o EXCEPT !.pc = "act", !.pilot = a, !.row = o.list[a], !.list[a] = NoRow, !.t = Unset]

ListOf(S) == [a \in Pilots |-> IF a \in S THEN pilots[a] ELSE NoRow]

\* The next run is looked for, if the row has a schedule.  Specifications are
\* validated when they are stored; of one that does not parse the scheduler
\* thinks again in an hour.
Reschedule(o, after) ==
  IF o.row.trigger = "cron" /\ Valid(o.row)
    THEN [o EXCEPT !.pc = "search", !.after = after, !.t = after + 1]
  ELSE IF o.req = "tick"
    THEN [o EXCEPT !.pc = "save", !.row.next = after + MinutesPerHour]
  ELSE [o EXCEPT !.pc = "save"]

------------------------------------------------------------------------------
(* The scheduler.                                                          *)

\* Tick, when there is something to do.
Tick(s) ==
  LET due == {a \in Pilots : Due(a)} IN
  /\ s \in Schedulers /\ op[s] = Idle
  /\ due # {}
  /\ Move(s, TakeNext([Idle EXCEPT !.req = "tick", !.list = ListOf(due), !.after = now]))
  /\ UNCHANGED <<now, hooks, pilots, mishaps>>

------------------------------------------------------------------------------
(* Firing.                                                                 *)

\* receiveEvent, with a signed body.
ReceiveEvent(h, k) ==
  /\ Begin(h, "event")
  /\ hooks[k] = "on"
  /\ Move(h, [Idle EXCEPT !.pc = "list", !.req = "event", !.hook = k])
  /\ UNCHANGED <<now, hooks, pilots, mishaps>>

FireWebhook(h) ==
  /\ At(h, "list")
  /\ Move(h, TakeNext([op[h] EXCEPT !.list = ListOf(BoundTo(op[h].hook))]))
  /\ UNCHANGED <<now, hooks, pilots, mishaps>>

\* (Slip: that there is no such row goes unnoticed.)
TriggerUnread(h, a) ==
  /\ Begin(h, "trigger")
  /\ Move(h, TakeNext([Idle EXCEPT !.req = "trigger", !.list = ListOf({a})]))
  /\ UNCHANGED <<now, hooks, pilots, mishaps>>

TriggerAutopilot(h, a) ==
  /\ Begin(h, "trigger")
  /\ Exists(a) /\ pilots[a].enabled
  /\ Move(h, TakeNext([Idle EXCEPT !.req = "trigger", !.list = ListOf({a})]))
  /\ UNCHANGED <<now, hooks, pilots, mishaps>>

\* (Slip: a failing action is tried again at the next tick.)
ExecuteOrRetry(w) ==
  LET o == op[w] IN
  /\ At(w, "act")
  /\ \/ Move(w, Reschedule(o, IF o.req = "tick" THEN o.after ELSE now))
     \/ Move(w, TakeNext(o))
  /\ UNCHANGED <<now, hooks, pilots, mishaps>>

\* The action succeeds and the autopilot is rescheduled; or it fails, and the
\* scheduler reschedules it all the same while a trigger leaves it as it is.
ExecuteAction(w) ==
  LET o == op[w] IN
  /\ At(w, "act")
  /\ \/ Move(w, Reschedule(o, IF o.req = "tick" THEN o.after ELSE now))
     \/ Move(w, IF o.req = "tick" THEN Reschedule(o, o.after) ELSE TakeNext(o))
  /\ UNCHANGED <<now, hooks, pilots, mishaps>>

\* One turn of the loop of Next, or its end.
Search(w) ==
  LET o == op[w]
      s == Schedule(o.row)
  IN
  /\ At(w, "search")
  /\ Move(w, IF o.t >= Limit(o.after) THEN [o EXCEPT !.pc = "save", !.row.next = Zero]
             ELSE IF Matches(s, o.t) THEN [o EXCEPT !.pc = "save", !.row.next = o.t]
             ELSE [o EXCEPT !.t = Advance(s, o.t)])
  /\ UNCHANGED <<now, hooks, pilots, mishaps>>

\* (Slip: the scheduler stores the next run alone.)
SaveNextRun(w) ==
  LET o == op[w]
      fresh == {a \in Pilots : pilots[a].trigger = "none"}
      a == IF o.req = "create" THEN Least(fresh) ELSE o.pilot
  IN
  /\ At(w, "save")
  /\ IF o.req = "create" THEN fresh # {} ELSE TRUE
  /\ pilots' = IF ~Bound(o.row) \/ (o.req # "create" /\ ~Exists(a)) THEN pilots
               ELSE IF o.req = "tick" THEN [pilots EXCEPT ![a].next = o.row.next]
               ELSE [pilots EXCEPT ![a] = o.row]
  /\ Move(w, TakeNext(o))
  /\ UNCHANGED <<now, hooks, mishaps>>

\* CreateAutopilot and UpdateAutopilot of the store.
Save(w) ==
  LET o == op[w]
      fresh == {a \in Pilots : pilots[a].trigger = "none"}
      a == IF o.req = "create" THEN Least(fresh) ELSE o.pilot
  IN
  /\ At(w, "save")
  /\ IF o.req = "create" THEN fresh # {} ELSE TRUE
  /\ pilots' = IF Bound(o.row) /\ (o.req = "create" \/ Exists(a))
                 THEN [pilots EXCEPT ![a] = o.row] ELSE pilots
  /\ Move(w, TakeNext(o))
  /\ UNCHANGED <<now, hooks, mishaps>>

------------------------------------------------------------------------------
(* Managing autopilots.                                                    *)

\* validate: a webhook is looked up if it is the trigger.
Validated(o) == IF o.row.trigger = "webhook" THEN [o EXCEPT !.pc = "lookup"] ELSE Reschedule(o, now)
Acceptable(in) ==
  /\ in.trigger = "cron" => in.text \in ValidTexts
  /\ in.trigger = "webhook" => in.hook # NoHook

FromInput(in, next) ==
  [trigger |-> in.trigger, text |-> in.text, hook |-> in.hook, enabled |-> in.enabled,
   next |-> next]

CreateAutopilot(h, in) ==
  /\ Begin(h, "create")
  /\ Acceptable(in)
  /\ \E a \in Pilots : pilots[a].trigger = "none"
  /\ Move(h, Validated([Idle EXCEPT !.req = "create", !.row = FromInput(in, Unset)]))
  /\ UNCHANGED <<now, hooks, pilots, mishaps>>

UpdateAutopilot(h, a, in) ==
  /\ Begin(h, "update")
  /\ Exists(a) /\ Acceptable(in)
  /\ Move(h, Validated([Idle EXCEPT !.req = "update", !.pilot = a, !.row = FromInput(in, Unset)]))
  /\ UNCHANGED <<now, hooks, pilots, mishaps>>

LookupWebhook(h) ==
  /\ At(h, "lookup")
  /\ Move(h, IF HookExists(op[h].row.hook) THEN Reschedule(op[h], now) ELSE Idle)
  /\ UNCHANGED <<now, hooks, pilots, mishaps>>

\* By request, or with the agent, project or issue it is about.
DeleteAutopilot(h, a) ==
  /\ Begin(h, "delete")
  /\ Exists(a)
  /\ pilots' = [pilots EXCEPT ![a] = Gone]
  /\ UNCHANGED <<now, hooks, op, mishaps>>

------------------------------------------------------------------------------
(* Managing webhooks.                                                      *)

CreateWebhook(h, k) ==
  /\ Begin(h, "create")
  /\ hooks[k] = "none"
  /\ hooks' = [hooks EXCEPT ![k] = "on"]
  /\ UNCHANGED <<now, pilots, op, mishaps>>

\* The row is read, and a name or the flag changed in the copy.
UpdateWebhook(h, k, req) ==
  LET on == hooks[k] = "on" IN
  /\ req \in {"rename", "toggle"} /\ Begin(h, req)
  /\ HookExists(k)
  /\ Move(h, [Idle EXCEPT !.pc = "hook", !.req = req, !.hook = k,
                          !.on = IF req = "toggle" THEN ~on ELSE on])
  /\ UNCHANGED <<now, hooks, pilots, mishaps>>

SaveWebhook(h) ==
  LET k == op[h].hook IN
  /\ At(h, "hook")
  /\ hooks' = IF HookExists(k) THEN [hooks EXCEPT ![k] = IF op[h].on THEN "on" ELSE "off"]
                               ELSE hooks
  /\ Move(h, Idle)
  /\ UNCHANGED <<now, pilots, mishaps>>

\* The autopilots bound to it are deleted with it.
DeleteWebhook(h, k) ==
  /\ Begin(h, "unhook")
  /\ HookExists(k)
  /\ hooks' = [hooks EXCEPT ![k] = "gone"]
  /\ pilots' = [a \in Pilots |-> IF Exists(a) /\ pilots[a].hook = k THEN Gone ELSE pilots[a]]
  /\ UNCHANGED <<now, op, mishaps>>

------------------------------------------------------------------------------
(* Time and mishaps.                                                       *)

MinutePasses ==
  /\ now < MaxNow
  /\ now' = now + 1
  /\ UNCHANGED <<hooks, pilots, op, mishaps>>

\* A statement fails: lists go on with the next autopilot, requests end.
StatementFails(w) ==
  /\ mishaps < MaxMishaps
  /\ op[w].pc \in {"lookup", "list", "save", "hook"}
  /\ Move(w, TakeNext(op[w]))
  /\ mishaps' = mishaps + 1
  /\ UNCHANGED <<now, hooks, pilots>>

\* A server stops, with its scheduler or a request of it, and starts again.
Crash(w) ==
  /\ mishaps < MaxMishaps
  /\ op[w] # Idle
  /\ Move(w, Idle)
  /\ mishaps' = mishaps + 1
  /\ UNCHANGED <<now, hooks, pilots>>

------------------------------------------------------------------------------
Init ==
  /\ now = 1
  /\ hooks = [k \in Hooks |-> "none"]
  /\ pilots = [a \in Pilots |-> NoRow]
  /\ op = [w \in Workers |-> Idle]
  /\ mishaps = 0

Request(h) ==
  \/ \E in \in Inputs : CreateAutopilot(h, in) \/ \E a \in Pilots : UpdateAutopilot(h, a, in)
  \/ \E a \in Pilots : TriggerAutopilot(h, a) \/ DeleteAutopilot(h, a)
  \/ \E k \in Hooks :
       \/ ReceiveEvent(h, k) \/ CreateWebhook(h, k) \/ DeleteWebhook(h, k)
       \/ \E req \in {"rename", "toggle"} : UpdateWebhook(h, k, req)

\* The next statement of a request or tick that has begun.
Step(w) == ExecuteAction(w) \/ Search(w) \/ Save(w)

Next ==
  \/ \E h \in Handlers :
       Request(h) \/ FireWebhook(h) \/ LookupWebhook(h) \/ SaveWebhook(h)
  \/ \E s \in Schedulers : Tick(s)
  \/ \E w \in Workers : Step(w) \/ StatementFails(w) \/ Crash(w)
  \/ MinutePasses

\* The scheduler goroutines run; requests may stop anywhere.
Fairness == \A s \in Schedulers : WF_vars(Tick(s)) /\ WF_vars(Step(s))

Spec == Init /\ [][Next]_vars /\ Fairness

------------------------------------------------------------------------------
(* Properties.                                                             *)

Agrees(row) ==
  /\ row.trigger = "cron" <=> row.next # Unset
  /\ row.trigger = "cron" => Valid(row)
  /\ row.next \in Minutes => Matches(Schedule(row), row.next)

\* However schedulers, triggers and edits overwrite each other's rows, a row is
\* never a mixture: an autopilot has a next run exactly if it has a schedule,
\* and the next run is a minute of that very schedule.
RowsAgree == \A a \in Pilots : Agrees(pilots[a])

NoMatch(row, from, to) == \A u \in from .. to : ~Matches(Schedule(row), u)

\* The search skips no matching minute, and what is about to be stored is the
\* first one after the moment it was asked for, or the zero time if there is
\* none for as many years as the search looks ahead.
NothingSkipped ==
  \A w \in Workers :
    LET o == op[w] IN
    /\ At(w, "search") => NoMatch(o.row, o.after + 1, o.t - 1)
    /\ At(w, "save") /\ o.row.trigger = "cron" =>
         NoMatch(o.row, o.after + 1, (IF o.row.next = Zero THEN Limit(o.after) ELSE o.row.next) - 1)

\* An enabled autopilot that is due is acted for and rescheduled, also when
\* its action fails every time: no autopilot stays due while the schedulers run.
DueIsServed == \A a \in Pilots : Due(a) ~> ~Due(a)
==============================================================================
