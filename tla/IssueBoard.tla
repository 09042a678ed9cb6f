------------------------------ MODULE IssueBoard ------------------------------
(***************************************************************************)
(* The issue board of backend/internal/issue: a tree of issues that move   *)
(* through the kanban states, and the wakeup of a parent whose children    *)
(* are all finished.                                                       *)
(*                                                                         *)
(* Issues are also written by others: the set_status tool of agents and    *)
(* the close intents of pull requests update the rows directly.  All of    *)
(* them read a row, decide, and write the whole row back, and as nothing   *)
(* locks the row meanwhile, each action below is one statement; op[w] is   *)
(* what worker w (a request, an agent's run) holds between two statements. *)
(***************************************************************************)
EXTENDS Naturals

CONSTANTS
  Issues,     \* identifiers of issues of one project
  NoIssue,    \* no parent, and what an idle worker works on
  Workers,    \* concurrent requests and agent runs
  Names,      \* bound: the status names in use
  Targets,    \* bound: those of them that issues are moved to
  Entries,    \* bound: pairs of a name and a category that owners put in the directory
  Assignees,  \* bound: who issues get assigned to
  Requests,   \* bound: the requests that are sent
  Faults      \* may statements fail and the server crash

\* The names a CHECK of the table allows, which are the categories too.
Categories == {"backlog", "todo", "in_progress", "in_review", "blocked", "done", "cancelled"}
Kinds == {"create", "edit", "move", "transition", "set_status", "close", "configure", "delete"}
People == {"nobody", "user", "agent"}

ASSUME IssuesAssumption == NoIssue \notin Issues
ASSUME NamesAssumption ==
  {"todo", "done"} \subseteq Names /\ Names \subseteq Categories /\ Targets \subseteq Names
ASSUME InputsAssumption ==
  Entries \subseteq Names \X Categories /\ Assignees \subseteq People /\ Requests \subseteq Kinds
ASSUME SwitchAssumption == Faults \in BOOLEAN

VARIABLES
  issues,     \* table issues
  directory,  \* table workspace_statuses: the category of each name, or "none"
  wakeups,    \* table issue_wakeups: pairs of a parent and the child that woke it
  asked,      \* the calls of the run trigger that reached an assignee
  op          \* what each worker is doing, with its local variables

vars == <<issues, directory, wakeups, asked, op>>
tables == <<issues, directory, wakeups, asked>>

\* "none": not created yet; "gone": deleted.
NoRow == [status |-> "none", parent |-> NoIssue, assignee |-> "nobody"]
Row == [status : Names \union {"none", "gone"}, parent : Issues \union {NoIssue}, assignee : People]

Idle == [pc |-> "idle", req |-> "none", issue |-> NoIssue, row |-> NoRow,
         walk |-> NoIssue, to |-> "todo", reassigned |-> FALSE, seen |-> {}]
PCs == {"idle", "insert", "check", "climb", "run", "save", "reread",
        "assigned", "list", "judge", "record", "tell", "changed"}
Ops == [pc : PCs, req : Kinds \union {"none"}, issue : Issues \union {NoIssue}, row : Row,
        walk : Issues \union {NoIssue}, to : Names,
        reassigned : BOOLEAN, seen : SUBSET (Names \union {"none", "gone"})]
Calls == {"assigned", "status_changed", "wakeup"}

TypeOK ==
  /\ issues \in [Issues -> Row]
  /\ directory \in [Names -> Categories \union {"none"}]
  /\ wakeups \subseteq Issues \X Issues
  /\ asked \subseteq Issues \X Calls
  /\ op \in [Workers -> Ops]
  /\ \A w \in Workers :
       /\ op[w].issue = NoIssue <=> op[w].pc \in {"idle", "insert"}
       /\ op[w].walk = NoIssue <=> op[w].pc # "climb"
       /\ op[w].pc = "idle" \/ op[w].row.status \in Names

------------------------------------------------------------------------------
(* Status machine and directory.                                           *)

\* transitions: what a status of one category may become.
Transitions == [
  backlog     |-> {"todo", "cancelled"},
  todo        |-> {"in_progress", "blocked", "cancelled"},
  in_progress |-> {"in_review", "blocked", "todo", "cancelled"},
  in_review   |-> {"done", "in_progress", "cancelled"},
  blocked     |-> {"in_progress", "todo", "cancelled"},
  done        |-> {},
  cancelled   |-> {}]

Finished == {"done", "cancelled"}
IsTerminal(s) == s \in Finished

\* An empty directory stands for the built-in one, in which every name is its
\* own category.
Category(s) ==
  IF \A n \in Names : directory[n] = "none"
    THEN IF s \in Names THEN s ELSE "none"
    ELSE IF s \in Names THEN directory[s] ELSE "none"

IsTerminalIn(s) == Category(s) \in Finished
TransitionIn(from, to) ==
  /\ Category(from) # "none" /\ Category(to) # "none"
  /\ Category(to) \in Transitions[Category(from)]

\* defaultStatus: the first entry of category todo, or else the first one;
\* the owner may put any entry first.
DefaultStatuses ==
  LET listed == {s \in Names : Category(s) # "none"}
      todos == {s \in listed : Category(s) = "todo"}
  IN IF todos # {} THEN todos ELSE listed

------------------------------------------------------------------------------
(* The rows.                                                               *)

Exists(i) == i \in Issues /\ issues[i].status \notin {"none", "gone"}
Children(p) == {c \in Issues : Exists(c) /\ issues[c].parent = p}

\* The foreign key on parent_id.
Attached(row) == row.parent = NoIssue \/ Exists(row.parent)

\* ON DELETE CASCADE follows parent_id.
Subtree(i) ==
  {j \in Issues : \A S \in SUBSET Issues :
     i \in S /\ (\A p \in S : Children(p) \subseteq S) => j \in S}

At(w, pc) == op[w].pc = pc
Move(w, o) == op' = [op EXCEPT ![w] = o]
Goto(w, pc) == Move(w, [op[w] EXCEPT !.pc = pc])
Done(w) == Move(w, Idle)
Begin(w, o) == op[w] = Idle /\ o.req \in Requests /\ Move(w, o)

\* A call of the trigger for issue i, whose assignee a it is: agents get a
\* run; people are notified, except of status changes.
Ask(i, a, call) ==
  asked' = IF a = "agent" \/ (a = "user" /\ call # "status_changed")
             THEN asked \union {<<i, call>>} ELSE asked

------------------------------------------------------------------------------
(* Creating an issue.                                                      *)

CreateIssue(w, p, a) ==
  /\ p = NoIssue \/ Exists(p)
  /\ a \in Assignees
  /\ \E s \in DefaultStatuses :
       Begin(w, [Idle EXCEPT !.pc = "insert", !.req = "create",
                             !.row = [status |-> s, parent |-> p, assignee |-> a],
                             !.reassigned = (a # "nobody")])
  /\ UNCHANGED tables

\* (Slip: the identifier of the new row is not read back.)
InsertUnread(w) ==
  /\ At(w, "insert")
  /\ \/ /\ Attached(op[w].row)
        /\ \E i \in Issues :
             /\ issues[i].status = "none"
             /\ issues' = [issues EXCEPT ![i] = op[w].row]
             /\ Goto(w, "reread")
     \/ /\ ~Attached(op[w].row)
        /\ Done(w)
        /\ UNCHANGED issues
  /\ UNCHANGED <<directory, wakeups, asked>>

InsertIssue(w) ==
  /\ At(w, "insert")
  /\ \/ /\ Attached(op[w].row)
        /\ \E i \in Issues :
             /\ issues[i].status = "none"
             /\ issues' = [issues EXCEPT ![i] = op[w].row]
             /\ Move(w, [op[w] EXCEPT !.issue = i, !.pc = "reread"])
     \/ /\ ~Attached(op[w].row)
        /\ Done(w)
        /\ UNCHANGED issues
  /\ UNCHANGED <<directory, wakeups, asked>>

------------------------------------------------------------------------------
(* Updating fields: the copy is changed and, after the parent was checked, *)
(* written back, status and all.                                           *)

UpdateIssue(w, i, a, moved, p) ==
  /\ Exists(i)
  /\ a \in Assignees \union {issues[i].assignee}
  /\ moved => p # i
  /\ LET row == [issues[i] EXCEPT !.assignee = a, !.parent = IF moved THEN p ELSE @]
         climbs == moved /\ p # NoIssue
     IN Begin(w, [Idle EXCEPT !.pc = IF climbs THEN "climb" ELSE "save", !.req = "edit",
                              !.issue = i, !.row = row, !.walk = IF climbs THEN p ELSE NoIssue,
                              !.reassigned = (a # issues[i].assignee /\ a # "nobody")])
  /\ UNCHANGED tables

\* (Slip: only the new parent itself is looked at.)
ReadParentOnly(w) ==
  /\ At(w, "climb")
  /\ IF Exists(op[w].walk) /\ issues[op[w].walk].parent # op[w].issue
       THEN Move(w, [op[w] EXCEPT !.pc = "save", !.walk = NoIssue])
       ELSE Done(w)
  /\ UNCHANGED tables

\* validateNewParent reads the new parent and its ancestors one after the
\* other, up to the root.
ReadAncestor(w) ==
  LET a == op[w].walk
      next == issues[a].parent
  IN
  /\ At(w, "climb")
  /\ IF ~Exists(a) \/ next = op[w].issue THEN Done(w)
       ELSE Move(w, [op[w] EXCEPT !.walk = next, !.pc = IF next = NoIssue THEN "save" ELSE "climb"])
  /\ UNCHANGED tables

\* applyCloseIntents of a merged pull request.
CloseIssue(w, i) ==
  /\ Exists(i) /\ ~IsTerminal(issues[i].status)
  /\ Begin(w, [Idle EXCEPT !.pc = "save", !.req = "close", !.issue = i,
                           !.row = [issues[i] EXCEPT !.status = "done"]])
  /\ UNCHANGED tables

\* UpdateIssue of the store writes the whole row.
SaveRow(w) ==
  LET i == op[w].issue IN
  /\ At(w, "save")
  /\ IF Exists(i) /\ Attached(op[w].row)
       THEN issues' = [issues EXCEPT ![i] = op[w].row] /\ Goto(w, "reread")
       ELSE Done(w) /\ UNCHANGED issues
  /\ UNCHANGED <<directory, wakeups, asked>>

\* What was inserted or updated is read back.
ReadBack(w) ==
  LET i == op[w].issue IN
  /\ At(w, "reread")
  /\ \/ Exists(i) /\ op[w].req = "transition"
        /\ Move(w, [op[w] EXCEPT !.row = issues[i], !.pc = "list"])
     \/ Exists(i) /\ op[w].reassigned
        /\ Move(w, [op[w] EXCEPT !.row = issues[i], !.pc = "assigned"])
     \/ (~Exists(i) \/ (op[w].req # "transition" /\ ~op[w].reassigned)) /\ Done(w)
  /\ UNCHANGED tables

\* OnIssueAssigned.
AskAssignee(w) ==
  LET i == op[w].issue IN
  /\ At(w, "assigned")
  /\ IF Exists(i) THEN Ask(i, op[w].row.assignee, "assigned") ELSE UNCHANGED asked
  /\ Done(w)
  /\ UNCHANGED <<issues, directory, wakeups>>

------------------------------------------------------------------------------
(* Moving an issue through the state machine, and waking its parent.       *)

TransitionStatus(w, i, to) ==
  /\ Exists(i) /\ to \in Targets
  /\ Begin(w, [Idle EXCEPT !.pc = "check", !.req = "transition", !.issue = i,
                           !.row = issues[i], !.to = to])
  /\ UNCHANGED tables

\* (Slip: any status of the directory is accepted.)
CheckListed(w) ==
  /\ At(w, "check")
  /\ IF Category(op[w].to) # "none"
       THEN Move(w, [op[w] EXCEPT !.row.status = op[w].to, !.pc = "save"])
       ELSE Done(w)
  /\ UNCHANGED tables

\* The directory is read, and the move judged by it.
CheckTransition(w) ==
  /\ At(w, "check")
  /\ IF TransitionIn(op[w].row.status, op[w].to)
       THEN Move(w, [op[w] EXCEPT !.row.status = op[w].to, !.pc = "save"])
       ELSE Done(w)
  /\ UNCHANGED tables

\* The siblings, of a child that the built-in names call terminal.
ListSiblings(w) ==
  LET row == op[w].row IN
  /\ At(w, "list")
  /\ IF row.parent # NoIssue /\ IsTerminal(row.status)
       THEN Move(w, [op[w] EXCEPT !.seen = {issues[c].status : c \in Children(row.parent)},
                                  !.pc = "judge"])
       ELSE Goto(w, "changed")
  /\ UNCHANGED tables

\* (Slip: one finished sibling is enough.)
JudgeAnySibling(w) ==
  /\ At(w, "judge")
  /\ IF \E s \in op[w].seen : IsTerminalIn(s)
       THEN Move(w, [op[w] EXCEPT !.seen = {}, !.pc = "record"])
       ELSE Move(w, [op[w] EXCEPT !.seen = {}, !.pc = "changed"])
  /\ UNCHANGED tables

\* (Slip: cancelled siblings are waited for.)
JudgeDone(w) ==
  /\ At(w, "judge")
  /\ IF \A s \in op[w].seen : s = "done"
       THEN Move(w, [op[w] EXCEPT !.seen = {}, !.pc = "record"])
       ELSE Move(w, [op[w] EXCEPT !.seen = {}, !.pc = "changed"])
  /\ UNCHANGED tables

JudgeSiblings(w) ==
  /\ At(w, "judge")
  /\ IF \A s \in op[w].seen : IsTerminalIn(s)
       THEN Move(w, [op[w] EXCEPT !.seen = {}, !.pc = "record"])
       ELSE Move(w, [op[w] EXCEPT !.seen = {}, !.pc = "changed"])
  /\ UNCHANGED tables

\* ON CONFLICT DO NOTHING; the foreign keys want both issues.
RecordWakeup(w) ==
  LET pair == <<op[w].row.parent, op[w].issue>> IN
  /\ At(w, "record")
  /\ IF Exists(pair[1]) /\ Exists(pair[2])
       THEN wakeups' = wakeups \union {pair} /\ Goto(w, "tell")
       ELSE Done(w) /\ UNCHANGED wakeups
  /\ UNCHANGED <<issues, directory, asked>>

\* OnParentWakeup.
AskParent(w) ==
  LET p == op[w].row.parent IN
  /\ At(w, "tell")
  /\ IF Exists(p) THEN Ask(p, issues[p].assignee, "wakeup") /\ Goto(w, "changed")
                  ELSE Done(w) /\ UNCHANGED asked
  /\ UNCHANGED <<issues, directory, wakeups>>

\* OnIssueStatusChanged.
AskAboutStatus(w) ==
  LET i == op[w].issue IN
  /\ At(w, "changed")
  /\ IF Exists(i) THEN Ask(i, op[w].row.assignee, "status_changed") ELSE UNCHANGED asked
  /\ Done(w)
  /\ UNCHANGED <<issues, directory, wakeups>>

------------------------------------------------------------------------------
(* Agents.  A run reads its issue once; each set_status is judged by the   *)
(* run's copy and the built-in names, and writes the copy.  The status     *)
(* endpoint of the runtime API is such a run with one call.  (While its    *)
(* issue has an active change the executor refuses some of the moves, and  *)
(* so makes fewer of these steps.)                                         *)

StartRun(w, i) ==
  /\ Exists(i)
  /\ Begin(w, [Idle EXCEPT !.pc = "run", !.req = "set_status", !.issue = i, !.row = issues[i]])
  /\ UNCHANGED tables

\* If the written row cannot be read back, the run keeps its old copy.
SetStatus(w, to) ==
  LET i == op[w].issue
      row == [op[w].row EXCEPT !.status = to]
  IN
  /\ At(w, "run")
  /\ to \in Targets /\ to \in Transitions[op[w].row.status]
  /\ Exists(i) /\ Attached(row)
  /\ issues' = [issues EXCEPT ![i] = row]
  /\ Move(w, [op[w] EXCEPT !.row = row]) \/ (Faults /\ UNCHANGED op)
  /\ UNCHANGED <<directory, wakeups, asked>>

EndRun(w) ==
  /\ At(w, "run")
  /\ Done(w)
  /\ UNCHANGED tables

------------------------------------------------------------------------------
(* What else changes the tables.                                           *)

\* The built-in entries are written first, if there are none yet.
Seeded == [n \in Names |-> Category(n)]

UpsertStatus(w, n, c) ==
  /\ op[w] = Idle /\ "configure" \in Requests
  /\ <<n, c>> \in Entries
  /\ directory' = [Seeded EXCEPT ![n] = c]
  /\ UNCHANGED <<issues, wakeups, asked, op>>

DeleteStatus(w, n) ==
  /\ op[w] = Idle /\ "configure" \in Requests
  /\ Seeded[n] # "none" /\ \E c \in Categories : <<n, c>> \in Entries
  /\ directory' = [Seeded EXCEPT ![n] = "none"]
  /\ UNCHANGED <<issues, wakeups, asked, op>>

DeleteIssue(w, i) ==
  /\ op[w] = Idle /\ "delete" \in Requests
  /\ Exists(i)
  /\ issues' = [j \in Issues |-> IF j \in Subtree(i) THEN [NoRow EXCEPT !.status = "gone"]
                                                     ELSE issues[j]]
  /\ wakeups' = {pair \in wakeups : pair[1] \notin Subtree(i) /\ pair[2] \notin Subtree(i)}
  /\ asked' = {call \in asked : call[1] \notin Subtree(i)}
  /\ UNCHANGED <<directory, op>>

\* A statement fails or the request is cancelled.
StatementFails(w) ==
  /\ Faults
  /\ op[w].pc \notin {"idle", "run"}
  /\ Done(w)
  /\ UNCHANGED tables

Crash ==
  /\ Faults
  /\ \E w \in Workers : op[w] # Idle
  /\ op' = [w \in Workers |-> Idle]
  /\ UNCHANGED tables

------------------------------------------------------------------------------
Init ==
  /\ issues = [i \in Issues |-> NoRow]
  /\ directory = [n \in Names |-> "none"]
  /\ wakeups = {}
  /\ asked = {}
  /\ op = [w \in Workers |-> Idle]

Request(w) ==
  \/ \E p \in Issues \union {NoIssue}, a \in Assignees : CreateIssue(w, p, a)
  \/ \E i \in Issues :
       \/ \E a \in People : UpdateIssue(w, i, a, FALSE, NoIssue)
       \/ \E a \in People, p \in Issues \union {NoIssue} : UpdateIssue(w, i, a, TRUE, p)
       \/ \E to \in Names : TransitionStatus(w, i, to)
       \/ CloseIssue(w, i) \/ StartRun(w, i) \/ DeleteIssue(w, i)
  \/ \E n \in Names : DeleteStatus(w, n) \/ \E c \in Categories : UpsertStatus(w, n, c)

\* The next statement of a request that has begun.
Step(w) ==
  \/ InsertIssue(w) \/ AskAssignee(w)
  \/ ReadAncestor(w) \/ SaveRow(w) \/ ReadBack(w)
  \/ CheckTransition(w) \/ ListSiblings(w) \/ JudgeSiblings(w)
  \/ RecordWakeup(w) \/ AskParent(w) \/ AskAboutStatus(w)

Next ==
  \/ \E w \in Workers :
       \/ Request(w) \/ Step(w) \/ StatementFails(w)
       \/ EndRun(w) \/ \E to \in Names : SetStatus(w, to)
  \/ Crash

Spec == Init /\ [][Next]_vars

------------------------------------------------------------------------------
(* Properties.                                                             *)

AllFinished(p) == Children(p) # {} /\ \A c \in Children(p) : IsTerminalIn(issues[c].status)

\* A move of a child whose wakeup is not decided or not delivered yet.
Deciding(w, p) ==
  /\ op[w].pc \in {"reread", "list", "judge", "record", "tell"}
  /\ op[w].issue \in Children(p)

\* However transitions of siblings and new siblings interleave, the wakeup of
\* their parent is not lost between them: each transition updates its own row
\* before it lists the others'.  Once it is recorded, the assignee is asked.
LastChildWakes ==
  \A p \in Issues :
    Exists(p) /\ AllFinished(p) /\ (\A w \in Workers : ~Deciding(w, p)) =>
      /\ \E c \in Issues : <<p, c>> \in wakeups
      /\ issues[p].assignee = "nobody" \/ <<p, "wakeup">> \in asked

\* One request at a time: no issue is its own ancestor.  (In a cycle every
\* parent is in the cycle again; validateNewParent would never come to an end.)
Acyclic ==
  \A S \in SUBSET Issues :
    S # {} => \E i \in S : ~Exists(i) \/ issues[i].parent \notin S

\* A run that could not read its last write back.
Behind(w) == At(w, "run") /\ op[w].row.status # issues[op[w].issue].status

\* One request at a time: an issue that is finished by its name and by the
\* directory is never moved again, except by a run whose copy is behind.
TerminalIsFinal ==
  [][\A i \in Issues :
       Exists(i) /\ IsTerminal(issues[i].status) /\ IsTerminalIn(issues[i].status) =>
         \/ issues'[i].status \in {issues[i].status, "gone"}
         \/ \E w \in Workers : op[w].issue = i /\ Behind(w)]_vars

\* One request at a time: a wakeup is recorded by a finished child of the very
\* parent, at a moment when all its siblings are finished too.
WakeupsEarned ==
  [][\A pair \in wakeups' \ wakeups :
       issues[pair[2]].parent = pair[1] /\ IsTerminal(issues[pair[2]].status)
       /\ AllFinished(pair[1])]_vars
==============================================================================
