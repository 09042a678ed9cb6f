----------------------------- MODULE ClassicFlow -----------------------------
(***************************************************************************)
(* The classic workflow of backend/internal/workflow: a change of an issue *)
(* goes through the phases proposal, specs, design, tasks, one guarded     *)
(* handoff at a time, and is archived once every gate passes.              *)
(*                                                                         *)
(* The server is stateless.  Every HTTP handler, agent tool call or AI     *)
(* splitter run is a worker that talks to PostgreSQL one statement at a    *)
(* time and keeps what it read in local variables meanwhile; nothing locks *)
(* the change between two statements.  Each action below is one statement, *)
(* and op[w] is what worker w holds between two of them.                   *)
(*                                                                         *)
(* A phase, and the artifact kind of the same name, is its index in        *)
(* phaseOrder: proposal is 1 and tasks is N.  Kind 0 is the verify report. *)
(***************************************************************************)
EXTENDS Naturals, Sequences, FiniteSets

CONSTANTS
  Issues,     \* issues that may carry a change
  HasParent,  \* those of them that have a parent issue to wake
  Workers,    \* concurrent requests, agent tool calls and splitter runs
  Members,    \* the workers acting for a project member; the others are agents
  NoIssue,    \* what an idle worker works on
  N,          \* the number of phases: 4 in the code
  PlanSize,   \* tasks in a tasks artifact that parses
  Inputs,     \* bound: the contents requests carry
  MaxRows,    \* bound: rows written for one change
  MaxSubs,    \* bound: sub-issues created for one change
  ListScans,  \* does ListArtifacts manage to scan a row (see ArtifactsListed)
  Faults      \* may statements fail and the server crash

\* What the code tells apart in an artifact: a tasks artifact that parses
\* ("plan") or not ("garbled"), a verify report that says pass or fail.
Contents == {"text", "plan", "garbled", "pass", "fail"}

ASSUME NAssumption == N \in Nat /\ N >= 2
ASSUME IssuesAssumption == NoIssue \notin Issues /\ HasParent \subseteq Issues
ASSUME WorkersAssumption == Members \subseteq Workers
ASSUME BoundsAssumption == PlanSize \in Nat \ {0} /\ MaxRows \in Nat /\ MaxSubs \in Nat /\ Inputs \subseteq Contents
ASSUME SwitchAssumption == ListScans \in BOOLEAN /\ Faults \in BOOLEAN

VARIABLES
  changes,    \* table changes: phase and status of the change of each issue
  journal,    \* tables artifacts and change_handoffs, in the order of created_at
  subIssues,  \* per issue, its sub-issues: the journal row each was created from
  mapping,    \* table task_mappings: plan rows bound to sub-issues
  woken,      \* table issue_wakeups: the issues whose parent was woken
  notified,   \* the issues whose parent's owner OnParentWakeup told
  op          \* what each worker is doing, with its local variables

vars == <<changes, journal, subIssues, mapping, woken, notified, op>>
tables == <<changes, journal, subIssues, mapping, woken, notified>>

Verify == 0
Phases == 1..N
Kinds == {Verify} \union Phases

\* "none": no change was opened yet; "gone": the issue was deleted.
Statuses == {"none", "active", "archived", "failed", "gone"}

ContentsOf(k) == CASE k = Verify -> {"pass", "fail"}
                   [] k = N -> {"plan", "garbled"}
                   [] OTHER -> {"text"}

\* A row of artifacts (kind, content) or of change_handoffs (kind is to_phase,
\* and from_phase is always the phase before it).
Artifact(k, c) == [table |-> "artifacts", kind |-> k, content |-> c]
\* (Slip: the phase that is left instead of the one that is entered.)
HandoffFrom(p) == [table |-> "change_handoffs", kind |-> p - 1, content |-> "text"]
Handoff(p) == [table |-> "change_handoffs", kind |-> p, content |-> "text"]
Rows == [table : {"artifacts", "change_handoffs"}, kind : Kinds, content : Contents]

\* A row of task_mappings: the tasks artifact (its journal row) and a sub-issue.
Bindings == [row : Nat, sub : Nat]
SubIssues == [row : Nat, live : BOOLEAN]

\* Row 0 is no row.
Idle == [pc |-> "idle", goal |-> "none", issue |-> NoIssue, phase |-> 1, kind |-> 1,
         content |-> "text", row |-> 0, items |-> <<>>, cleared |-> {}]

Goals == {"none", "manual", "split", "write", "verify", "advance", "archive"}
PCs == {"idle", "create", "generate", "save", "handoff", "update", "fail",
        "write", "bind", "map", "insert", "report", "legal", "entry", "fresh",
        "record", "enter", "verdict", "close", "wake", "notify"}
Ops == [pc : PCs, goal : Goals, issue : Issues \union {NoIssue}, phase : Phases,
        kind : Kinds, content : Contents, row : Nat, items : Seq(Nat),
        cleared : SUBSET Bindings]

TypeOK ==
  /\ changes \in [Issues -> [phase : Phases, status : Statuses]]
  /\ journal \in [Issues -> Seq(Rows)]
  /\ subIssues \in [Issues -> Seq(SubIssues)]
  /\ mapping \in [Issues -> SUBSET Bindings]
  /\ woken \subseteq Issues
  /\ notified \subseteq Issues
  /\ op \in [Workers -> Ops]

------------------------------------------------------------------------------
(* What the statements read.                                               *)

Exists(i) == changes[i].status \in {"active", "archived", "failed"}
Active(i) == changes[i].status = "active"

ArtifactsOf(i, k) ==
  {r \in DOMAIN journal[i] : journal[i][r].table = "artifacts" /\ journal[i][r].kind = k}
Present(i, k) == ArtifactsOf(i, k) # {}
HandoffsOf(i) == {r \in DOMAIN journal[i] : journal[i][r].table = "change_handoffs"}

\* The sub-issues ever created from the tasks artifact at row r, and those of
\* them that were not deleted.
FromPlan(i, r) == {n \in DOMAIN subIssues[i] : subIssues[i][n].row = r}
Living(i, r) == {n \in FromPlan(i, r) : subIssues[i][n].live}

Latest(rows) == CHOOSE r \in rows : \A q \in rows : q <= r

\* ListArtifacts as its callers see it.  collectArtifacts scans the eight
\* selected columns into seven destinations, which pgx refuses for every row;
\* the in-memory store of the tests returns the rows.  ListScans chooses.
ArtifactsListed(i) == ListScans \/ \A k \in Kinds : ~Present(i, k)

\* (Slip: the current phase needs none.)
PhaseLegalBefore(i, p) == ArtifactsListed(i) /\ \A k \in 1..(p - 1) : Present(i, k)

\* phaseLegal: an artifact for phase p and for every phase before it.
PhaseLegal(i, p) == ArtifactsListed(i) /\ \A k \in 1..p : Present(i, k)

\* handoffFresh, first read: the newest handoff entered phase p.
EnteredBy(i, p, h) == h \in HandoffsOf(i) /\ h = Latest(HandoffsOf(i)) /\ journal[i][h].kind = p

\* handoffFresh, second read: nothing before phase p is newer than handoff h.
Undisturbed(i, p, h) ==
  ArtifactsListed(i) /\ \A k \in 1..(p - 1) : \A r \in ArtifactsOf(i, k) : r <= h

HandoffFresh(i, p) == p = 1 \/ \E h \in HandoffsOf(i) : EnteredBy(i, p, h) /\ Undisturbed(i, p, h)

\* (Slip: there is some report.)
VerifySubmitted(i) == Present(i, Verify)

\* verifyPassed: the newest report says pass.
VerifyPassed(i) ==
  \E r \in ArtifactsOf(i, Verify) :
    r = Latest(ArtifactsOf(i, Verify)) /\ journal[i][r].content = "pass"

\* The gates of GuardStatus before archiving, read at one moment.
GatesOpen(i) == PhaseLegal(i, N) /\ HandoffFresh(i, N) /\ VerifyPassed(i)

------------------------------------------------------------------------------
(* How a worker moves.                                                     *)

At(w, pc) == op[w].pc = pc
Move(w, o) == op' = [op EXCEPT ![w] = o]
Goto(w, pc) == Move(w, [op[w] EXCEPT !.pc = pc])
Done(w) == Move(w, Idle)
Begin(w, o) == op[w] = Idle /\ Move(w, o)

\* An error the splitter meets after it created the change goes to failChange.
Refuse(w) == IF op[w].goal = "split" THEN Goto(w, "fail") ELSE Done(w)

\* INSERT of a row: a foreign key refuses it once the change is gone.
Room(i) == Len(journal[i]) < MaxRows
Insert(i, row) == journal' = [journal EXCEPT ![i] = Append(@, row)]

\* UpdateChange writes the worker's copy of phase and status over the row.
UpdateChange(i, p, s) == changes' = [changes EXCEPT ![i] = [phase |-> p, status |-> s]]

------------------------------------------------------------------------------
(* Opening a change: StartChange by hand, or the splitter.                 *)

StartChange(w, i, goal) ==
  /\ changes[i].status = "none"
  /\ Begin(w, [Idle EXCEPT !.pc = "create", !.goal = goal, !.issue = i])
  /\ UNCHANGED tables

\* The UNIQUE issue_id makes the second of two concurrent inserts fail.
CreateChange(w) ==
  LET i == op[w].issue IN
  /\ At(w, "create")
  /\ \/ /\ changes[i].status = "none"
        /\ UpdateChange(i, 1, "active")
        /\ IF op[w].goal = "split" THEN Goto(w, "generate") ELSE Done(w)
     \/ /\ changes[i].status # "none"
        /\ Done(w)
        /\ UNCHANGED changes
  /\ UNCHANGED <<journal, subIssues, mapping, woken, notified>>

\* generatePhase: some attempt passes validateArtifact, or all are used up.
Generate(w) ==
  /\ At(w, "generate")
  /\ Goto(w, "save") \/ Goto(w, "fail")
  /\ UNCHANGED tables

SaveGenerated(w) ==
  LET i == op[w].issue
      p == op[w].phase
      c == IF p = N THEN "plan" ELSE "text"
  IN
  /\ At(w, "save")
  /\ \/ /\ Exists(i) /\ Room(i)
        /\ Insert(i, Artifact(p, c))
        /\ Move(w, [op[w] EXCEPT !.pc = IF p = N THEN "bind" ELSE "handoff",
                                 !.content = c, !.row = Len(journal[i]) + 1])
     \/ /\ ~Exists(i)
        /\ Refuse(w)
        /\ UNCHANGED journal
  /\ UNCHANGED <<changes, subIssues, mapping, woken, notified>>

SplitHandoff(w) ==
  LET i == op[w].issue IN
  /\ At(w, "handoff")
  /\ \/ /\ Exists(i) /\ Room(i)
        /\ Insert(i, Handoff(op[w].phase + 1))
        /\ Goto(w, "update")
     \/ /\ ~Exists(i)
        /\ Refuse(w)
        /\ UNCHANGED journal
  /\ UNCHANGED <<changes, subIssues, mapping, woken, notified>>

\* The local phase advances before UpdateChange, so that a failing update
\* leaves the advanced phase to failChange.
SplitUpdate(w) ==
  LET i == op[w].issue
      p == op[w].phase + 1
  IN
  /\ At(w, "update")
  /\ \/ /\ Exists(i)
        /\ UpdateChange(i, p, "active")
        /\ Move(w, [op[w] EXCEPT !.pc = "generate", !.phase = p])
     \/ /\ ~Exists(i) \/ Faults
        /\ Move(w, [op[w] EXCEPT !.pc = "fail", !.phase = p])
        /\ UNCHANGED changes
  /\ UNCHANGED <<journal, subIssues, mapping, woken, notified>>

FailChange(w) ==
  LET i == op[w].issue IN
  /\ At(w, "fail")
  /\ IF Exists(i) THEN UpdateChange(i, op[w].phase, "failed") ELSE UNCHANGED changes
  /\ Done(w)
  /\ UNCHANGED <<journal, subIssues, mapping, woken, notified>>

------------------------------------------------------------------------------
(* Writing an artifact; a tasks artifact also gets sub-issues and mappings.*)

\* (Slip: the status is not looked at.)
WriteAnyArtifact(w, i, k, c) ==
  /\ Exists(i)
  /\ k \in Phases /\ c \in ContentsOf(k)
  /\ Begin(w, [Idle EXCEPT !.pc = "write", !.goal = "write", !.issue = i,
                           !.kind = k, !.content = c])
  /\ UNCHANGED tables

WriteArtifact(w, i, k, c) ==
  /\ Active(i)
  /\ k \in Phases /\ c \in ContentsOf(k)
  /\ Begin(w, [Idle EXCEPT !.pc = "write", !.goal = "write", !.issue = i,
                           !.kind = k, !.content = c])
  /\ UNCHANGED tables

SaveArtifact(w) ==
  LET i == op[w].issue IN
  /\ At(w, "write")
  /\ \/ /\ Exists(i) /\ Room(i)
        /\ Insert(i, Artifact(op[w].kind, op[w].content))
        /\ IF op[w].kind = N
             THEN Move(w, [op[w] EXCEPT !.pc = "bind", !.row = Len(journal[i]) + 1])
             ELSE Done(w)
     \/ /\ ~Exists(i)
        /\ Done(w)
        /\ UNCHANGED journal
  /\ UNCHANGED <<changes, subIssues, mapping, woken, notified>>

\* One turn of bindTaskSubIssuesTo's loop: the content is parsed only now, and
\* CreateIssue refuses whoever is not a project member.
CreateSubIssue(w) ==
  LET i == op[w].issue
      id == Len(subIssues[i]) + 1
      items == Append(op[w].items, id)
  IN
  /\ At(w, "bind")
  /\ op[w].content = "plan" /\ w \in Members /\ Exists(i)
  /\ Len(subIssues[i]) < MaxSubs
  /\ subIssues' = [subIssues EXCEPT ![i] = Append(@, [row |-> op[w].row, live |-> TRUE])]
  /\ Move(w, [op[w] EXCEPT !.items = items,
                           !.pc = IF Len(items) = PlanSize THEN "map" ELSE "bind"])
  /\ UNCHANGED <<changes, journal, mapping, woken, notified>>

BindRefused(w) ==
  /\ At(w, "bind")
  /\ op[w].content # "plan" \/ w \notin Members \/ ~Exists(op[w].issue)
  /\ Refuse(w)
  /\ UNCHANGED tables

\* SetTaskMappings is a transaction at READ COMMITTED.  Its DELETE takes the
\* rows its snapshot shows; those another transaction inserts meanwhile stay.
ClearMappings(w) ==
  /\ At(w, "map")
  /\ Move(w, [op[w] EXCEPT !.pc = "insert", !.cleared = mapping[op[w].issue]])
  /\ UNCHANGED tables

BindTo(row, items) == {[row |-> row, sub |-> items[n]] : n \in DOMAIN items}

\* (Slip: the newest tasks artifact is bound instead of the one just saved.)
SetMappingsToNewest(w) ==
  LET i == op[w].issue IN
  /\ At(w, "insert") /\ Exists(i)
  /\ mapping' = [mapping EXCEPT ![i] =
       (@ \ op[w].cleared) \union BindTo(Latest(ArtifactsOf(i, N)), op[w].items)]
  /\ Done(w)
  /\ UNCHANGED <<changes, journal, subIssues, woken, notified>>

\* The INSERTs and the commit, which makes both visible.  Foreign keys refuse
\* them once the change or one of the sub-issues is gone: all is rolled back.
SetTaskMappings(w) ==
  LET i == op[w].issue
      insertable == Exists(i) /\ \A n \in DOMAIN op[w].items :
                                    op[w].items[n] \in Living(i, op[w].row)
  IN
  /\ At(w, "insert")
  /\ \/ /\ insertable
        /\ mapping' = [mapping EXCEPT ![i] =
             (@ \ op[w].cleared) \union BindTo(op[w].row, op[w].items)]
        /\ Done(w)
     \/ /\ ~insertable
        /\ Refuse(w)
        /\ UNCHANGED mapping
  /\ UNCHANGED <<changes, journal, subIssues, woken, notified>>

------------------------------------------------------------------------------
(* Verify reports.                                                         *)

SubmitVerifyReport(w, i, c) ==
  /\ Active(i)
  /\ c \in ContentsOf(Verify)
  /\ Begin(w, [Idle EXCEPT !.pc = "report", !.goal = "verify", !.issue = i,
                           !.kind = Verify, !.content = c])
  /\ UNCHANGED tables

SaveReport(w) ==
  LET i == op[w].issue IN
  /\ At(w, "report")
  /\ \/ Exists(i) /\ Room(i) /\ Insert(i, Artifact(Verify, op[w].content))
     \/ ~Exists(i) /\ UNCHANGED journal
  /\ Done(w)
  /\ UNCHANGED <<changes, subIssues, mapping, woken, notified>>

------------------------------------------------------------------------------
(* The guarded advance and the archive share their first gates.            *)

\* (Slip: the final phase is not recognised.)
AdvanceAnyPhase(w, i) ==
  /\ Active(i)
  /\ Begin(w, [Idle EXCEPT !.pc = "legal", !.goal = "advance", !.issue = i,
                           !.phase = changes[i].phase])
  /\ UNCHANGED tables

AdvancePhase(w, i) ==
  /\ Active(i) /\ changes[i].phase < N
  /\ Begin(w, [Idle EXCEPT !.pc = "legal", !.goal = "advance", !.issue = i,
                           !.phase = changes[i].phase])
  /\ UNCHANGED tables

Archive(w, i) ==
  /\ Active(i) /\ changes[i].phase = N
  /\ Begin(w, [Idle EXCEPT !.pc = "legal", !.goal = "archive", !.issue = i, !.phase = N])
  /\ UNCHANGED tables

\* Where a worker goes once handoffFresh is satisfied.
PastHandoffGate(w) == IF op[w].goal = "archive" THEN "verdict" ELSE "record"

CheckPhaseLegal(w) ==
  /\ At(w, "legal")
  /\ IF PhaseLegal(op[w].issue, op[w].phase)
       THEN Goto(w, IF op[w].phase = 1 THEN PastHandoffGate(w) ELSE "entry")
       ELSE Done(w)
  /\ UNCHANGED tables

CheckEntryHandoff(w) ==
  LET i == op[w].issue IN
  /\ At(w, "entry")
  /\ IF \E h \in HandoffsOf(i) : EnteredBy(i, op[w].phase, h)
       THEN Move(w, [op[w] EXCEPT !.pc = "fresh", !.row = Latest(HandoffsOf(i))])
       ELSE Done(w)
  /\ UNCHANGED tables

\* (Slip: a stale handoff is renewed by the refusal.)
RenewHandoff(w) ==
  LET i == op[w].issue IN
  /\ At(w, "fresh")
  /\ IF Undisturbed(i, op[w].phase, op[w].row)
       THEN Move(w, [op[w] EXCEPT !.pc = PastHandoffGate(w), !.row = 0]) /\ UNCHANGED journal
       ELSE Room(i) /\ Insert(i, Handoff(op[w].phase)) /\ Done(w)
  /\ UNCHANGED <<changes, subIssues, mapping, woken, notified>>

CheckHandoffFresh(w) ==
  /\ At(w, "fresh")
  /\ IF Undisturbed(op[w].issue, op[w].phase, op[w].row)
       THEN Move(w, [op[w] EXCEPT !.pc = PastHandoffGate(w), !.row = 0])
       ELSE Done(w)
  /\ UNCHANGED tables

RecordHandoff(w) ==
  LET i == op[w].issue IN
  /\ At(w, "record")
  /\ \/ /\ Exists(i) /\ Room(i)
        /\ Insert(i, Handoff(op[w].phase + 1))
        /\ Goto(w, "enter")
     \/ /\ ~Exists(i)
        /\ Done(w)
        /\ UNCHANGED journal
  /\ UNCHANGED <<changes, subIssues, mapping, woken, notified>>

EnterPhase(w) ==
  LET i == op[w].issue IN
  /\ At(w, "enter")
  /\ IF Exists(i) THEN UpdateChange(i, op[w].phase + 1, "active") ELSE UNCHANGED changes
  /\ Done(w)
  /\ UNCHANGED <<journal, subIssues, mapping, woken, notified>>

\* (Slip: any report will do.)
CheckVerifySubmitted(w) ==
  /\ At(w, "verdict")
  /\ IF Present(op[w].issue, Verify) THEN Goto(w, "close") ELSE Done(w)
  /\ UNCHANGED tables

CheckVerifyPassed(w) ==
  /\ At(w, "verdict")
  /\ IF VerifyPassed(op[w].issue) THEN Goto(w, "close") ELSE Done(w)
  /\ UNCHANGED tables

CloseChange(w) ==
  LET i == op[w].issue IN
  /\ At(w, "close")
  /\ \/ Exists(i) /\ UpdateChange(i, op[w].phase, "archived") /\ Goto(w, "wake")
     \/ ~Exists(i) /\ Done(w) /\ UNCHANGED changes
  /\ UNCHANGED <<journal, subIssues, mapping, woken, notified>>

\* (Slip: the hook runs although no wakeup was recorded.)
WakeUnrecorded(w) ==
  /\ At(w, "wake")
  /\ IF op[w].issue \in HasParent THEN Goto(w, "notify") ELSE Done(w)
  /\ UNCHANGED tables

\* (Slip: the wakeup is recorded and nobody is told.)
WakeSilently(w) ==
  LET i == op[w].issue IN
  /\ At(w, "wake")
  /\ woken' = IF Exists(i) /\ i \in HasParent THEN woken \union {i} ELSE woken
  /\ Done(w)
  /\ UNCHANGED <<changes, journal, subIssues, mapping, notified>>

\* wakeChangeIssueParent: the wakeup row (ON CONFLICT DO NOTHING) ...
WakeParent(w) ==
  LET i == op[w].issue IN
  /\ At(w, "wake")
  /\ IF Exists(i) /\ i \in HasParent
       THEN woken' = woken \union {i} /\ Goto(w, "notify")
       ELSE Done(w) /\ UNCHANGED woken
  /\ UNCHANGED <<changes, journal, subIssues, mapping, notified>>

\* ... and then the hook, which notifies the owner or enqueues a run.
NotifyParent(w) ==
  LET i == op[w].issue IN
  /\ At(w, "notify")
  /\ notified' = IF Exists(i) THEN notified \union {i} ELSE notified
  /\ Done(w)
  /\ UNCHANGED <<changes, journal, subIssues, mapping, woken>>

------------------------------------------------------------------------------
(* What else happens to a change.                                          *)

\* The issue is deleted, or one of its ancestors is: the change, its rows, its
\* mappings and its wakeups go with it.
DeleteIssue(i) ==
  /\ changes[i].status # "gone"
  /\ changes' = [changes EXCEPT ![i] = [phase |-> 1, status |-> "gone"]]
  /\ journal' = [journal EXCEPT ![i] = <<>>]
  /\ subIssues' = [subIssues EXCEPT ![i] = <<>>]
  /\ mapping' = [mapping EXCEPT ![i] = {}]
  /\ woken' = woken \ {i}
  /\ notified' = notified \ {i}
  /\ UNCHANGED op

\* One sub-issue is deleted: its row of task_mappings, if any, goes with it.
DeleteSubIssue(i, n) ==
  /\ n \in DOMAIN subIssues[i] /\ subIssues[i][n].live
  /\ subIssues' = [subIssues EXCEPT ![i][n].live = FALSE]
  /\ mapping' = [mapping EXCEPT ![i] = {m \in @ : m.sub # n}]
  /\ UNCHANGED <<changes, journal, woken, notified, op>>

\* A statement fails or the request is cancelled.  SplitUpdate has its own
\* failure; failChange itself is best effort.
StatementFails(w) ==
  /\ Faults
  /\ op[w].pc \notin {"idle", "update"}
  /\ IF op[w].pc \in {"create", "fail"} THEN Done(w) ELSE Refuse(w)
  /\ UNCHANGED tables

\* The server stops: every worker is lost, the tables stay.
Crash ==
  /\ Faults
  /\ \E w \in Workers : op[w] # Idle
  /\ op' = [w \in Workers |-> Idle]
  /\ UNCHANGED tables

------------------------------------------------------------------------------
Init ==
  /\ changes = [i \in Issues |-> [phase |-> 1, status |-> "none"]]
  /\ journal = [i \in Issues |-> <<>>]
  /\ subIssues = [i \in Issues |-> <<>>]
  /\ mapping = [i \in Issues |-> {}]
  /\ woken = {}
  /\ notified = {}
  /\ op = [w \in Workers |-> Idle]

Request(w) ==
  \E i \in Issues :
    \/ \E goal \in {"manual", "split"} : StartChange(w, i, goal)
    \/ \E k \in Phases, c \in Inputs : WriteArtifact(w, i, k, c)
    \/ \E c \in Inputs : SubmitVerifyReport(w, i, c)
    \/ AdvancePhase(w, i)
    \/ Archive(w, i)

\* The next statement of a worker that has begun.
Step(w) ==
  \/ CreateChange(w) \/ Generate(w) \/ SaveGenerated(w) \/ SplitHandoff(w)
  \/ SplitUpdate(w) \/ FailChange(w)
  \/ SaveArtifact(w) \/ CreateSubIssue(w) \/ BindRefused(w)
  \/ ClearMappings(w) \/ SetTaskMappings(w)
  \/ SaveReport(w)
  \/ CheckPhaseLegal(w) \/ CheckEntryHandoff(w) \/ CheckHandoffFresh(w)
  \/ RecordHandoff(w) \/ EnterPhase(w)
  \/ CheckVerifyPassed(w) \/ CloseChange(w) \/ WakeParent(w) \/ NotifyParent(w)

Next ==
  \/ \E w \in Workers : Request(w) \/ Step(w) \/ StatementFails(w)
  \/ \E i \in Issues : DeleteIssue(i) \/ \E n \in DOMAIN subIssues[i] : DeleteSubIssue(i, n)
  \/ Crash

Spec == Init /\ [][Next]_vars

\* A request in progress is a goroutine: it goes on unless it is killed.
\* Nobody is obliged to send a request.
FairSpec == Spec /\ \A w \in Workers : WF_vars(Step(w))

------------------------------------------------------------------------------
(* Properties that hold however the workers interleave, fail and crash.    *)

\* Nothing is skipped: a change stands at a phase only if every earlier phase
\* has an artifact, although AdvancePhase checked that some statements ago.
PhaseBacked ==
  \A i \in Issues : Exists(i) => \A k \in 1..(changes[i].phase - 1) : Present(i, k)

\* Every phase but the first was entered through a recorded handoff, although
\* the handoff and the phase are written by two statements.
PhaseHandedOff ==
  \A i \in Issues : Exists(i) /\ changes[i].phase > 1 =>
    \E h \in HandoffsOf(i) : journal[i][h].kind = changes[i].phase

\* Every kind of artifact and a report that says pass.
Evidence(i) ==
  /\ \A k \in Phases : Present(i, k)
  /\ \E r \in ArtifactsOf(i, Verify) : journal[i][r].content = "pass"

\* An archived change is at the tasks phase and has its evidence, whichever
\* worker's stale copy was the last one written over the row.
ArchivedWithEvidence ==
  \A i \in Issues : changes[i].status = "archived" => changes[i].phase = N /\ Evidence(i)

\* A parent is woken by this module only for a change whose evidence is
\* complete, and its owner is told only after the wakeup is on record.
WakeupEarned ==
  /\ \A i \in woken : i \in HasParent /\ Evidence(i)
  /\ notified \subseteq woken

\* A plan is bound whole or not at all, however two replacements overlap and
\* whatever was deleted meanwhile: what a mapping names is a plan all of whose
\* sub-issues were created, and every one of them that lives is bound to it.
PlansBoundWhole ==
  \A i \in Issues : \A m \in mapping[i] :
    /\ m.row \in ArtifactsOf(i, N) /\ journal[i][m.row].content = "plan"
    /\ Cardinality(FromPlan(i, m.row)) = PlanSize
    /\ m.sub \in Living(i, m.row)
    /\ \A n \in Living(i, m.row) : [row |-> m.row, sub |-> n] \in mapping[i]

------------------------------------------------------------------------------
(* Properties of one request at a time; interleaved requests break them.   *)

\* No two requests in progress are about the same change.
Alone == \A v, w \in Workers : op[v].issue = op[w].issue /\ op[w].issue # NoIssue => v = w

\* At the moment a change is archived, all the gates that Archive read one
\* after the other hold together.
ArchivedOnOpenGates ==
  [][\A i \in Issues : changes[i].status # "archived" /\ changes'[i].status = "archived"
       => GatesOpen(i)]_vars

\* The handoff gate, once shut, never opens again: no request records another
\* handoff into the phase a change already stands at, so a change whose earlier
\* artifact was rewritten, or whose advance died between its handoff and its
\* phase, can be neither advanced nor archived.
Entering(i) == \E w \in Workers : op[w].issue = i /\ op[w].pc \in {"enter", "update", "fail"}
Shut(i) == Exists(i) /\ ~Entering(i) /\ ~HandoffFresh(i, changes[i].phase)
ShutGateStaysShut ==
  [][\A i \in Issues : Shut(i) /\ Exists(i)' => ~HandoffFresh(i, changes[i].phase)']_vars

\* What the promise sees of the tables: no rows, no sub-issues, no workers.
Delivered(i) == {k \in Phases : Present(i, k)}
NewestVerdict(i) ==
  IF Present(i, Verify) THEN journal[i][Latest(ArtifactsOf(i, Verify))].content ELSE "none"

PhaseSeen == [i \in Issues |-> changes[i].phase]
StatusSeen == [i \in Issues |-> changes[i].status]
DeliveredSeen == [i \in Issues |-> Delivered(i)]
VerdictSeen == [i \in Issues |-> NewestVerdict(i)]

Promise == INSTANCE ChangePromise WITH
  phase <- PhaseSeen, status <- StatusSeen, delivered <- DeliveredSeen, verdict <- VerdictSeen

\* One request at a time, the workflow implements its promise.
KeepsPromise == Promise!Spec

------------------------------------------------------------------------------
(* Properties of a server on which no statement fails.                     *)

\* The owner of the parent has been told of an archive, or the worker that
\* archived is at the two statements that will tell, whoever wrote the row since.
ArchiveBeingTold ==
  \A i \in HasParent : changes[i].status = "archived" /\ i \notin notified =>
    \E w \in Workers : op[w].issue = i /\ op[w].pc \in {"wake", "notify"}

------------------------------------------------------------------------------
(* Liveness, under FairSpec.                                               *)

\* Archiving wakes the parent's owner (or the issue is deleted first).
ArchiveNotifies ==
  \A i \in HasParent :
    changes[i].status = "archived" ~> (i \in notified \/ changes[i].status # "archived")

------------------------------------------------------------------------------
(* What the documentation says and the code does not do (violation run).   *)

\* The guard report calls a phase legal when it and all before it have an
\* artifact.
GuardSeesArtifacts ==
  \A i \in Issues : Exists(i) =>
    ((\A k \in 1..changes[i].phase : Present(i, k)) => PhaseLegal(i, changes[i].phase))
==============================================================================
