-------------------------- MODULE ClassicFlowProofs --------------------------
(***************************************************************************)
(* The safety invariants of ClassicFlow hold for any number of workers,    *)
(* issues and phases, with every interleaving, failing statement and crash.*)
(*                                                                         *)
(* None of them is inductive: what a worker will write rests on what it    *)
(* read earlier.  LocalOK(w) records what worker w may rely on at each of  *)
(* its statements although the tables moved on since; it survives the      *)
(* steps of the others because rows are only ever added to a change, until *)
(* the change as a whole is deleted (TablesGrow).                          *)
(*                                                                         *)
(* What is mapped of a plan is bound to its tasks artifact (PInv): a row   *)
(* that binds a sub-issue is written by the request that made it.          *)
(*                                                                         *)
(* While requests about one change do not overlap (Alone), every copy is   *)
(* current (CopiesCurrent): archives find their gates open, a shut handoff *)
(* gate stays shut, and the workflow implements ChangePromise.  Without    *)
(* failures no archive is left untold (ArchivesAreTold).                  *)
(***************************************************************************)
EXTENDS ClassicFlow, TLAPS, WellFoundedInduction, FiniteSetTheorems

------------------------------------------------------------------------------
(* The inductive invariant.                                                *)

Backed(i, p) == \A k \in 1..(p - 1) : Present(i, k)
Legal(i, p) == \A k \in 1..p : Present(i, k)
HandedOff(i, p) == p > 1 => \E h \in HandoffsOf(i) : journal[i][h].kind = p
Passed(i) == \E r \in ArtifactsOf(i, Verify) : journal[i][r].content = "pass"
Saved(i, row, c) == row \in ArtifactsOf(i, N) /\ journal[i][row].content = c

SplitPCs == {"generate", "save", "handoff", "update", "fail"}
GatePCs == {"legal", "entry", "fresh", "record", "enter", "verdict", "close", "wake", "notify"}

\* What the program counter says about the other local variables.
ControlOK(w) ==
  /\ op[w].pc # "idle" => op[w].issue \in Issues
  /\ op[w].pc \in SplitPCs => op[w].goal = "split"
  /\ op[w].pc \in {"handoff", "update"} => op[w].phase < N
  /\ op[w].pc \in GatePCs => op[w].goal \in {"advance", "archive"}
  /\ op[w].goal = "advance" => op[w].phase < N
  /\ op[w].goal = "archive" => op[w].phase = N
  /\ op[w].pc \in {"record", "enter"} => op[w].goal = "advance"
  /\ op[w].pc \in {"verdict", "close", "wake", "notify"} => op[w].goal = "archive"
  /\ op[w].pc \notin {"bind", "map", "insert", "fail"} => op[w].items = <<>>
  /\ op[w].pc = "create" => op[w].phase = 1
  /\ op[w].pc = "write" => op[w].goal = "write"
  /\ op[w].pc \notin {"idle", "create"} => changes[op[w].issue].status # "none"

\* What the worker relies on, as long as the change has not been deleted.
RowsOK(w) ==
  LET o == op[w]
      i == op[w].issue
  IN
  o.pc # "idle" /\ Exists(i) =>
    /\ o.goal = "split" /\ o.pc # "create" => Backed(i, o.phase) /\ HandedOff(i, o.phase)
    /\ o.pc \in {"handoff", "update"} => Legal(i, o.phase)
    /\ o.pc \in {"update", "enter"} => HandedOff(i, o.phase + 1)
    /\ o.pc \in {"entry", "fresh", "record", "enter", "verdict", "close", "wake", "notify"}
         => Legal(i, o.phase)
    /\ o.pc \in {"fresh", "record", "enter", "verdict", "close"} => HandedOff(i, o.phase)
    /\ o.pc \in {"close", "wake", "notify"} => Passed(i)
    /\ o.pc = "notify" => i \in HasParent /\ i \in woken
    /\ o.pc \in {"bind", "map", "insert"} => Saved(i, o.row, o.content)
    /\ o.pc \in {"map", "insert"} => o.content = "plan"

\* The invariants, one change at a time.
ChangeOK(i) ==
  /\ Exists(i) => Backed(i, changes[i].phase) /\ HandedOff(i, changes[i].phase)
  /\ changes[i].status = "archived" => changes[i].phase = N /\ Legal(i, N) /\ Passed(i)
  /\ i \in woken => i \in HasParent /\ Legal(i, N) /\ Passed(i)
  /\ i \in notified => i \in woken

\* A change that is not there has no rows.
AbsentOK(i) == ~Exists(i) => i \notin woken /\ i \notin notified

IInv ==
  /\ TypeOK
  /\ \A w \in Workers : ControlOK(w) /\ RowsOK(w)
  /\ \A i \in Issues : ChangeOK(i) /\ AbsentOK(i)

------------------------------------------------------------------------------
(* Types.                                                                  *)

LEMMA IdleType == Idle \in Ops
  BY NAssumption DEF Idle, Ops, PCs, Goals, Phases, Kinds, Verify, Contents

LEMMA ArtifactType == ASSUME NEW k \in Kinds, NEW c \in Contents PROVE Artifact(k, c) \in Rows
  BY DEF Artifact, Rows

LEMMA HandoffType == ASSUME NEW p \in Phases PROVE Handoff(p) \in Rows
  BY NAssumption DEF Handoff, Rows, Kinds, Contents

\* A move sets one worker's local variables and no other worker's.
LEMMA MoveFacts ==
  ASSUME op \in [Workers -> Ops], NEW w \in Workers, NEW o \in Ops, Move(w, o)
  PROVE  /\ op' \in [Workers -> Ops]
         /\ op'[w] = o
         /\ \A v \in Workers : v # w => op'[v] = op[v]
  BY DEF Move

\* Everything but the program counter.
SameLocals(w) ==
  /\ op'[w].goal = op[w].goal
  /\ op'[w].issue = op[w].issue
  /\ op'[w].phase = op[w].phase
  /\ op'[w].kind = op[w].kind
  /\ op'[w].content = op[w].content
  /\ op'[w].row = op[w].row
  /\ op'[w].items = op[w].items

LEMMA GotoFacts ==
  ASSUME op \in [Workers -> Ops], NEW w \in Workers, NEW pc \in PCs, Goto(w, pc)
  PROVE  /\ op' \in [Workers -> Ops]
         /\ op'[w].pc = pc /\ SameLocals(w)
         /\ \A v \in Workers : v # w => op'[v] = op[v]
<1>. DEFINE o == [op[w] EXCEPT !.pc = pc]
<1>1. op[w] \in Ops /\ o \in Ops
  BY DEF Ops
<1>2. Move(w, o)
  BY DEF Goto
<1>3. /\ o.pc = pc /\ o.goal = op[w].goal /\ o.issue = op[w].issue /\ o.phase = op[w].phase
      /\ o.kind = op[w].kind /\ o.content = op[w].content
      /\ o.row = op[w].row /\ o.items = op[w].items
  BY <1>1 DEF Ops
<1>. HIDE DEF o
<1>4. op' \in [Workers -> Ops] /\ op'[w] = o /\ \A v \in Workers : v # w => op'[v] = op[v]
  BY <1>1, <1>2, MoveFacts
<1>. QED
  BY <1>3, <1>4 DEF SameLocals

LEMMA DoneFacts ==
  ASSUME op \in [Workers -> Ops], NEW w \in Workers, Done(w)
  PROVE  /\ op' \in [Workers -> Ops]
         /\ op'[w] = Idle
         /\ \A v \in Workers : v # w => op'[v] = op[v]
  BY IdleType, MoveFacts DEF Done

LEMMA BeginFacts ==
  ASSUME op \in [Workers -> Ops], NEW w \in Workers, NEW o \in Ops, Begin(w, o)
  PROVE  /\ op' \in [Workers -> Ops]
         /\ op'[w] = o
         /\ op[w] = Idle
         /\ \A v \in Workers : v # w => op'[v] = op[v]
  BY MoveFacts DEF Begin

LEMMA RefuseFacts ==
  ASSUME op \in [Workers -> Ops], NEW w \in Workers, Refuse(w)
  PROVE  /\ op' \in [Workers -> Ops]
         /\ \/ op'[w] = Idle
            \/ op[w].goal = "split" /\ op'[w].pc = "fail" /\ SameLocals(w)
         /\ \A v \in Workers : v # w => op'[v] = op[v]
<1>1. CASE op[w].goal = "split"
  <2>1. Goto(w, "fail")
    BY <1>1 DEF Refuse
  <2>2. "fail" \in PCs
    BY DEF PCs
  <2>. QED
    BY <1>1, <2>1, <2>2, GotoFacts
<1>2. CASE op[w].goal # "split"
  BY <1>2, DoneFacts DEF Refuse
<1>. QED
  BY <1>1, <1>2

LEMMA AppendFacts ==
  ASSUME NEW S, NEW s \in Seq(S), NEW x \in S
  PROVE  /\ Append(s, x) \in Seq(S)
         /\ Len(Append(s, x)) = Len(s) + 1
         /\ DOMAIN Append(s, x) = DOMAIN s \union {Len(s) + 1}
         /\ \A r \in DOMAIN s : Append(s, x)[r] = s[r]
         /\ Append(s, x)[Len(s) + 1] = x
  OBVIOUS

\* A new row of the journal of one change.
LEMMA InsertFacts ==
  ASSUME TypeOK, NEW i \in Issues, NEW row \in Rows, Insert(i, row)
  PROVE  /\ journal' \in [Issues -> Seq(Rows)]
         /\ \A j \in Issues : j # i => journal'[j] = journal[j]
         /\ DOMAIN journal'[i] = DOMAIN journal[i] \union {Len(journal[i]) + 1}
         /\ \A r \in DOMAIN journal[i] : journal'[i][r] = journal[i][r]
         /\ journal'[i][Len(journal[i]) + 1] = row
<1>1. journal[i] \in Seq(Rows)
  BY DEF TypeOK
<1>2. journal' = [journal EXCEPT ![i] = Append(journal[i], row)]
  BY DEF Insert
<1>3. journal'[i] = Append(journal[i], row)
  BY <1>2 DEF TypeOK
<1>4. Append(journal[i], row) \in Seq(Rows)
  BY <1>1
<1>5. journal' \in [Issues -> Seq(Rows)] /\ \A j \in Issues : j # i => journal'[j] = journal[j]
  BY <1>2, <1>4 DEF TypeOK
<1>. QED
  BY <1>1, <1>3, <1>5, AppendFacts

------------------------------------------------------------------------------
(* What one step does to what the others rely on.                          *)

\* The rows of a change are only added to, until the change is deleted.
Kept(i) ==
  /\ changes[i].status # "none" => changes'[i].status # "none"
  /\ Exists(i)' =>
       /\ changes[i].status # "gone"
       /\ \A r \in DOMAIN journal[i] : r \in DOMAIN journal'[i] /\ journal'[i][r] = journal[i][r]
       /\ i \in woken => i \in woken'

LEMMA KeptRows ==
  ASSUME NEW i, Kept(i), Exists(i)'
  PROVE  /\ \A p : Backed(i, p) => Backed(i, p)'
         /\ \A p : Legal(i, p) => Legal(i, p)'
         /\ \A p : HandedOff(i, p) => HandedOff(i, p)'
         /\ Passed(i) => Passed(i)'
         /\ \A row, c : Saved(i, row, c) => Saved(i, row, c)'
<1>. DEFINE Rws == \A r \in DOMAIN journal[i] :
                     r \in DOMAIN journal'[i] /\ journal'[i][r] = journal[i][r]
<1>1. Rws
  BY DEF Kept
<1>2. \A k : ArtifactsOf(i, k) \subseteq ArtifactsOf(i, k)' /\ (Present(i, k) => Present(i, k)')
  BY <1>1 DEF ArtifactsOf, Present
<1>3. HandoffsOf(i) \subseteq HandoffsOf(i)'
  BY <1>1 DEF HandoffsOf
<1>4. ASSUME NEW p, Backed(i, p) PROVE Backed(i, p)'
  BY <1>2, <1>4 DEF Backed
<1>5. ASSUME NEW p, Legal(i, p) PROVE Legal(i, p)'
  BY <1>2, <1>5 DEF Legal
<1>6. ASSUME NEW p, HandedOff(i, p) PROVE HandedOff(i, p)'
  BY <1>1, <1>6 DEF HandedOff, HandoffsOf
<1>7. Passed(i) => Passed(i)'
  BY <1>1, <1>2 DEF Passed, ArtifactsOf
<1>8. ASSUME NEW row, NEW c, Saved(i, row, c) PROVE Saved(i, row, c)'
  BY <1>1, <1>2, <1>8 DEF Saved, ArtifactsOf
<1>. QED
  BY <1>4, <1>5, <1>6, <1>7, <1>8

\* A worker that does not move keeps what it relies on.
LEMMA OthersOK ==
  ASSUME NEW v \in Workers, ControlOK(v), RowsOK(v), op'[v] = op[v],
         \A i \in Issues : Kept(i), changes \in [Issues -> [phase : Phases, status : Statuses]]
  PROVE  ControlOK(v)' /\ RowsOK(v)'
<1>. DEFINE i == op[v].issue
<1>1. ControlOK(v)'
  BY DEF ControlOK, Kept
<1>2. CASE op[v].pc \in {"idle", "create"} \/ ~Exists(i)'
  BY <1>1, <1>2 DEF RowsOK
<1>3. CASE op[v].pc \notin {"idle", "create"} /\ Exists(i)'
  <2>1. i \in Issues /\ changes[i].status # "none"
    BY <1>3 DEF ControlOK
  <2>2. Kept(i) /\ Exists(i)
    BY <1>3, <2>1 DEF Kept, Exists, Statuses
  <2>3. RowsOK(v)'
    BY <1>3, <2>2, KeptRows DEF RowsOK, Kept
  <2>. QED
    BY <1>1, <2>3
<1>. QED
  BY <1>1, <1>2, <1>3

\* A change whose own rows are not written stays as good as it was.
SameChange(i) ==
  /\ changes'[i] = changes[i]
  /\ i \in woken' <=> i \in woken
  /\ i \in notified' <=> i \in notified

LEMMA SameChangeOK ==
  ASSUME NEW i, Kept(i), SameChange(i), ChangeOK(i), AbsentOK(i)
  PROVE  ChangeOK(i)' /\ AbsentOK(i)'
<1>1. AbsentOK(i)'
  BY DEF AbsentOK, SameChange, Exists
<1>2. CASE Exists(i)
  <2>1. Exists(i)'
    BY <1>2 DEF Exists, SameChange
  <2>. QED
    BY <1>1, <2>1, <1>2, KeptRows DEF ChangeOK, SameChange
<1>3. CASE ~Exists(i)
  BY <1>1, <1>3 DEF ChangeOK, AbsentOK, SameChange, Exists
<1>. QED
  BY <1>2, <1>3

LEMMA IdleOK ==
  ASSUME NEW w, op'[w] = Idle
  PROVE  ControlOK(w)' /\ RowsOK(w)'
  BY DEF ControlOK, RowsOK, Idle, SplitPCs, GatePCs

\* What has to be shown of a step of one worker.
LEMMA WorkerStep ==
  ASSUME IInv, TypeOK', \A i \in Issues : Kept(i),
         NEW w \in Workers, \A v \in Workers : v # w => op'[v] = op[v],
         ControlOK(w)', RowsOK(w)',
         \A i \in Issues : SameChange(i) \/ (ChangeOK(i) /\ AbsentOK(i))'
  PROVE  IInv'
<1>1. ASSUME NEW v \in Workers PROVE ControlOK(v)' /\ RowsOK(v)'
  BY OthersOK DEF IInv, TypeOK
<1>2. ASSUME NEW i \in Issues PROVE ChangeOK(i)' /\ AbsentOK(i)'
  BY SameChangeOK DEF IInv
<1>. QED
  BY <1>1, <1>2 DEF IInv

\* The same when the worker only reads the tables.
LEMMA ReadStep ==
  ASSUME IInv, UNCHANGED tables, NEW w \in Workers,
         op' \in [Workers -> Ops], \A v \in Workers : v # w => op'[v] = op[v],
         ControlOK(w)', RowsOK(w)'
  PROVE  IInv'
<1>1. TypeOK'
  BY DEF IInv, TypeOK, tables
<1>2. \A i \in Issues : Kept(i) /\ SameChange(i)
  BY DEF Kept, SameChange, tables, Exists
<1>. QED
  BY <1>1, <1>2, WorkerStep

\* The same when it only adds a row to the journal of one change.
LEMMA InsertStep ==
  ASSUME IInv, UNCHANGED <<changes, subIssues, mapping, woken, notified>>,
         NEW i \in Issues, NEW row \in Rows, Insert(i, row), changes[i].status # "gone",
         NEW w \in Workers,
         op' \in [Workers -> Ops], \A v \in Workers : v # w => op'[v] = op[v],
         ControlOK(w)', RowsOK(w)'
  PROVE  IInv'
<1>1. TypeOK /\ TypeOK'
  BY InsertFacts DEF IInv, TypeOK
<1>2. \A j \in Issues : Kept(j) /\ SameChange(j)
  BY <1>1, InsertFacts DEF Kept, SameChange, Exists
<1>. QED
  BY <1>1, <1>2, WorkerStep

------------------------------------------------------------------------------
(* Each step of a worker keeps the invariant.  First the requests.         *)

LEMMA RequestStep ==
  ASSUME IInv, NEW w \in Workers, Request(w)
  PROVE  IInv'
<1>0. op \in [Workers -> Ops] /\ changes \in [Issues -> [phase : Phases, status : Statuses]]
  BY DEF IInv, TypeOK
<1>1. ASSUME NEW i \in Issues, NEW goal \in {"manual", "split"}, StartChange(w, i, goal)
      PROVE  IInv'
  <2>. DEFINE o == [Idle EXCEPT !.pc = "create", !.goal = goal, !.issue = i]
  <2>1. o \in Ops
    BY IdleType DEF Ops, PCs, Goals
  <2>2. Begin(w, o) /\ UNCHANGED tables
    BY <1>1 DEF StartChange
  <2>3. o.pc = "create" /\ o.goal = goal /\ o.issue = i /\ o.phase = 1 /\ o.items = <<>>
    BY DEF Idle
  <2>. HIDE DEF o
  <2>4. op' \in [Workers -> Ops] /\ op'[w] = o /\ \A v \in Workers : v # w => op'[v] = op[v]
    BY <1>0, <2>1, <2>2, BeginFacts
  <2>5. ControlOK(w)' /\ RowsOK(w)'
    BY <2>3, <2>4 DEF ControlOK, RowsOK, SplitPCs, GatePCs
  <2>. QED
    BY <2>2, <2>4, <2>5, ReadStep
<1>2. ASSUME NEW i \in Issues, NEW k \in Phases, NEW c \in Inputs, WriteArtifact(w, i, k, c)
      PROVE  IInv'
  <2>. DEFINE o == [Idle EXCEPT !.pc = "write", !.goal = "write", !.issue = i,
                               !.kind = k, !.content = c]
  <2>1. o \in Ops
    BY IdleType, BoundsAssumption DEF Ops, PCs, Goals, Kinds
  <2>2. Begin(w, o) /\ UNCHANGED tables /\ Active(i)
    BY <1>2 DEF WriteArtifact
  <2>3. o.pc = "write" /\ o.goal = "write" /\ o.issue = i /\ o.items = <<>>
    BY DEF Idle
  <2>. HIDE DEF o
  <2>4. op' \in [Workers -> Ops] /\ op'[w] = o /\ \A v \in Workers : v # w => op'[v] = op[v]
    BY <1>0, <2>1, <2>2, BeginFacts
  <2>5. ControlOK(w)' /\ RowsOK(w)'
    BY <2>2, <2>3, <2>4 DEF ControlOK, RowsOK, SplitPCs, GatePCs, Active, tables
  <2>. QED
    BY <2>2, <2>4, <2>5, ReadStep
<1>3. ASSUME NEW i \in Issues, NEW c \in Inputs, SubmitVerifyReport(w, i, c)
      PROVE  IInv'
  <2>. DEFINE o == [Idle EXCEPT !.pc = "report", !.goal = "verify", !.issue = i,
                               !.kind = Verify, !.content = c]
  <2>1. o \in Ops
    BY IdleType, BoundsAssumption DEF Ops, PCs, Goals, Kinds
  <2>2. Begin(w, o) /\ UNCHANGED tables /\ Active(i)
    BY <1>3 DEF SubmitVerifyReport
  <2>3. o.pc = "report" /\ o.goal = "verify" /\ o.issue = i /\ o.items = <<>>
    BY DEF Idle
  <2>. HIDE DEF o
  <2>4. op' \in [Workers -> Ops] /\ op'[w] = o /\ \A v \in Workers : v # w => op'[v] = op[v]
    BY <1>0, <2>1, <2>2, BeginFacts
  <2>5. ControlOK(w)' /\ RowsOK(w)'
    BY <2>2, <2>3, <2>4 DEF ControlOK, RowsOK, SplitPCs, GatePCs, Active, tables
  <2>. QED
    BY <2>2, <2>4, <2>5, ReadStep
<1>4. ASSUME NEW i \in Issues, AdvancePhase(w, i)
      PROVE  IInv'
  <2>. DEFINE o == [Idle EXCEPT !.pc = "legal", !.goal = "advance", !.issue = i,
                               !.phase = changes[i].phase]
  <2>1. o \in Ops
    BY <1>0, IdleType DEF Ops, PCs, Goals
  <2>2. Begin(w, o) /\ UNCHANGED tables /\ Active(i) /\ changes[i].phase < N
    BY <1>4 DEF AdvancePhase
  <2>3. o.pc = "legal" /\ o.goal = "advance" /\ o.issue = i /\ o.phase = changes[i].phase /\ o.items = <<>>
    BY DEF Idle
  <2>. HIDE DEF o
  <2>4. op' \in [Workers -> Ops] /\ op'[w] = o /\ \A v \in Workers : v # w => op'[v] = op[v]
    BY <1>0, <2>1, <2>2, BeginFacts
  <2>5. ControlOK(w)' /\ RowsOK(w)'
    BY <2>2, <2>3, <2>4 DEF ControlOK, RowsOK, SplitPCs, GatePCs, Active, tables
  <2>. QED
    BY <2>2, <2>4, <2>5, ReadStep
<1>5. ASSUME NEW i \in Issues, Archive(w, i)
      PROVE  IInv'
  <2>. DEFINE o == [Idle EXCEPT !.pc = "legal", !.goal = "archive", !.issue = i, !.phase = N]
  <2>0. N \in Phases
    BY NAssumption DEF Phases
  <2>1. o \in Ops
    BY <2>0, IdleType DEF Ops, PCs, Goals
  <2>2. Begin(w, o) /\ UNCHANGED tables /\ Active(i)
    BY <1>5 DEF Archive
  <2>3. o.pc = "legal" /\ o.goal = "archive" /\ o.issue = i /\ o.phase = N /\ o.items = <<>>
    BY DEF Idle
  <2>. HIDE DEF o
  <2>4. op' \in [Workers -> Ops] /\ op'[w] = o /\ \A v \in Workers : v # w => op'[v] = op[v]
    BY <1>0, <2>1, <2>2, BeginFacts
  <2>5. ControlOK(w)' /\ RowsOK(w)'
    BY <2>2, <2>3, <2>4 DEF ControlOK, RowsOK, SplitPCs, GatePCs, Active, tables
  <2>. QED
    BY <2>2, <2>4, <2>5, ReadStep
<1>. QED
  BY <1>1, <1>2, <1>3, <1>4, <1>5 DEF Request

------------------------------------------------------------------------------
(* The statements of the splitter.                                         *)

\* A worker that gives up is idle, or a splitter about to call failChange.
LEMMA RefuseStep ==
  ASSUME IInv, NEW w \in Workers, op[w].pc \notin {"idle", "create"}, Refuse(w), UNCHANGED tables
  PROVE  IInv'
<1>1. op \in [Workers -> Ops]
  BY DEF IInv, TypeOK
<1>2. op' \in [Workers -> Ops] /\ \A v \in Workers : v # w => op'[v] = op[v]
  BY <1>1, RefuseFacts
<1>3. CASE op'[w] = Idle
  BY <1>2, <1>3, IdleOK, ReadStep
<1>4. CASE op[w].goal = "split" /\ op'[w].pc = "fail" /\ SameLocals(w)
  <2>1. ControlOK(w)'
    BY <1>4 DEF IInv, ControlOK, SameLocals, tables, SplitPCs, GatePCs
  <2>2. RowsOK(w)'
    BY <1>4 DEF IInv, RowsOK, SameLocals, tables, Exists, Backed, HandedOff,
                Present, ArtifactsOf, HandoffsOf
  <2>. QED
    BY <1>2, <2>1, <2>2, ReadStep
<1>. QED
  BY <1>1, <1>3, <1>4, RefuseFacts

LEMMA GenerateStep ==
  ASSUME IInv, NEW w \in Workers, Generate(w)
  PROVE  IInv'
<1>1. op \in [Workers -> Ops] /\ op[w].pc = "generate"
  BY DEF IInv, TypeOK, Generate, At
<1>2. PICK pc \in {"save", "fail"} : Goto(w, pc)
  BY DEF Generate
<1>3. /\ op' \in [Workers -> Ops] /\ \A v \in Workers : v # w => op'[v] = op[v]
      /\ op'[w].pc = pc /\ SameLocals(w)
  BY <1>1, <1>2, GotoFacts DEF PCs
<1>4. UNCHANGED tables
  BY DEF Generate
<1>5. ControlOK(w)'
  BY <1>1, <1>3, <1>4 DEF IInv, ControlOK, SameLocals, tables, SplitPCs, GatePCs
<1>6. RowsOK(w)'
  BY <1>1, <1>3, <1>4 DEF IInv, ControlOK, SplitPCs, RowsOK, SameLocals, tables, Exists, Backed,
                HandedOff, Present, ArtifactsOf, HandoffsOf
<1>. QED
  BY <1>3, <1>4, <1>5, <1>6, ReadStep

LEMMA CreateChangeStep ==
  ASSUME IInv, NEW w \in Workers, CreateChange(w)
  PROVE  IInv'
<1>. DEFINE i == op[w].issue
<1>1. op \in [Workers -> Ops] /\ op[w].pc = "create" /\ i \in Issues
  BY DEF IInv, TypeOK, CreateChange, At, ControlOK
<1>2. CASE changes[i].status # "none"
  <2>1. Done(w) /\ UNCHANGED tables
    BY <1>2 DEF CreateChange, tables
  <2>. QED
    BY <1>1, <2>1, DoneFacts, IdleOK, ReadStep
<1>3. CASE changes[i].status = "none"
  <2>1. /\ UpdateChange(i, 1, "active")
        /\ UNCHANGED <<journal, subIssues, mapping, woken, notified>>
        /\ IF op[w].goal = "split" THEN Goto(w, "generate") ELSE Done(w)
    BY <1>3 DEF CreateChange
  <2>2. /\ op' \in [Workers -> Ops] /\ \A v \in Workers : v # w => op'[v] = op[v]
        /\ \/ op'[w] = Idle
           \/ op[w].goal = "split" /\ op'[w].pc = "generate" /\ SameLocals(w)
    BY <1>1, <2>1, GotoFacts, DoneFacts DEF PCs
  <2>3. /\ TypeOK /\ changes' \in [Issues -> [phase : Phases, status : Statuses]]
        /\ changes'[i] = [phase |-> 1, status |-> "active"]
        /\ \A j \in Issues : j # i => changes'[j] = changes[j]
    BY <1>1, <2>1, NAssumption DEF IInv, TypeOK, UpdateChange, Phases, Statuses
  <2>4. TypeOK'
    BY <2>1, <2>2, <2>3 DEF TypeOK
  <2>5. \A j \in Issues : Kept(j)
    BY <1>3, <2>1, <2>3 DEF Kept, Exists
  <2>6. ControlOK(w)'
    <3>1. CASE op'[w] = Idle
      BY <3>1, IdleOK
    <3>2. CASE op[w].goal = "split" /\ op'[w].pc = "generate" /\ SameLocals(w)
      BY <1>1, <2>3, <3>2 DEF IInv, ControlOK, SameLocals, SplitPCs, GatePCs
    <3>. QED
      BY <2>2, <3>1, <3>2
  <2>7. RowsOK(w)'
    <3>1. CASE op'[w] = Idle
      BY <3>1, IdleOK
    <3>2. CASE op'[w].pc = "generate" /\ SameLocals(w)
      <4>1. op'[w].issue = i /\ op'[w].phase = op[w].phase
        BY <3>2 DEF SameLocals
      <4>2. op[w].phase = 1
        BY <1>1 DEF IInv, ControlOK
      <4>. QED
        BY <3>2, <4>1, <4>2 DEF RowsOK, Backed, HandedOff
    <3>. QED
      BY <2>2, <3>1, <3>2
  <2>8. ASSUME NEW j \in Issues PROVE SameChange(j) \/ (ChangeOK(j) /\ AbsentOK(j))'
    <3>1. CASE j # i
      BY <2>1, <2>3, <3>1 DEF SameChange
    <3>2. CASE j = i
      BY <1>3, <2>1, <2>3, <3>2 DEF IInv, ChangeOK, AbsentOK, Exists, Backed, HandedOff
    <3>. QED
      BY <3>1, <3>2
  <2>. QED
    BY <2>2, <2>4, <2>5, <2>6, <2>7, <2>8, WorkerStep
<1>. QED
  BY <1>2, <1>3

\* What a row of the journal says once it is inserted.
LEMMA InsertedFacts ==
  ASSUME TypeOK, NEW i \in Issues, NEW row \in Rows, Insert(i, row), Exists(i)',
         UNCHANGED <<changes, subIssues, mapping, woken, notified>>
  PROVE  /\ Kept(i)
         /\ row.table = "artifacts" =>
              Len(journal[i]) + 1 \in ArtifactsOf(i, row.kind)' /\ Present(i, row.kind)'
         /\ row.table = "change_handoffs" => HandedOff(i, row.kind)'
         /\ journal'[i][Len(journal[i]) + 1] = row
  BY InsertFacts DEF Kept, ArtifactsOf, Present, HandedOff, HandoffsOf, Exists

LEMMA LegalNext ==
  ASSUME NEW i, NEW p \in Phases
  PROVE  /\ Legal(i, p) <=> Backed(i, p) /\ Present(i, p)
         /\ Legal(i, p) <=> Backed(i, p + 1)
<1>1. p \in Nat /\ p >= 1
  BY NAssumption DEF Phases
<1>2. 1..p = (1..(p - 1)) \union {p} /\ (p + 1) - 1 = p
  BY <1>1
<1>. QED
  BY <1>1, <1>2 DEF Legal, Backed

LEMMA SaveGeneratedStep ==
  ASSUME IInv, NEW w \in Workers, SaveGenerated(w)
  PROVE  IInv'
<1>0. PICK i, p, row : i = op[w].issue /\ p = op[w].phase /\ row = Len(journal[i]) + 1
  OBVIOUS
<1>. DEFINE c == IF p = N THEN "plan" ELSE "text"
            o == [op[w] EXCEPT !.pc = IF p = N THEN "bind" ELSE "handoff",
                               !.content = c, !.row = row]
<1>1. /\ TypeOK /\ op \in [Workers -> Ops] /\ op[w] \in Ops /\ op[w].pc = "save"
      /\ i \in Issues /\ p \in Phases /\ op[w].goal = "split" /\ op[w].items = <<>>
      /\ changes[i].status # "none"
  BY <1>0 DEF IInv, TypeOK, SaveGenerated, At, ControlOK, SplitPCs, Ops
<1>2. CASE ~Exists(i)
  BY <1>0, <1>1, <1>2, RefuseStep DEF SaveGenerated, tables
<1>3. CASE Exists(i)
  <2>1. /\ Insert(i, Artifact(p, c)) /\ Move(w, o)
        /\ UNCHANGED <<changes, subIssues, mapping, woken, notified>>
    BY <1>0, <1>3 DEF SaveGenerated
  <2>2. row \in Nat /\ Artifact(p, c) \in Rows
    BY <1>0, <1>1, ArtifactType DEF TypeOK, Kinds, Contents
  <2>3. o \in Ops
    BY <1>1, <2>2 DEF Ops, PCs, Contents
  <2>4. /\ o.pc = (IF p = N THEN "bind" ELSE "handoff") /\ o.goal = "split" /\ o.issue = i
        /\ o.phase = p /\ o.content = c /\ o.row = row /\ o.items = <<>>
    BY <1>0, <1>1 DEF Ops
  <2>. HIDE DEF o
  <2>5. op' \in [Workers -> Ops] /\ op'[w] = o /\ \A v \in Workers : v # w => op'[v] = op[v]
    BY <1>1, <2>1, <2>3, MoveFacts
  <2>6. ControlOK(w)'
    <3>1. p < N \/ p = N
      BY <1>1, NAssumption DEF Phases
    <3>. QED
      BY <1>1, <2>1, <2>4, <2>5, <3>1 DEF ControlOK, SplitPCs, GatePCs
  <2>7. RowsOK(w)'
    <3>1. Exists(i)' /\ Backed(i, p) /\ HandedOff(i, p)
      BY <1>0, <1>1, <1>3, <2>1 DEF IInv, RowsOK, Exists
    <3>2. /\ Kept(i) /\ row \in ArtifactsOf(i, p)' /\ Present(i, p)'
          /\ journal'[i][row] = Artifact(p, c)
      BY <1>0, <1>1, <2>1, <2>2, <3>1, InsertedFacts DEF Artifact
    <3>3. Backed(i, p)' /\ HandedOff(i, p)'
      BY <3>1, <3>2, KeptRows
    <3>4. Legal(i, p)'
      <4>1. \A k \in 1..(p - 1) : Present(i, k)'
        BY <3>3 DEF Backed
      <4>2. \A k \in 1..p : Present(i, k)'
        BY <1>1, <3>2, <4>1, NAssumption DEF Phases
      <4>. QED
        BY <4>2 DEF Legal
    <3>5. p = N => Saved(i, row, c)'
      BY <3>2 DEF Saved, Artifact
    <3>. QED
      BY <2>4, <2>5, <3>3, <3>4, <3>5 DEF RowsOK
  <2>. QED
    BY <1>1, <1>3, <2>1, <2>2, <2>5, <2>6, <2>7, InsertStep DEF Exists
<1>. QED
  BY <1>2, <1>3

LEMMA SplitHandoffStep ==
  ASSUME IInv, NEW w \in Workers, SplitHandoff(w)
  PROVE  IInv'
<1>0. PICK i, p : i = op[w].issue /\ p = op[w].phase
  OBVIOUS
<1>1. /\ TypeOK /\ op \in [Workers -> Ops] /\ op[w].pc = "handoff"
      /\ i \in Issues /\ p \in Phases /\ op[w].goal = "split" /\ p < N
      /\ changes[i].status # "none"
  BY <1>0 DEF IInv, TypeOK, SplitHandoff, At, ControlOK, SplitPCs, Ops
<1>2. CASE ~Exists(i)
  BY <1>0, <1>1, <1>2, RefuseStep DEF SplitHandoff, tables
<1>3. CASE Exists(i)
  <2>1. /\ Insert(i, Handoff(p + 1)) /\ Goto(w, "update")
        /\ UNCHANGED <<changes, subIssues, mapping, woken, notified>>
    BY <1>0, <1>3 DEF SplitHandoff
  <2>2. Handoff(p + 1) \in Rows
    BY <1>1, NAssumption, HandoffType DEF Phases
  <2>3. /\ op' \in [Workers -> Ops] /\ \A v \in Workers : v # w => op'[v] = op[v]
        /\ op'[w].pc = "update" /\ SameLocals(w)
    BY <1>1, <2>1, GotoFacts DEF PCs
  <2>4. ControlOK(w)'
    BY <1>0, <1>1, <2>1, <2>3 DEF IInv, ControlOK, SameLocals, SplitPCs, GatePCs
  <2>5. RowsOK(w)'
    <3>1. Exists(i)' /\ Backed(i, p) /\ HandedOff(i, p) /\ Legal(i, p)
      BY <1>0, <1>1, <1>3, <2>1 DEF IInv, RowsOK, Exists
    <3>2. Kept(i) /\ HandedOff(i, p + 1)'
      BY <1>0, <1>1, <2>1, <2>2, <3>1, InsertedFacts DEF Handoff
    <3>3. Backed(i, p)' /\ HandedOff(i, p)' /\ Legal(i, p)'
      BY <3>1, <3>2, KeptRows
    <3>. QED
      BY <1>0, <1>1, <2>3, <3>2, <3>3 DEF RowsOK, SameLocals
  <2>. QED
    BY <1>0, <1>1, <1>3, <2>1, <2>2, <2>3, <2>4, <2>5, InsertStep DEF Exists
<1>. QED
  BY <1>2, <1>3

\* A worker may write its copy of phase p and status s over the row whenever
\* the rows that p and s call for are there.
LEMMA UpdateStep ==
  ASSUME IInv, NEW i \in Issues, NEW p \in Phases, NEW s \in {"active", "failed", "archived"},
         UpdateChange(i, p, s), UNCHANGED <<journal, subIssues, mapping, woken, notified>>,
         Exists(i), Backed(i, p), HandedOff(i, p),
         s = "archived" => p = N /\ Legal(i, N) /\ Passed(i),
         NEW w \in Workers,
         op' \in [Workers -> Ops], \A v \in Workers : v # w => op'[v] = op[v],
         ControlOK(w)', RowsOK(w)'
  PROVE  IInv'
<1>1. /\ TypeOK /\ changes' \in [Issues -> [phase : Phases, status : Statuses]]
      /\ changes'[i] = [phase |-> p, status |-> s]
      /\ \A j \in Issues : j # i => changes'[j] = changes[j]
  BY DEF IInv, TypeOK, UpdateChange, Statuses
<1>2. TypeOK'
  BY <1>1 DEF TypeOK
<1>3. \A j \in Issues : Kept(j)
  BY <1>1 DEF Kept, Exists
<1>4. ASSUME NEW j \in Issues, j # i PROVE SameChange(j)
  BY <1>1, <1>4 DEF SameChange
<1>5. ChangeOK(i)' /\ AbsentOK(i)'
  <2>1. Exists(i)' /\ changes'[i].phase = p /\ changes'[i].status = s
    BY <1>1 DEF Exists
  <2>2. Backed(i, p)' /\ HandedOff(i, p)'
    BY <1>3, <2>1, KeptRows
  <2>3. s = "archived" => p = N /\ Legal(i, N)' /\ Passed(i)'
    BY <1>3, <2>1, KeptRows
  <2>4. i \in woken => i \in HasParent /\ Legal(i, N)' /\ Passed(i)'
    BY <1>3, <2>1, KeptRows DEF IInv, ChangeOK
  <2>5. i \in notified => i \in woken
    BY DEF IInv, ChangeOK
  <2>. QED
    BY <2>1, <2>2, <2>3, <2>4, <2>5 DEF ChangeOK, AbsentOK
<1>. QED
  BY <1>2, <1>3, <1>4, <1>5, WorkerStep

LEMMA SplitUpdateStep ==
  ASSUME IInv, NEW w \in Workers, SplitUpdate(w)
  PROVE  IInv'
<1>0. PICK i, p : i = op[w].issue /\ p = op[w].phase
  OBVIOUS
<1>1. /\ op \in [Workers -> Ops] /\ op[w] \in Ops /\ op[w].pc = "update"
      /\ i \in Issues /\ p \in Phases /\ op[w].goal = "split" /\ p < N /\ op[w].items = <<>>
      /\ changes[i].status # "none"
  BY <1>0 DEF IInv, TypeOK, SplitUpdate, At, ControlOK, SplitPCs, Ops
<1>2. p + 1 \in Phases
  BY <1>1, NAssumption DEF Phases
<1>3. Exists(i) => Backed(i, p + 1) /\ HandedOff(i, p + 1)
  BY <1>0, <1>1, LegalNext DEF IInv, RowsOK
<1>4. PICK pc \in {"generate", "fail"} :
        /\ Move(w, [op[w] EXCEPT !.pc = pc, !.phase = p + 1])
        /\ \/ Exists(i) /\ UpdateChange(i, p + 1, "active")
           \/ UNCHANGED changes
        /\ UNCHANGED <<journal, subIssues, mapping, woken, notified>>
  BY <1>0 DEF SplitUpdate
<1>. DEFINE o == [op[w] EXCEPT !.pc = pc, !.phase = p + 1]
<1>5. /\ o \in Ops /\ o.pc = pc /\ o.goal = "split" /\ o.issue = i /\ o.phase = p + 1
      /\ o.items = <<>>
  BY <1>0, <1>1, <1>2 DEF Ops, PCs
<1>6. Move(w, o)
  BY <1>4
<1>. HIDE DEF o
<1>7. op' \in [Workers -> Ops] /\ op'[w] = o /\ \A v \in Workers : v # w => op'[v] = op[v]
  BY <1>1, <1>5, <1>6, MoveFacts
<1>8. ControlOK(w)'
  <2>1. changes'[i].status # "none"
    BY <1>1, <1>4 DEF IInv, TypeOK, UpdateChange
  <2>. QED
    BY <1>1, <1>5, <1>7, <2>1 DEF ControlOK, SplitPCs, GatePCs
<1>9. RowsOK(w)'
  <2>1. Exists(i)' => Backed(i, p + 1)' /\ HandedOff(i, p + 1)'
    <3>1. Exists(i)' => Exists(i)
      BY <1>4 DEF Exists
    <3>. QED
      BY <1>3, <1>4, <3>1 DEF Backed, HandedOff, Present, ArtifactsOf, HandoffsOf
  <2>. QED
    BY <1>5, <1>7, <2>1 DEF RowsOK
<1>10. CASE UNCHANGED changes
  BY <1>4, <1>7, <1>8, <1>9, <1>10, ReadStep DEF tables
<1>11. CASE Exists(i) /\ UpdateChange(i, p + 1, "active")
  BY <1>1, <1>2, <1>3, <1>4, <1>7, <1>8, <1>9, <1>11, UpdateStep
<1>. QED
  BY <1>4, <1>10, <1>11

LEMMA FailChangeStep ==
  ASSUME IInv, NEW w \in Workers, FailChange(w)
  PROVE  IInv'
<1>0. PICK i, p : i = op[w].issue /\ p = op[w].phase
  OBVIOUS
<1>1. /\ op \in [Workers -> Ops] /\ op[w].pc = "fail" /\ op[w].goal = "split"
      /\ i \in Issues /\ p \in Phases
  BY <1>0 DEF IInv, TypeOK, FailChange, At, ControlOK, SplitPCs, Ops
<1>2. Done(w) /\ UNCHANGED <<journal, subIssues, mapping, woken, notified>>
  BY DEF FailChange
<1>3. /\ op' \in [Workers -> Ops] /\ \A v \in Workers : v # w => op'[v] = op[v]
      /\ ControlOK(w)' /\ RowsOK(w)'
  BY <1>1, <1>2, DoneFacts, IdleOK
<1>4. CASE ~Exists(i)
  <2>1. UNCHANGED tables
    BY <1>0, <1>2, <1>4 DEF FailChange, tables
  <2>. QED
    BY <1>3, <2>1, ReadStep
<1>5. CASE Exists(i)
  <2>1. UpdateChange(i, p, "failed")
    BY <1>0, <1>5 DEF FailChange
  <2>2. Backed(i, p) /\ HandedOff(i, p)
    BY <1>0, <1>1, <1>5 DEF IInv, RowsOK
  <2>. QED
    BY <1>1, <1>2, <1>3, <1>5, <2>1, <2>2, UpdateStep
<1>. QED
  BY <1>4, <1>5

------------------------------------------------------------------------------
(* The statements that write artifacts, sub-issues, mappings and reports.  *)

LEMMA SaveArtifactStep ==
  ASSUME IInv, NEW w \in Workers, SaveArtifact(w)
  PROVE  IInv'
<1>0. PICK i, k, c, row : /\ i = op[w].issue /\ k = op[w].kind /\ c = op[w].content
                          /\ row = Len(journal[i]) + 1
  OBVIOUS
<1>1. /\ TypeOK /\ op \in [Workers -> Ops] /\ op[w] \in Ops /\ op[w].pc = "write"
      /\ i \in Issues /\ k \in Kinds /\ c \in Contents /\ op[w].items = <<>>
      /\ changes[i].status # "none"
  BY <1>0 DEF IInv, TypeOK, SaveArtifact, At, ControlOK, Ops
<1>2. CASE ~Exists(i)
  <2>1. Done(w) /\ UNCHANGED tables
    BY <1>0, <1>2 DEF SaveArtifact, tables
  <2>. QED
    BY <1>1, <2>1, DoneFacts, IdleOK, ReadStep
<1>3. CASE Exists(i)
  <2>. DEFINE o == [op[w] EXCEPT !.pc = "bind", !.row = row]
  <2>1. /\ Insert(i, Artifact(k, c)) /\ IF k = N THEN Move(w, o) ELSE Done(w)
        /\ UNCHANGED <<changes, subIssues, mapping, woken, notified>>
    BY <1>0, <1>3 DEF SaveArtifact
  <2>2. row \in Nat /\ Artifact(k, c) \in Rows
    BY <1>0, <1>1, ArtifactType DEF TypeOK
  <2>3. /\ o \in Ops /\ o.pc = "bind" /\ o.goal = op[w].goal /\ o.phase = op[w].phase
        /\ o.issue = i /\ o.content = c /\ o.row = row /\ o.items = <<>>
    BY <1>0, <1>1, <2>2 DEF Ops, PCs
  <2>. HIDE DEF o
  <2>4. CASE k # N
    BY <1>1, <1>3, <2>1, <2>2, <2>4, DoneFacts, IdleOK, InsertStep DEF Exists
  <2>5. CASE k = N
    <3>1. op' \in [Workers -> Ops] /\ op'[w] = o /\ \A v \in Workers : v # w => op'[v] = op[v]
      BY <1>1, <2>1, <2>3, <2>5, MoveFacts
    <3>2. ControlOK(w)'
      BY <1>0, <1>1, <2>1, <2>3, <3>1 DEF IInv, ControlOK, SplitPCs, GatePCs
    <3>3. RowsOK(w)'
      <4>1. Exists(i)' /\ op[w].goal # "split"
        BY <1>0, <1>1, <1>3, <2>1 DEF IInv, ControlOK, Exists
      <4>2. row \in ArtifactsOf(i, N)' /\ journal'[i][row] = Artifact(N, c)
        BY <1>0, <1>1, <2>1, <2>2, <2>5, <4>1, InsertedFacts DEF Artifact
      <4>3. Saved(i, row, c)'
        BY <4>2 DEF Saved, Artifact
      <4>. QED
        BY <2>3, <3>1, <4>1, <4>3 DEF RowsOK
    <3>. QED
      BY <1>1, <1>3, <2>1, <2>2, <3>1, <3>2, <3>3, InsertStep DEF Exists
  <2>. QED
    BY <2>4, <2>5
<1>. QED
  BY <1>2, <1>3

LEMMA SaveReportStep ==
  ASSUME IInv, NEW w \in Workers, SaveReport(w)
  PROVE  IInv'
<1>0. PICK i, c : i = op[w].issue /\ c = op[w].content
  OBVIOUS
<1>1. /\ op \in [Workers -> Ops] /\ op[w].pc = "report" /\ i \in Issues /\ c \in Contents
  BY <1>0 DEF IInv, TypeOK, SaveReport, At, ControlOK, Ops
<1>2. Done(w) /\ UNCHANGED <<changes, subIssues, mapping, woken, notified>>
  BY DEF SaveReport
<1>3. /\ op' \in [Workers -> Ops] /\ \A v \in Workers : v # w => op'[v] = op[v]
      /\ ControlOK(w)' /\ RowsOK(w)'
  BY <1>1, <1>2, DoneFacts, IdleOK
<1>4. CASE UNCHANGED journal
  BY <1>2, <1>3, <1>4, ReadStep DEF tables
<1>5. CASE Exists(i) /\ Insert(i, Artifact(Verify, c))
  <2>1. Artifact(Verify, c) \in Rows
    BY <1>1, ArtifactType DEF Kinds
  <2>. QED
    BY <1>1, <1>2, <1>3, <1>5, <2>1, InsertStep DEF Exists
<1>. QED
  BY <1>0, <1>4, <1>5 DEF SaveReport

\* Sub-issues and mappings are written, and nothing that a phase rests on.
LEMMA PlanStep ==
  ASSUME IInv, NEW w \in Workers, UNCHANGED <<changes, journal, woken, notified>>,
         subIssues' \in [Issues -> Seq(SubIssues)], mapping' \in [Issues -> SUBSET Bindings],
         op' \in [Workers -> Ops], \A v \in Workers : v # w => op'[v] = op[v],
         ControlOK(w)', RowsOK(w)'
  PROVE  IInv'
<1>1. TypeOK'
  BY DEF IInv, TypeOK
<1>2. \A i \in Issues : Kept(i) /\ SameChange(i)
  BY DEF Kept, SameChange, Exists
<1>. QED
  BY <1>1, <1>2, WorkerStep

\* The worker goes on to the next statement about its plan.
LEMMA PlanMove ==
  ASSUME IInv, NEW w \in Workers, UNCHANGED <<changes, journal>>,
         op[w].pc \in {"bind", "map"}, op[w].content = "plan",
         NEW o \in Ops, op'[w] = o, o.pc \in {"bind", "map", "insert"},
         o.goal = op[w].goal, o.issue = op[w].issue, o.phase = op[w].phase,
         o.content = op[w].content, o.row = op[w].row
  PROVE  ControlOK(w)' /\ RowsOK(w)'
<1>0. PICK i, p, row : i = op[w].issue /\ p = op[w].phase /\ row = op[w].row
  OBVIOUS
<1>1. ControlOK(w)'
  BY DEF IInv, ControlOK, SplitPCs, GatePCs
<1>2. RowsOK(w)'
  <2>1. CASE ~Exists(i)'
    BY <1>0, <2>1 DEF RowsOK
  <2>2. CASE Exists(i)'
    <3>1. Exists(i)
      BY <2>2 DEF Exists
    <3>2. /\ Saved(i, row, "plan")
          /\ op[w].goal = "split" => Backed(i, p) /\ HandedOff(i, p)
      BY <1>0, <3>1 DEF IInv, RowsOK
    <3>3. /\ Saved(i, row, "plan")'
          /\ op[w].goal = "split" => Backed(i, p)' /\ HandedOff(i, p)'
      BY <3>2 DEF Saved, Backed, HandedOff, Present, ArtifactsOf, HandoffsOf
    <3>. QED
      BY <1>0, <3>3 DEF RowsOK
  <2>. QED
    BY <2>1, <2>2
<1>. QED
  BY <1>1, <1>2

\* The operation after one more sub-issue.
Collects(w) ==
  [op[w] EXCEPT !.items = Append(op[w].items, Len(subIssues[op[w].issue]) + 1),
                !.pc = IF Len(Append(op[w].items, Len(subIssues[op[w].issue]) + 1)) = PlanSize
                         THEN "map" ELSE "bind"]

LEMMA CreateFacts ==
  ASSUME IInv, NEW w \in Workers, CreateSubIssue(w)
  PROVE  /\ Collects(w) \in Ops /\ op'[w] = Collects(w)
         /\ op' \in [Workers -> Ops] /\ \A v \in Workers : v # w => op'[v] = op[v]
         /\ Collects(w).pc \in {"bind", "map"} /\ Collects(w).goal = op[w].goal
         /\ Collects(w).issue = op[w].issue /\ Collects(w).phase = op[w].phase
         /\ Collects(w).content = op[w].content /\ Collects(w).row = op[w].row
         /\ Collects(w).items = Append(op[w].items, Len(subIssues[op[w].issue]) + 1)
         /\ Collects(w).pc = "map" => Len(Collects(w).items) = PlanSize
         /\ op[w].pc = "bind" /\ op[w].content = "plan" /\ op[w].row \in Nat
         /\ op[w].items \in Seq(Nat) /\ op[w].issue \in Issues /\ Exists(op[w].issue)
         /\ subIssues[op[w].issue] \in Seq(SubIssues)
<1>1. /\ TypeOK /\ op[w] \in Ops /\ op[w].pc = "bind" /\ op[w].content = "plan"
      /\ op[w].row \in Nat /\ op[w].items \in Seq(Nat)
      /\ op[w].issue \in Issues /\ Exists(op[w].issue)
  BY DEF IInv, TypeOK, CreateSubIssue, At, ControlOK, Ops
<1>2. subIssues[op[w].issue] \in Seq(SubIssues)
  BY <1>1 DEF TypeOK
<1>3. Append(op[w].items, Len(subIssues[op[w].issue]) + 1) \in Seq(Nat)
  BY <1>1, <1>2
<1>4. /\ Collects(w) \in Ops
      /\ Collects(w).pc = IF Len(Append(op[w].items, Len(subIssues[op[w].issue]) + 1)) = PlanSize
                            THEN "map" ELSE "bind"
      /\ Collects(w).goal = op[w].goal
      /\ Collects(w).issue = op[w].issue /\ Collects(w).phase = op[w].phase
      /\ Collects(w).content = op[w].content /\ Collects(w).row = op[w].row
      /\ Collects(w).items = Append(op[w].items, Len(subIssues[op[w].issue]) + 1)
  BY <1>1, <1>3 DEF Collects, Ops, PCs
<1>5. Move(w, Collects(w))
  BY DEF CreateSubIssue, Collects
<1>6. /\ op'[w] = Collects(w) /\ op' \in [Workers -> Ops]
      /\ \A v \in Workers : v # w => op'[v] = op[v]
  BY <1>1, <1>4, <1>5, MoveFacts DEF TypeOK
<1>. QED
  BY <1>1, <1>2, <1>4, <1>6

\* The sub-issues of the change after one more.
LEMMA SubIssueAdded ==
  ASSUME IInv, NEW w \in Workers, CreateSubIssue(w)
  PROVE  LET i == op[w].issue
             id == Len(subIssues[op[w].issue]) + 1
         IN
         /\ subIssues' \in [Issues -> Seq(SubIssues)]
         /\ \A j \in Issues : j # i => subIssues'[j] = subIssues[j]
         /\ id \notin DOMAIN subIssues[i] /\ id \in Nat
         /\ DOMAIN subIssues'[i] = DOMAIN subIssues[i] \union {id}
         /\ \A n \in DOMAIN subIssues[i] : subIssues'[i][n] = subIssues[i][n]
         /\ subIssues'[i][id] = [row |-> op[w].row, live |-> TRUE]
<1>0. PICK i, id, new : /\ i = op[w].issue /\ id = Len(subIssues[op[w].issue]) + 1
                        /\ new = [row |-> op[w].row, live |-> TRUE]
  OBVIOUS
<1>1. /\ i \in Issues /\ subIssues[i] \in Seq(SubIssues) /\ new \in SubIssues /\ TypeOK
      /\ subIssues' = [subIssues EXCEPT ![i] = Append(subIssues[i], new)]
  BY <1>0, CreateFacts DEF CreateSubIssue, SubIssues, IInv
<1>2. /\ Append(subIssues[i], new) \in Seq(SubIssues)
      /\ DOMAIN Append(subIssues[i], new) = DOMAIN subIssues[i] \union {id}
      /\ \A n \in DOMAIN subIssues[i] : Append(subIssues[i], new)[n] = subIssues[i][n]
      /\ Append(subIssues[i], new)[id] = new
  <2>1. subIssues[i] \in Seq(SubIssues) /\ new \in SubIssues /\ id = Len(subIssues[i]) + 1
    BY <1>0, <1>1
  <2>. QED
    BY <2>1, AppendFacts
<1>3. id \notin DOMAIN subIssues[i] /\ id \in Nat
  BY <1>0, <1>1
<1>4. /\ subIssues' \in [Issues -> Seq(SubIssues)]
      /\ subIssues'[i] = Append(subIssues[i], new)
      /\ \A j \in Issues : j # i => subIssues'[j] = subIssues[j]
  BY <1>1, <1>2 DEF TypeOK
<1>. QED
  BY <1>0, <1>2, <1>3, <1>4

LEMMA CreateSubIssueStep ==
  ASSUME IInv, NEW w \in Workers, CreateSubIssue(w)
  PROVE  IInv'
<1>1. UNCHANGED <<changes, journal, mapping, woken, notified>>
  BY DEF CreateSubIssue
<1>2. ControlOK(w)' /\ RowsOK(w)'
  BY <1>1, CreateFacts, PlanMove
<1>. QED
  BY <1>1, <1>2, CreateFacts, SubIssueAdded, PlanStep DEF IInv, TypeOK

LEMMA BindRefusedStep ==
  ASSUME IInv, NEW w \in Workers, BindRefused(w)
  PROVE  IInv'
  BY RefuseStep DEF BindRefused, At

\* The operation after the DELETE.
Clears(w) == [op[w] EXCEPT !.pc = "insert", !.cleared = mapping[op[w].issue]]

LEMMA ClearFacts ==
  ASSUME IInv, NEW w \in Workers, ClearMappings(w)
  PROVE  /\ Clears(w) \in Ops /\ op'[w] = Clears(w)
         /\ op' \in [Workers -> Ops] /\ \A v \in Workers : v # w => op'[v] = op[v]
         /\ Clears(w).pc = "insert" /\ Clears(w).goal = op[w].goal
         /\ Clears(w).issue = op[w].issue /\ Clears(w).phase = op[w].phase
         /\ Clears(w).content = op[w].content /\ Clears(w).row = op[w].row
         /\ Clears(w).items = op[w].items
         /\ op[w].pc = "map" /\ op[w].issue \in Issues
<1>1. TypeOK /\ op[w] \in Ops /\ op[w].pc = "map" /\ op[w].issue \in Issues
  BY DEF IInv, TypeOK, ClearMappings, At, ControlOK
<1>2. mapping[op[w].issue] \in SUBSET Bindings
  BY <1>1 DEF TypeOK
<1>3. /\ Clears(w) \in Ops
      /\ Clears(w).pc = "insert" /\ Clears(w).goal = op[w].goal
      /\ Clears(w).issue = op[w].issue /\ Clears(w).phase = op[w].phase
      /\ Clears(w).content = op[w].content /\ Clears(w).row = op[w].row
      /\ Clears(w).items = op[w].items
  BY <1>1, <1>2 DEF Clears, Ops, PCs
<1>4. /\ op'[w] = Clears(w) /\ op' \in [Workers -> Ops]
      /\ \A v \in Workers : v # w => op'[v] = op[v]
  BY <1>1, <1>3, MoveFacts DEF TypeOK, ClearMappings, Clears
<1>. QED
  BY <1>1, <1>3, <1>4

LEMMA ClearMappingsStep ==
  ASSUME IInv, NEW w \in Workers, ClearMappings(w)
  PROVE  IInv'
<1>1. UNCHANGED tables
  BY DEF ClearMappings
<1>2. CASE op[w].content = "plan"
  <2>1. ControlOK(w)' /\ RowsOK(w)'
    BY <1>1, <1>2, ClearFacts, PlanMove DEF tables
  <2>. QED
    BY <1>1, <2>1, ClearFacts, ReadStep
<1>3. CASE op[w].content # "plan"
  <2>1. ControlOK(w)'
    BY <1>1, ClearFacts DEF IInv, ControlOK, SplitPCs, GatePCs, tables
  <2>2. ~Exists(op[w].issue)'
    BY <1>1, <1>3, ClearFacts DEF IInv, RowsOK, tables, Exists
  <2>3. RowsOK(w)'
    BY <2>2, ClearFacts DEF RowsOK
  <2>. QED
    BY <1>1, <2>1, <2>3, ClearFacts, ReadStep
<1>. QED
  BY <1>2, <1>3

LEMMA BindToType ==
  ASSUME NEW row \in Nat, NEW items \in Seq(Nat)
  PROVE  BindTo(row, items) \subseteq Bindings
  BY DEF BindTo, Bindings

LEMMA SetTaskMappingsStep ==
  ASSUME IInv, NEW w \in Workers, SetTaskMappings(w)
  PROVE  IInv'
<1>0. PICK i, row, items : i = op[w].issue /\ row = op[w].row /\ items = op[w].items
  OBVIOUS
<1>1. /\ TypeOK /\ op \in [Workers -> Ops] /\ op[w] \in Ops /\ op[w].pc = "insert"
      /\ i \in Issues /\ row \in Nat /\ items \in Seq(Nat) /\ mapping[i] \subseteq Bindings
  BY <1>0 DEF IInv, TypeOK, SetTaskMappings, At, ControlOK, Ops
<1>2. CASE Refuse(w) /\ UNCHANGED mapping
  BY <1>0, <1>1, <1>2, RefuseStep DEF SetTaskMappings, tables
<1>3. CASE /\ Done(w)
           /\ mapping' = [mapping EXCEPT ![i] =
                (mapping[i] \ op[w].cleared) \union BindTo(row, items)]
  <2>1. mapping' \in [Issues -> SUBSET Bindings]
    BY <1>1, <1>3, BindToType DEF TypeOK
  <2>2. /\ UNCHANGED <<changes, journal, subIssues, woken, notified>>
        /\ op' \in [Workers -> Ops] /\ \A v \in Workers : v # w => op'[v] = op[v]
        /\ ControlOK(w)' /\ RowsOK(w)'
    BY <1>1, <1>3, DoneFacts, IdleOK DEF SetTaskMappings
  <2>. QED
    BY <1>1, <2>1, <2>2, PlanStep DEF TypeOK
<1>. QED
  BY <1>0, <1>2, <1>3 DEF SetTaskMappings

------------------------------------------------------------------------------
(* The statements of the guarded advance and of the archive.               *)

\* What a worker found in unchanged tables it may rely on.
LEMMA SameRows ==
  ASSUME NEW i, UNCHANGED tables
  PROVE  /\ Exists(i)' = Exists(i)
         /\ \A p : Legal(i, p)' = Legal(i, p)
         /\ \A p : HandedOff(i, p)' = HandedOff(i, p)
         /\ Passed(i)' = Passed(i)
  BY DEF tables, Exists, Legal, HandedOff, Passed, Present, ArtifactsOf, HandoffsOf

LEMMA CheckPhaseLegalStep ==
  ASSUME IInv, NEW w \in Workers, CheckPhaseLegal(w)
  PROVE  IInv'
<1>0. PICK i, p : i = op[w].issue /\ p = op[w].phase
  OBVIOUS
<1>1. /\ op \in [Workers -> Ops] /\ op[w].pc = "legal" /\ i \in Issues /\ p \in Phases
      /\ op[w].goal \in {"advance", "archive"} /\ op[w].items = <<>>
      /\ changes[i].status # "none"
  BY <1>0 DEF IInv, TypeOK, CheckPhaseLegal, At, ControlOK, GatePCs, Ops
<1>2. UNCHANGED tables
  BY DEF CheckPhaseLegal
<1>3. CASE ~PhaseLegal(i, p)
  <2>1. Done(w)
    BY <1>0, <1>3 DEF CheckPhaseLegal
  <2>. QED
    BY <1>1, <1>2, <2>1, DoneFacts, IdleOK, ReadStep
<1>4. CASE PhaseLegal(i, p)
  <2>1. PICK pc \in PCs : /\ Goto(w, pc)
                          /\ \/ p = 1 /\ pc = PastHandoffGate(w)
                             \/ pc = "entry"
    BY <1>0, <1>4 DEF CheckPhaseLegal, PastHandoffGate, PCs
  <2>2. /\ op' \in [Workers -> Ops] /\ \A v \in Workers : v # w => op'[v] = op[v]
        /\ op'[w].pc = pc /\ SameLocals(w)
    BY <1>1, <2>1, GotoFacts
  <2>3. ControlOK(w)'
    BY <1>0, <1>1, <1>2, <2>1, <2>2
    DEF IInv, ControlOK, SameLocals, tables, PastHandoffGate, SplitPCs, GatePCs
  <2>4. RowsOK(w)'
    <3>1. Legal(i, p)
      BY <1>4 DEF PhaseLegal, Legal
    <3>2. p = 1 => HandedOff(i, p)
      BY DEF HandedOff
    <3>3. Legal(i, p)' /\ (p = 1 => HandedOff(i, p)')
      BY <1>2, <3>1, <3>2, SameRows
    <3>4. pc \in {"entry", "record", "verdict"} /\ (pc # "entry" => p = 1)
      BY <2>1 DEF PastHandoffGate
    <3>. QED
      BY <1>0, <1>1, <2>2, <3>3, <3>4 DEF RowsOK, SameLocals
  <2>. QED
    BY <1>2, <2>2, <2>3, <2>4, ReadStep
<1>. QED
  BY <1>3, <1>4

LEMMA CheckEntryHandoffStep ==
  ASSUME IInv, NEW w \in Workers, CheckEntryHandoff(w)
  PROVE  IInv'
<1>0. PICK i, p, h : i = op[w].issue /\ p = op[w].phase /\ h = Latest(HandoffsOf(i))
  OBVIOUS
<1>1. /\ op \in [Workers -> Ops] /\ op[w] \in Ops /\ op[w].pc = "entry" /\ i \in Issues
      /\ op[w].goal \in {"advance", "archive"} /\ op[w].items = <<>>
      /\ changes[i].status # "none"
  BY <1>0 DEF IInv, TypeOK, CheckEntryHandoff, At, ControlOK, GatePCs, Ops
<1>2. UNCHANGED tables
  BY DEF CheckEntryHandoff
<1>3. CASE ~\E r \in HandoffsOf(i) : EnteredBy(i, p, r)
  <2>1. Done(w)
    BY <1>0, <1>3 DEF CheckEntryHandoff
  <2>. QED
    BY <1>1, <1>2, <2>1, DoneFacts, IdleOK, ReadStep
<1>4. CASE \E r \in HandoffsOf(i) : EnteredBy(i, p, r)
  <2>. DEFINE o == [op[w] EXCEPT !.pc = "fresh", !.row = h]
  <2>1. Move(w, o)
    BY <1>0, <1>4 DEF CheckEntryHandoff
  <2>2. h \in HandoffsOf(i) /\ journal[i][h].kind = p
    BY <1>0, <1>4 DEF EnteredBy
  <2>3. h \in Nat
    BY <1>1, <2>2 DEF IInv, TypeOK, HandoffsOf
  <2>4. /\ o \in Ops /\ o.pc = "fresh" /\ o.goal = op[w].goal /\ o.issue = i /\ o.phase = p
        /\ o.items = <<>>
    BY <1>0, <1>1, <2>3 DEF Ops, PCs
  <2>. HIDE DEF o
  <2>5. op' \in [Workers -> Ops] /\ op'[w] = o /\ \A v \in Workers : v # w => op'[v] = op[v]
    BY <1>1, <2>1, <2>4, MoveFacts
  <2>6. ControlOK(w)'
    BY <1>0, <1>1, <1>2, <2>4, <2>5 DEF IInv, ControlOK, tables, SplitPCs, GatePCs
  <2>7. RowsOK(w)'
    <3>1. HandedOff(i, p)
      BY <2>2 DEF HandedOff
    <3>2. Exists(i) => Legal(i, p)
      BY <1>0, <1>1 DEF IInv, RowsOK
    <3>3. HandedOff(i, p)' /\ (Exists(i)' => Legal(i, p)')
      BY <1>2, <3>1, <3>2, SameRows
    <3>. QED
      BY <1>1, <2>4, <2>5, <3>3 DEF RowsOK
  <2>. QED
    BY <1>2, <2>5, <2>6, <2>7, ReadStep
<1>. QED
  BY <1>3, <1>4

LEMMA CheckHandoffFreshStep ==
  ASSUME IInv, NEW w \in Workers, CheckHandoffFresh(w)
  PROVE  IInv'
<1>0. PICK i, p, pc : i = op[w].issue /\ p = op[w].phase /\ pc = PastHandoffGate(w)
  OBVIOUS
<1>1. /\ op \in [Workers -> Ops] /\ op[w] \in Ops /\ op[w].pc = "fresh" /\ i \in Issues
      /\ op[w].goal \in {"advance", "archive"} /\ op[w].items = <<>>
      /\ changes[i].status # "none"
  BY <1>0 DEF IInv, TypeOK, CheckHandoffFresh, At, ControlOK, GatePCs, Ops
<1>2. UNCHANGED tables
  BY DEF CheckHandoffFresh
<1>3. CASE Done(w)
  BY <1>1, <1>2, <1>3, DoneFacts, IdleOK, ReadStep
<1>. DEFINE o == [op[w] EXCEPT !.pc = pc, !.row = 0]
<1>4. CASE Move(w, o)
  <2>1. /\ pc \in {"record", "verdict"}
        /\ pc = "record" => op[w].goal = "advance"
        /\ pc = "verdict" => op[w].goal = "archive"
    BY <1>0, <1>1 DEF PastHandoffGate
  <2>2. /\ o \in Ops /\ o.pc = pc /\ o.goal = op[w].goal /\ o.issue = i /\ o.phase = p
        /\ o.items = <<>>
    BY <1>0, <1>1, <2>1 DEF Ops, PCs
  <2>. HIDE DEF o
  <2>3. op' \in [Workers -> Ops] /\ op'[w] = o /\ \A v \in Workers : v # w => op'[v] = op[v]
    BY <1>1, <1>4, <2>2, MoveFacts
  <2>4. ControlOK(w)'
    BY <1>0, <1>1, <1>2, <2>1, <2>2, <2>3 DEF IInv, ControlOK, tables, SplitPCs, GatePCs
  <2>5. RowsOK(w)'
    <3>1. Exists(i) => Legal(i, p) /\ HandedOff(i, p)
      BY <1>0, <1>1 DEF IInv, RowsOK
    <3>2. Exists(i)' => Legal(i, p)' /\ HandedOff(i, p)'
      BY <1>2, <3>1, SameRows
    <3>. QED
      BY <1>1, <2>1, <2>2, <2>3, <3>2 DEF RowsOK
  <2>. QED
    BY <1>2, <2>3, <2>4, <2>5, ReadStep
<1>. QED
  BY <1>0, <1>3, <1>4 DEF CheckHandoffFresh

LEMMA RecordHandoffStep ==
  ASSUME IInv, NEW w \in Workers, RecordHandoff(w)
  PROVE  IInv'
<1>0. PICK i, p : i = op[w].issue /\ p = op[w].phase
  OBVIOUS
<1>1. /\ TypeOK /\ op \in [Workers -> Ops] /\ op[w].pc = "record"
      /\ i \in Issues /\ p \in Phases /\ op[w].goal = "advance" /\ p < N
      /\ changes[i].status # "none"
  BY <1>0 DEF IInv, TypeOK, RecordHandoff, At, ControlOK, Ops
<1>2. CASE ~Exists(i)
  <2>1. Done(w) /\ UNCHANGED tables
    BY <1>0, <1>2 DEF RecordHandoff, tables
  <2>. QED
    BY <1>1, <2>1, DoneFacts, IdleOK, ReadStep
<1>3. CASE Exists(i)
  <2>1. /\ Insert(i, Handoff(p + 1)) /\ Goto(w, "enter")
        /\ UNCHANGED <<changes, subIssues, mapping, woken, notified>>
    BY <1>0, <1>3 DEF RecordHandoff
  <2>2. Handoff(p + 1) \in Rows
    BY <1>1, NAssumption, HandoffType DEF Phases
  <2>3. /\ op' \in [Workers -> Ops] /\ \A v \in Workers : v # w => op'[v] = op[v]
        /\ op'[w].pc = "enter" /\ SameLocals(w)
    BY <1>1, <2>1, GotoFacts DEF PCs
  <2>4. ControlOK(w)'
    BY <1>0, <1>1, <2>1, <2>3 DEF IInv, ControlOK, SameLocals, SplitPCs, GatePCs
  <2>5. RowsOK(w)'
    <3>1. Exists(i)' /\ HandedOff(i, p) /\ Legal(i, p)
      BY <1>0, <1>1, <1>3, <2>1 DEF IInv, RowsOK, Exists
    <3>2. Kept(i) /\ HandedOff(i, p + 1)'
      BY <1>0, <1>1, <2>1, <2>2, <3>1, InsertedFacts DEF Handoff
    <3>3. HandedOff(i, p)' /\ Legal(i, p)'
      BY <3>1, <3>2, KeptRows
    <3>. QED
      BY <1>0, <1>1, <2>3, <3>2, <3>3 DEF RowsOK, SameLocals
  <2>. QED
    BY <1>0, <1>1, <1>3, <2>1, <2>2, <2>3, <2>4, <2>5, InsertStep DEF Exists
<1>. QED
  BY <1>2, <1>3

LEMMA EnterPhaseStep ==
  ASSUME IInv, NEW w \in Workers, EnterPhase(w)
  PROVE  IInv'
<1>0. PICK i, p : i = op[w].issue /\ p = op[w].phase
  OBVIOUS
<1>1. /\ op \in [Workers -> Ops] /\ op[w].pc = "enter" /\ op[w].goal = "advance"
      /\ i \in Issues /\ p \in Phases /\ p < N
  BY <1>0 DEF IInv, TypeOK, EnterPhase, At, ControlOK, Ops
<1>2. Done(w) /\ UNCHANGED <<journal, subIssues, mapping, woken, notified>>
  BY DEF EnterPhase
<1>3. /\ op' \in [Workers -> Ops] /\ \A v \in Workers : v # w => op'[v] = op[v]
      /\ ControlOK(w)' /\ RowsOK(w)'
  BY <1>1, <1>2, DoneFacts, IdleOK
<1>4. CASE ~Exists(i)
  <2>1. UNCHANGED tables
    BY <1>0, <1>2, <1>4 DEF EnterPhase, tables
  <2>. QED
    BY <1>3, <2>1, ReadStep
<1>5. CASE Exists(i)
  <2>1. UpdateChange(i, p + 1, "active")
    BY <1>0, <1>5 DEF EnterPhase
  <2>2. Backed(i, p + 1) /\ HandedOff(i, p + 1)
    BY <1>0, <1>1, <1>5, LegalNext DEF IInv, RowsOK
  <2>3. p + 1 \in Phases
    BY <1>1, NAssumption DEF Phases
  <2>. QED
    BY <1>1, <1>2, <1>3, <1>5, <2>1, <2>2, <2>3, UpdateStep
<1>. QED
  BY <1>4, <1>5

LEMMA CheckVerifyPassedStep ==
  ASSUME IInv, NEW w \in Workers, CheckVerifyPassed(w)
  PROVE  IInv'
<1>0. PICK i, p : i = op[w].issue /\ p = op[w].phase
  OBVIOUS
<1>1. op \in [Workers -> Ops] /\ op[w].pc = "verdict" /\ op[w].goal = "archive"
  BY DEF IInv, TypeOK, CheckVerifyPassed, At, ControlOK
<1>2. UNCHANGED tables
  BY DEF CheckVerifyPassed
<1>3. CASE ~VerifyPassed(i)
  <2>1. Done(w)
    BY <1>0, <1>3 DEF CheckVerifyPassed
  <2>. QED
    BY <1>1, <1>2, <2>1, DoneFacts, IdleOK, ReadStep
<1>4. CASE VerifyPassed(i)
  <2>1. Goto(w, "close")
    BY <1>0, <1>4 DEF CheckVerifyPassed
  <2>2. /\ op' \in [Workers -> Ops] /\ \A v \in Workers : v # w => op'[v] = op[v]
        /\ op'[w].pc = "close" /\ SameLocals(w)
    BY <1>1, <2>1, GotoFacts DEF PCs
  <2>3. ControlOK(w)'
    BY <1>0, <1>1, <1>2, <2>2 DEF IInv, ControlOK, SameLocals, tables, SplitPCs, GatePCs
  <2>4. RowsOK(w)'
    <3>1. Passed(i)
      BY <1>4 DEF VerifyPassed, Passed
    <3>2. Exists(i) => Legal(i, p) /\ HandedOff(i, p)
      BY <1>0, <1>1 DEF IInv, RowsOK
    <3>3. Passed(i)' /\ (Exists(i)' => Legal(i, p)' /\ HandedOff(i, p)')
      BY <1>2, <3>1, <3>2, SameRows
    <3>. QED
      BY <1>0, <1>1, <2>2, <3>3 DEF RowsOK, SameLocals
  <2>. QED
    BY <1>2, <2>2, <2>3, <2>4, ReadStep
<1>. QED
  BY <1>3, <1>4

LEMMA CloseChangeStep ==
  ASSUME IInv, NEW w \in Workers, CloseChange(w)
  PROVE  IInv'
<1>0. PICK i : i = op[w].issue
  OBVIOUS
<1>1. /\ op \in [Workers -> Ops] /\ op[w].pc = "close" /\ op[w].goal = "archive"
      /\ i \in Issues /\ op[w].phase = N
  BY <1>0 DEF IInv, TypeOK, CloseChange, At, ControlOK
<1>2. UNCHANGED <<journal, subIssues, mapping, woken, notified>>
  BY DEF CloseChange
<1>3. CASE ~Exists(i)
  <2>1. Done(w) /\ UNCHANGED tables
    BY <1>0, <1>2, <1>3 DEF CloseChange, tables
  <2>. QED
    BY <1>1, <2>1, DoneFacts, IdleOK, ReadStep
<1>4. CASE Exists(i)
  <2>1. UpdateChange(i, N, "archived") /\ Goto(w, "wake")
    BY <1>0, <1>1, <1>4 DEF CloseChange
  <2>2. /\ op' \in [Workers -> Ops] /\ \A v \in Workers : v # w => op'[v] = op[v]
        /\ op'[w].pc = "wake" /\ SameLocals(w)
    BY <1>1, <2>1, GotoFacts DEF PCs
  <2>3. N \in Phases
    BY NAssumption DEF Phases
  <2>4. Legal(i, N) /\ HandedOff(i, N) /\ Passed(i) /\ Backed(i, N)
    BY <1>0, <1>1, <1>4, <2>3, LegalNext DEF IInv, RowsOK
  <2>5. ControlOK(w)'
    <3>1. changes'[i].status = "archived"
      BY <1>1, <2>1 DEF IInv, TypeOK, UpdateChange
    <3>. QED
      BY <1>0, <1>1, <2>2, <3>1 DEF IInv, ControlOK, SameLocals, SplitPCs, GatePCs
  <2>6. RowsOK(w)'
    <3>1. Legal(i, N)' /\ Passed(i)'
      BY <1>2, <2>4 DEF Legal, Passed, Present, ArtifactsOf
    <3>. QED
      BY <1>0, <1>1, <2>2, <3>1 DEF RowsOK, SameLocals
  <2>. QED
    BY <1>1, <1>2, <1>4, <2>1, <2>2, <2>3, <2>4, <2>5, <2>6, UpdateStep
<1>. QED
  BY <1>3, <1>4

LEMMA WakeParentStep ==
  ASSUME IInv, NEW w \in Workers, WakeParent(w)
  PROVE  IInv'
<1>0. PICK i : i = op[w].issue
  OBVIOUS
<1>1. /\ TypeOK /\ op \in [Workers -> Ops] /\ op[w].pc = "wake" /\ op[w].goal = "archive"
      /\ i \in Issues /\ op[w].phase = N
  BY <1>0 DEF IInv, TypeOK, WakeParent, At, ControlOK
<1>2. UNCHANGED <<changes, journal, subIssues, mapping, notified>>
  BY DEF WakeParent
<1>3. CASE ~(Exists(i) /\ i \in HasParent)
  <2>1. Done(w) /\ UNCHANGED tables
    BY <1>0, <1>2, <1>3 DEF WakeParent, tables
  <2>. QED
    BY <1>1, <2>1, DoneFacts, IdleOK, ReadStep
<1>4. CASE Exists(i) /\ i \in HasParent
  <2>1. woken' = woken \union {i} /\ Goto(w, "notify")
    BY <1>0, <1>4 DEF WakeParent
  <2>2. /\ op' \in [Workers -> Ops] /\ \A v \in Workers : v # w => op'[v] = op[v]
        /\ op'[w].pc = "notify" /\ SameLocals(w)
    BY <1>1, <2>1, GotoFacts DEF PCs
  <2>3. TypeOK'
    BY <1>1, <1>2, <2>1, <2>2 DEF TypeOK
  <2>4. \A j \in Issues : Kept(j)
    BY <1>2, <2>1 DEF Kept, Exists
  <2>5. Exists(i)' /\ Legal(i, N)' /\ Passed(i)'
    <3>1. Legal(i, N) /\ Passed(i)
      BY <1>0, <1>1, <1>4 DEF IInv, RowsOK
    <3>. QED
      BY <1>2, <1>4, <3>1 DEF Exists, Legal, Passed, Present, ArtifactsOf
  <2>6. ControlOK(w)'
    BY <1>0, <1>1, <1>2, <2>2 DEF IInv, ControlOK, SameLocals, SplitPCs, GatePCs
  <2>7. RowsOK(w)'
    BY <1>0, <1>1, <1>4, <2>1, <2>2, <2>5 DEF RowsOK, SameLocals
  <2>8. ASSUME NEW j \in Issues, j # i PROVE SameChange(j)
    BY <1>2, <2>1, <2>8 DEF SameChange
  <2>9. ChangeOK(i)' /\ AbsentOK(i)'
    <3>1. /\ ChangeOK(i)
          /\ UNCHANGED <<changes, journal, subIssues, mapping, notified>>
          /\ i \in woken'
      BY <1>1, <1>2, <2>1 DEF IInv
    <3>2. /\ \A q : Backed(i, q) => Backed(i, q)'
          /\ \A q : HandedOff(i, q) => HandedOff(i, q)'
          /\ \A row, c : Saved(i, row, c) => Saved(i, row, c)'
      BY <1>1, <2>4, <2>5, KeptRows
    <3>. QED
      BY <1>4, <2>5, <3>1, <3>2 DEF ChangeOK, AbsentOK
  <2>. QED
    BY <1>1, <2>2, <2>3, <2>4, <2>6, <2>7, <2>8, <2>9, WorkerStep
<1>. QED
  BY <1>3, <1>4

LEMMA NotifyParentStep ==
  ASSUME IInv, NEW w \in Workers, NotifyParent(w)
  PROVE  IInv'
<1>0. PICK i : i = op[w].issue
  OBVIOUS
<1>1. TypeOK /\ op \in [Workers -> Ops] /\ op[w].pc = "notify" /\ i \in Issues
  BY <1>0 DEF IInv, TypeOK, NotifyParent, At, ControlOK
<1>2. /\ UNCHANGED <<changes, journal, subIssues, mapping, woken>> /\ Done(w)
      /\ notified' = IF Exists(i) THEN notified \union {i} ELSE notified
  BY <1>0 DEF NotifyParent
<1>3. /\ op' \in [Workers -> Ops] /\ \A v \in Workers : v # w => op'[v] = op[v]
      /\ ControlOK(w)' /\ RowsOK(w)'
  BY <1>1, <1>2, DoneFacts, IdleOK
<1>4. TypeOK'
  BY <1>1, <1>2, <1>3 DEF TypeOK
<1>5. \A j \in Issues : Kept(j)
  BY <1>2 DEF Kept, Exists
<1>6. ASSUME NEW j \in Issues, j # i \/ ~Exists(i) PROVE SameChange(j)
  BY <1>2, <1>6 DEF SameChange
<1>7. CASE Exists(i)
  <2>1. i \in woken /\ ChangeOK(i)
    BY <1>0, <1>1, <1>7 DEF IInv, RowsOK
  <2>2. Exists(i)'
    BY <1>2, <1>7 DEF Exists
  <2>3. /\ \A q : Backed(i, q) => Backed(i, q)'
        /\ \A q : HandedOff(i, q) => HandedOff(i, q)'
        /\ \A q : Legal(i, q) => Legal(i, q)'
        /\ Passed(i) => Passed(i)'
        /\ \A row, c : Saved(i, row, c) => Saved(i, row, c)'
    BY <1>1, <1>5, <2>2, KeptRows
  <2>4. ChangeOK(i)' /\ AbsentOK(i)'
    BY <1>2, <1>7, <2>1, <2>2, <2>3 DEF ChangeOK, AbsentOK
  <2>. QED
    BY <1>1, <1>3, <1>4, <1>5, <1>6, <2>4, WorkerStep
<1>8. CASE ~Exists(i)
  BY <1>1, <1>3, <1>4, <1>5, <1>6, <1>8, WorkerStep
<1>. QED
  BY <1>7, <1>8

------------------------------------------------------------------------------
(* Deletions, failing statements and crashes.                              *)

LEMMA StatementFailsStep ==
  ASSUME IInv, NEW w \in Workers, StatementFails(w)
  PROVE  IInv'
<1>1. op \in [Workers -> Ops] /\ UNCHANGED tables
  BY DEF IInv, TypeOK, StatementFails
<1>2. CASE op[w].pc \in {"create", "fail"}
  <2>1. Done(w)
    BY <1>2 DEF StatementFails
  <2>. QED
    BY <1>1, <2>1, DoneFacts, IdleOK, ReadStep
<1>3. CASE op[w].pc \notin {"create", "fail"}
  BY <1>1, <1>3, RefuseStep DEF StatementFails
<1>. QED
  BY <1>2, <1>3

LEMMA DeleteIssueStep ==
  ASSUME IInv, NEW i \in Issues, DeleteIssue(i)
  PROVE  IInv'
<1>1. TypeOK /\ UNCHANGED op
  BY DEF IInv, DeleteIssue
<1>2. /\ changes' \in [Issues -> [phase : Phases, status : Statuses]]
      /\ changes'[i] = [phase |-> 1, status |-> "gone"]
      /\ \A j \in Issues : j # i => changes'[j] = changes[j]
  BY <1>1, NAssumption DEF DeleteIssue, TypeOK, Phases, Statuses
<1>3. /\ journal' \in [Issues -> Seq(Rows)]
      /\ \A j \in Issues : j # i => journal'[j] = journal[j]
  BY <1>1 DEF DeleteIssue, TypeOK
<1>4. /\ subIssues' \in [Issues -> Seq(SubIssues)]
      /\ mapping' \in [Issues -> SUBSET Bindings]
  BY <1>1 DEF DeleteIssue, TypeOK
<1>5. woken' = woken \ {i} /\ notified' = notified \ {i}
  BY DEF DeleteIssue
<1>6. TypeOK'
  BY <1>1, <1>2, <1>3, <1>4, <1>5 DEF TypeOK
<1>7. \A j \in Issues : Kept(j)
  BY <1>2, <1>3, <1>5 DEF Kept, Exists
<1>8. ASSUME NEW v \in Workers PROVE ControlOK(v)' /\ RowsOK(v)'
  BY <1>1, <1>7, OthersOK DEF IInv, TypeOK
<1>9. ASSUME NEW j \in Issues, j # i PROVE ChangeOK(j)' /\ AbsentOK(j)'
  <2>1. SameChange(j)
    BY <1>2, <1>4, <1>5, <1>9 DEF SameChange
  <2>. QED
    BY <1>7, <2>1, SameChangeOK DEF IInv
<1>10. ChangeOK(i)' /\ AbsentOK(i)'
  <2>1. i \notin woken' /\ i \notin notified'
    BY <1>5
  <2>. QED
    BY <1>2, <1>4, <2>1 DEF ChangeOK, AbsentOK, Exists
<1>. QED
  BY <1>6, <1>8, <1>9, <1>10 DEF IInv

LEMMA SubIssueDeleted ==
  ASSUME TypeOK, NEW i \in Issues, NEW n \in DOMAIN subIssues[i], DeleteSubIssue(i, n)
  PROVE  /\ subIssues' \in [Issues -> Seq(SubIssues)]
         /\ \A j \in Issues : j # i => subIssues'[j] = subIssues[j]
         /\ DOMAIN subIssues'[i] = DOMAIN subIssues[i]
         /\ \A k \in DOMAIN subIssues[i] :
              /\ subIssues'[i][k].row = subIssues[i][k].row
              /\ subIssues'[i][k].live = (subIssues[i][k].live /\ k # n)
         /\ mapping' \in [Issues -> SUBSET Bindings]
         /\ mapping'[i] = {m \in mapping[i] : m.sub # n}
         /\ \A j \in Issues : j # i => mapping'[j] = mapping[j]
<1>. DEFINE dead == [subIssues[i][n] EXCEPT !.live = FALSE]
            list == [subIssues[i] EXCEPT ![n] = dead]
<1>1. subIssues[i] \in Seq(SubIssues) /\ subIssues[i][n] \in SubIssues /\ subIssues[i][n].live
  BY DEF TypeOK, DeleteSubIssue
<1>2. dead \in SubIssues /\ dead.row = subIssues[i][n].row /\ dead.live = FALSE
  BY <1>1 DEF SubIssues
<1>. HIDE DEF dead
<1>3. /\ list \in Seq(SubIssues) /\ DOMAIN list = DOMAIN subIssues[i] /\ list[n] = dead
      /\ \A k \in DOMAIN subIssues[i] : k # n => list[k] = subIssues[i][k]
  BY <1>1, <1>2
<1>4. subIssues' = [subIssues EXCEPT ![i] = list]
  BY DEF DeleteSubIssue, dead
<1>. HIDE DEF list
<1>5. /\ subIssues' \in [Issues -> Seq(SubIssues)] /\ subIssues'[i] = list
      /\ \A j \in Issues : j # i => subIssues'[j] = subIssues[j]
  BY <1>3, <1>4 DEF TypeOK
<1>6. ASSUME NEW k \in DOMAIN subIssues[i]
      PROVE  /\ subIssues'[i][k].row = subIssues[i][k].row
             /\ subIssues'[i][k].live = (subIssues[i][k].live /\ k # n)
  <2>1. CASE k = n
    BY <1>2, <1>3, <1>5, <2>1
  <2>2. CASE k # n
    <3>1. subIssues[i][k] \in SubIssues
      BY <1>1
    <3>2. subIssues[i][k].live \in BOOLEAN
      BY <3>1 DEF SubIssues
    <3>. QED
      BY <1>3, <1>5, <2>2, <3>2
  <2>. QED
    BY <2>1, <2>2
<1>7. /\ mapping' \in [Issues -> SUBSET Bindings]
      /\ mapping'[i] = {m \in mapping[i] : m.sub # n}
      /\ \A j \in Issues : j # i => mapping'[j] = mapping[j]
  BY DEF DeleteSubIssue, TypeOK
<1>. QED
  BY <1>3, <1>5, <1>6, <1>7

LEMMA DeleteSubIssueStep ==
  ASSUME IInv, NEW i \in Issues, NEW n \in DOMAIN subIssues[i], DeleteSubIssue(i, n)
  PROVE  IInv'
<1>1. UNCHANGED <<changes, journal, woken, notified, op>>
  BY DEF DeleteSubIssue
<1>2. TypeOK'
  BY <1>1, SubIssueDeleted DEF IInv, TypeOK
<1>3. ASSUME NEW j \in Issues PROVE Kept(j) /\ SameChange(j)
  BY <1>1 DEF Kept, SameChange, Exists
<1>4. \A v \in Workers : ControlOK(v)' /\ RowsOK(v)'
  BY <1>1, <1>3, OthersOK DEF IInv, TypeOK
<1>5. \A j \in Issues : ChangeOK(j)' /\ AbsentOK(j)'
  BY <1>3, SameChangeOK DEF IInv
<1>. QED
  BY <1>2, <1>4, <1>5 DEF IInv

LEMMA CrashStep ==
  ASSUME IInv, Crash
  PROVE  IInv'
<1>1. UNCHANGED tables /\ op' = [w \in Workers |-> Idle]
  BY DEF Crash
<1>2. TypeOK'
  BY <1>1, IdleType DEF IInv, TypeOK, tables
<1>3. ASSUME NEW v \in Workers PROVE ControlOK(v)' /\ RowsOK(v)'
  BY <1>1, IdleOK
<1>4. ASSUME NEW j \in Issues PROVE ChangeOK(j)' /\ AbsentOK(j)'
  <2>1. Kept(j) /\ SameChange(j)
    BY <1>1 DEF Kept, SameChange, tables, Exists
  <2>. QED
    BY <2>1, SameChangeOK DEF IInv
<1>. QED
  BY <1>2, <1>3, <1>4 DEF IInv

------------------------------------------------------------------------------
(* The invariant, and what follows from it.                                *)

LEMMA InitOK == Init => IInv
<1>. SUFFICES ASSUME Init PROVE IInv
  OBVIOUS
<1>1. changes = [i \in Issues |-> [phase |-> 1, status |-> "none"]]
  BY DEF Init
<1>2. TypeOK
  <2>1. 1 \in Phases
    BY NAssumption DEF Phases
  <2>2. <<>> \in Seq(Rows) /\ <<>> \in Seq(SubIssues)
    OBVIOUS
  <2>. QED
    BY <1>1, <2>1, <2>2, IdleType DEF Init, TypeOK, Statuses
<1>3. ASSUME NEW w \in Workers PROVE ControlOK(w) /\ RowsOK(w)
  <2>1. op[w] = Idle
    BY DEF Init
  <2>. QED
    BY <2>1 DEF ControlOK, RowsOK, Idle, SplitPCs, GatePCs
<1>4. ASSUME NEW i \in Issues PROVE ChangeOK(i) /\ AbsentOK(i)
  BY <1>1 DEF Init, ChangeOK, AbsentOK, Exists
<1>. QED
  BY <1>2, <1>3, <1>4 DEF IInv

LEMMA NextOK == IInv /\ [Next]_vars => IInv'
<1>. SUFFICES ASSUME IInv, [Next]_vars PROVE IInv'
  OBVIOUS
<1>1. CASE UNCHANGED vars
  <2>1. UNCHANGED <<tables, op>>
    BY <1>1 DEF vars, tables
  <2>2. TypeOK'
    BY <2>1 DEF IInv, TypeOK, tables
  <2>3. \A i \in Issues : Kept(i) /\ SameChange(i)
    BY <2>1 DEF Kept, SameChange, tables, Exists
  <2>4. \A w \in Workers : ControlOK(w)' /\ RowsOK(w)'
    BY <2>1, <2>3, OthersOK DEF IInv, TypeOK
  <2>5. \A i \in Issues : ChangeOK(i)' /\ AbsentOK(i)'
    BY <2>3, SameChangeOK DEF IInv
  <2>. QED
    BY <2>2, <2>4, <2>5 DEF IInv
<1>2. ASSUME NEW w \in Workers, Step(w) PROVE IInv'
  BY <1>2, CreateChangeStep, GenerateStep, SaveGeneratedStep, SplitHandoffStep, SplitUpdateStep,
     FailChangeStep, SaveArtifactStep, CreateSubIssueStep, BindRefusedStep, ClearMappingsStep,
     SetTaskMappingsStep, SaveReportStep, CheckPhaseLegalStep, CheckEntryHandoffStep, CheckHandoffFreshStep,
     RecordHandoffStep, EnterPhaseStep, CheckVerifyPassedStep, CloseChangeStep, WakeParentStep,
     NotifyParentStep
  DEF Step
<1>3. ASSUME NEW w \in Workers, Request(w) \/ StatementFails(w) PROVE IInv'
  BY <1>3, RequestStep, StatementFailsStep
<1>4. ASSUME NEW i \in Issues, DeleteIssue(i) PROVE IInv'
  BY <1>4, DeleteIssueStep
<1>5. ASSUME NEW i \in Issues, NEW n \in DOMAIN subIssues[i], DeleteSubIssue(i, n) PROVE IInv'
  BY <1>5, DeleteSubIssueStep
<1>. QED
  BY <1>1, <1>2, <1>3, <1>4, <1>5, CrashStep DEF Next

\* What workers rely on holds at every moment of every execution.
THEOREM Invariance == Spec => []IInv
  BY InitOK, NextOK, PTL DEF Spec

\* Rows, changes and the workers' local variables keep their shape.
THEOREM TypeCorrect == Spec => []TypeOK
<1>1. IInv => TypeOK
  BY DEF IInv
<1>. QED
  BY <1>1, Invariance, PTL

\* A change stands at a phase only if every earlier phase has an artifact.
THEOREM NothingSkipped == Spec => []PhaseBacked
<1>1. IInv => PhaseBacked
  BY DEF IInv, ChangeOK, PhaseBacked, Backed
<1>. QED
  BY <1>1, Invariance, PTL

\* Every phase but the first was entered through a recorded handoff.
THEOREM EveryPhaseHandedOff == Spec => []PhaseHandedOff
<1>1. IInv => PhaseHandedOff
  BY DEF IInv, ChangeOK, PhaseHandedOff, HandedOff
<1>. QED
  BY <1>1, Invariance, PTL

\* An archived change has every kind of artifact and a report that says pass.
THEOREM ArchiveHasEvidence == Spec => []ArchivedWithEvidence
<1>1. IInv => ArchivedWithEvidence
  BY DEF IInv, ChangeOK, ArchivedWithEvidence, Evidence, Legal, Passed, Phases
<1>. QED
  BY <1>1, Invariance, PTL

\* The parent is woken for complete evidence only, and told after the wakeup.
THEOREM WakeupsEarned == Spec => []WakeupEarned
<1>1. IInv => WakeupEarned
  BY DEF IInv, TypeOK, ChangeOK, WakeupEarned, Evidence, Legal, Passed, Phases
<1>. QED
  BY <1>1, Invariance, PTL

------------------------------------------------------------------------------
(* One request at a time.  While no two requests in progress are about the *)
(* same change (Alone), what a worker read of its change is still so when  *)
(* it acts on it (Current), unless the issue was deleted meanwhile; so     *)
(* every step has one of a few effects on one change (Effect), and these   *)
(* are the steps of the promise.                                           *)

Current(w) ==
  LET o == op[w]
      i == op[w].issue
  IN
  /\ o.pc = "write" => o.kind \in Phases
  /\ o.pc = "report" => o.content \in {"pass", "fail"}
  /\ o.pc \notin {"idle", "create", "wake", "notify"} /\ Exists(i) =>
       /\ Active(i)
       /\ o.goal \in {"split", "advance", "archive"} /\ o.pc # "fail" => o.phase = changes[i].phase
       /\ o.pc = "fail" => o.phase \in {changes[i].phase, changes[i].phase + 1}
       /\ o.pc \in {"entry", "fresh", "record", "verdict", "close"} => PhaseLegal(i, o.phase)
       /\ o.pc = "fresh" => EnteredBy(i, o.phase, o.row)
       /\ o.pc \in {"record", "verdict", "close"} => HandoffFresh(i, o.phase)
       /\ o.pc = "close" => VerifyPassed(i)

FirstOK(i) == changes[i].status = "none" => changes[i].phase = 1

CInv == (\A w \in Workers : Current(w)) /\ (\A i \in Issues : FirstOK(i))

\* What a step does to the change of issue i and its rows.
Quiet(i) == changes'[i] = changes[i] /\ journal'[i] = journal[i]
Sets(i, p, s) == changes'[i] = [phase |-> p, status |-> s] /\ journal'[i] = journal[i]

Opened(i) == changes[i].status = "none" /\ Sets(i, 1, "active")
RowAdded(i) ==
  /\ Active(i) /\ changes'[i] = changes[i]
  /\ \/ \E k \in Phases, c \in Contents : Insert(i, Artifact(k, c))
     \/ \E c \in {"pass", "fail"} : Insert(i, Artifact(Verify, c))
     \/ changes[i].phase < N /\ Insert(i, Handoff(changes[i].phase + 1))
Advanced(i) ==
  /\ Active(i) /\ changes[i].phase < N /\ Legal(i, changes[i].phase) /\ Entering(i)
  /\ Sets(i, changes[i].phase + 1, "active")
Archived(i) == Active(i) /\ changes[i].phase = N /\ GatesOpen(i) /\ Sets(i, N, "archived")
GaveUp(i) ==
  /\ Active(i) /\ Entering(i)
  /\ \/ Sets(i, changes[i].phase, "failed")
     \/ /\ changes[i].phase < N /\ Legal(i, changes[i].phase)
        /\ Sets(i, changes[i].phase + 1, "failed")
Deleted(i) ==
  /\ changes[i].status # "gone"
  /\ changes'[i] = [phase |-> 1, status |-> "gone"] /\ journal'[i] = <<>>

Effect(i) ==
  Opened(i) \/ RowAdded(i) \/ Advanced(i) \/ Archived(i) \/ GaveUp(i) \/ Deleted(i)

\* A step is quiet, or it has one effect on the change of one issue.
OneEffect ==
  \/ \A j \in Issues : Quiet(j)
  \/ \E i \in Issues : Effect(i) /\ \A j \in Issues : j # i => Quiet(j)

\* A gate that was found open is still open, as nothing was written since.
LEMMA SameGates ==
  ASSUME NEW i, Quiet(i)
  PROVE  /\ Exists(i) <=> Exists(i)'
         /\ Active(i) <=> Active(i)'
         /\ \A p : PhaseLegal(i, p) <=> PhaseLegal(i, p)'
         /\ \A p, h : EnteredBy(i, p, h) <=> EnteredBy(i, p, h)'
         /\ \A p : HandoffFresh(i, p) <=> HandoffFresh(i, p)'
         /\ VerifyPassed(i) <=> VerifyPassed(i)'
<1>1. Exists(i) <=> Exists(i)'
  BY DEF Quiet, Exists
<1>2. Active(i) <=> Active(i)'
  BY DEF Quiet, Active
<1>3. \A p : PhaseLegal(i, p) <=> PhaseLegal(i, p)'
  BY DEF Quiet, PhaseLegal, ArtifactsListed, Present, ArtifactsOf
<1>4. \A p, h : EnteredBy(i, p, h) <=> EnteredBy(i, p, h)'
  BY DEF Quiet, EnteredBy, HandoffsOf
<1>5. \A p : HandoffFresh(i, p) <=> HandoffFresh(i, p)'
  BY DEF Quiet, HandoffFresh, EnteredBy, HandoffsOf, Undisturbed, ArtifactsListed, Present, ArtifactsOf
<1>6. VerifyPassed(i) <=> VerifyPassed(i)'
  BY DEF Quiet, VerifyPassed, ArtifactsOf
<1>. QED
  BY <1>1, <1>2, <1>3, <1>4, <1>5, <1>6

LEMMA UnwrittenQuiet == ASSUME NEW i, UNCHANGED <<changes, journal>> PROVE Quiet(i)
  BY DEF Quiet

\* The changes of other issues are somebody else's.
LEMMA OthersCurrent ==
  ASSUME NEW v \in Workers, ControlOK(v), Current(v), op'[v] = op[v],
         op[v].pc # "idle" => Quiet(op[v].issue) \/ ~Exists(op[v].issue)'
  PROVE  Current(v)'
<1>. DEFINE i == op[v].issue
<1>1. CASE op[v].pc = "idle" \/ ~Exists(i)'
  BY <1>1 DEF Current
<1>2. CASE Quiet(i)
  <2>1. changes'[i] = changes[i]
    BY <1>2 DEF Quiet
  <2>. QED
    BY <1>2, <2>1, SameGates DEF Current
<1>. QED
  BY <1>1, <1>2

LEMMA FirstStays ==
  ASSUME NEW i, FirstOK(i), Quiet(i) \/ Effect(i)
  PROVE  FirstOK(i)'
  BY DEF FirstOK, Quiet, Effect, Opened, RowAdded, Advanced, Archived, GaveUp, Deleted, Sets, Active

LEMMA IdleCurrent == ASSUME NEW w, op'[w] = Idle PROVE Current(w)'
  BY DEF Current, Idle

\* What has to be shown of a step of one worker ...
Single(w) ==
  /\ \A v \in Workers : v # w => op'[v] = op[v]
  /\ Current(w)'
  /\ Quiet(op[w].issue) \/ Effect(op[w].issue)
  /\ \A j \in Issues : j # op[w].issue => Quiet(j)

LEMMA SingleStep ==
  ASSUME IInv, CInv, Alone, NEW w \in Workers, Single(w)
  PROVE  CInv' /\ OneEffect
<1>1. ASSUME NEW v \in Workers PROVE Current(v)'
  <2>1. CASE v = w
    BY <2>1 DEF Single
  <2>2. CASE v # w /\ op[v].pc = "idle"
    BY <2>2, OthersCurrent DEF Single, IInv, CInv
  <2>3. CASE v # w /\ op[v].pc # "idle"
    <3>1. op[v].issue \in Issues /\ op[v].issue # NoIssue
      BY <2>3, IssuesAssumption DEF IInv, ControlOK
    <3>2. op[v].issue # op[w].issue
      BY <2>3, <3>1 DEF Alone
    <3>. QED
      BY <2>3, <3>1, <3>2, OthersCurrent DEF Single, IInv, CInv
  <2>. QED
    BY <2>1, <2>2, <2>3
<1>2. OneEffect
  BY DEF Single, OneEffect
<1>3. ASSUME NEW i \in Issues PROVE FirstOK(i)'
  BY <1>2, FirstStays DEF CInv, OneEffect
<1>. QED
  BY <1>1, <1>2, <1>3 DEF CInv

\* ... and when it only reads the tables.
LEMMA SingleRead ==
  ASSUME NEW w \in Workers, UNCHANGED <<changes, journal>>,
         \A v \in Workers : v # w => op'[v] = op[v], Current(w)'
  PROVE  Single(w)
  BY DEF Single, Quiet

LEMMA SingleRequest ==
  ASSUME IInv, NEW w \in Workers, Request(w)
  PROVE  Single(w)
<1>. DEFINE Opens(i, goal) == [Idle EXCEPT !.pc = "create", !.goal = goal, !.issue = i]
            Writes(i, k, c) == [Idle EXCEPT !.pc = "write", !.goal = "write", !.issue = i,
                                            !.kind = k, !.content = c]
            Reports(i, c) == [Idle EXCEPT !.pc = "report", !.goal = "verify", !.issue = i,
                                          !.kind = Verify, !.content = c]
            Gates(i, goal, p) == [Idle EXCEPT !.pc = "legal", !.goal = goal, !.issue = i,
                                              !.phase = p]
<1>1. op \in [Workers -> Ops] /\ UNCHANGED <<changes, journal>>
  BY DEF IInv, TypeOK, Request, StartChange, WriteArtifact, SubmitVerifyReport, AdvancePhase,
         Archive, tables
<1>2. ASSUME NEW o, Begin(w, o) PROVE op'[w] = o /\ \A v \in Workers : v # w => op'[v] = op[v]
  BY <1>1, <1>2 DEF Begin, Move
<1>3. ASSUME NEW i \in Issues, NEW goal, StartChange(w, i, goal) PROVE Single(w)
  <2>1. Begin(w, Opens(i, goal)) /\ Opens(i, goal).pc = "create"
    BY <1>3 DEF StartChange, Idle
  <2>2. Current(w)'
    BY <1>2, <2>1 DEF Current
  <2>. QED
    BY <1>1, <1>2, <2>1, <2>2, SingleRead
<1>4. ASSUME NEW i \in Issues, NEW k, NEW c, WriteArtifact(w, i, k, c) PROVE Single(w)
  <2>1. Active(i) /\ k \in Phases /\ Begin(w, Writes(i, k, c))
    BY <1>4 DEF WriteArtifact
  <2>2. /\ Writes(i, k, c).pc = "write" /\ Writes(i, k, c).goal = "write"
        /\ Writes(i, k, c).issue = i /\ Writes(i, k, c).kind = k
    BY DEF Idle
  <2>3. Active(i)'
    BY <1>1, <2>1 DEF Active
  <2>4. Current(w)'
    BY <1>2, <2>1, <2>2, <2>3 DEF Current
  <2>. QED
    BY <1>1, <1>2, <2>1, <2>4, SingleRead
<1>5. ASSUME NEW i \in Issues, NEW c, SubmitVerifyReport(w, i, c) PROVE Single(w)
  <2>0. ContentsOf(Verify) = {"pass", "fail"}
    BY NAssumption DEF ContentsOf, Verify
  <2>1. Active(i) /\ c \in {"pass", "fail"} /\ Begin(w, Reports(i, c))
    BY <1>5, <2>0 DEF SubmitVerifyReport
  <2>2. /\ Reports(i, c).pc = "report" /\ Reports(i, c).goal = "verify"
        /\ Reports(i, c).issue = i /\ Reports(i, c).content = c
    BY DEF Idle
  <2>3. Active(i)'
    BY <1>1, <2>1 DEF Active
  <2>4. Current(w)'
    BY <1>2, <2>1, <2>2, <2>3 DEF Current
  <2>. QED
    BY <1>1, <1>2, <2>1, <2>4, SingleRead
<1>6. ASSUME NEW i \in Issues, AdvancePhase(w, i) \/ Archive(w, i) PROVE Single(w)
  <2>1. PICK goal, p :
          /\ goal \in {"advance", "archive"} /\ p = changes[i].phase
          /\ Active(i) /\ Begin(w, Gates(i, goal, p))
    BY <1>6 DEF AdvancePhase, Archive
  <2>2. /\ Gates(i, goal, p).pc = "legal" /\ Gates(i, goal, p).goal = goal
        /\ Gates(i, goal, p).issue = i /\ Gates(i, goal, p).phase = p
    BY DEF Idle
  <2>3. Active(i)' /\ p = changes'[i].phase
    BY <1>1, <2>1 DEF Active
  <2>4. Current(w)'
    BY <1>2, <2>1, <2>2, <2>3 DEF Current
  <2>. QED
    BY <1>1, <1>2, <2>1, <2>4, SingleRead
<1>. QED
  BY <1>3, <1>4, <1>5, <1>6 DEF Request

\* A refusal ends the request, or leaves the splitter to give the change up.
LEMMA SingleRefuse ==
  ASSUME IInv, NEW w \in Workers, Current(w), Refuse(w), UNCHANGED <<changes, journal>>,
         op[w].pc \notin {"idle", "create", "fail"}
  PROVE  Single(w)
<1>1. op \in [Workers -> Ops] /\ ControlOK(w)
  BY DEF IInv, TypeOK
<1>2. /\ \A v \in Workers : v # w => op'[v] = op[v]
      /\ \/ op'[w] = Idle
         \/ op[w].goal = "split" /\ op'[w].pc = "fail" /\ SameLocals(w)
  BY <1>1, RefuseFacts
<1>3. CASE op[w].goal = "split" /\ op'[w].pc = "fail" /\ SameLocals(w)
  <2>1. op[w].pc \notin {"wake", "notify"}
    BY <1>1, <1>3 DEF ControlOK
  <2>2. Exists(op[w].issue) => Active(op[w].issue) /\ op[w].phase = changes[op[w].issue].phase
    BY <1>3, <2>1 DEF Current
  <2>3. Current(w)'
    BY <1>3, <2>2 DEF Current, SameLocals, Exists, Active
  <2>. QED
    BY <1>2, <2>3, SingleRead
<1>. QED
  BY <1>2, <1>3, IdleCurrent, SingleRead

LEMMA SingleDone ==
  ASSUME IInv, NEW w \in Workers, Done(w), UNCHANGED <<changes, journal>>
  PROVE  Single(w)
<1>1. op'[w] = Idle /\ \A v \in Workers : v # w => op'[v] = op[v]
  BY DoneFacts DEF IInv, TypeOK
<1>. QED
  BY <1>1, IdleCurrent, SingleRead

\* The row of a change is written and no other.
LEMMA UpdateFacts ==
  ASSUME TypeOK, NEW i \in Issues, NEW p, NEW s, UpdateChange(i, p, s)
  PROVE  /\ changes'[i] = [phase |-> p, status |-> s]
         /\ \A j \in Issues : j # i => changes'[j] = changes[j]
  BY DEF TypeOK, UpdateChange

LEMMA SingleInsert ==
  ASSUME TypeOK, UNCHANGED changes, NEW w \in Workers, op[w].issue \in Issues,
         NEW row \in Rows, Insert(op[w].issue, row), RowAdded(op[w].issue),
         \A v \in Workers : v # w => op'[v] = op[v], Current(w)'
  PROVE  Single(w)
<1>1. \A j \in Issues : j # op[w].issue => Quiet(j)
  BY InsertFacts DEF Quiet
<1>. QED
  BY <1>1 DEF Single, Effect

LEMMA SingleUpdate ==
  ASSUME TypeOK, UNCHANGED journal, NEW w \in Workers, op[w].issue \in Issues,
         NEW p, NEW s, UpdateChange(op[w].issue, p, s), Sets(op[w].issue, p, s) => Effect(op[w].issue),
         \A v \in Workers : v # w => op'[v] = op[v], Current(w)'
  PROVE  Single(w)
<1>1. /\ Sets(op[w].issue, p, s)
      /\ \A j \in Issues : j # op[w].issue => Quiet(j)
  BY UpdateFacts DEF Quiet, Sets
<1>. QED
  BY <1>1 DEF Single

LEMMA SingleCreateChange ==
  ASSUME IInv, CInv, NEW w \in Workers, CreateChange(w)
  PROVE  Single(w)
<1>0. PICK i : i = op[w].issue
  OBVIOUS
<1>1. /\ TypeOK /\ op \in [Workers -> Ops] /\ i \in Issues /\ op[w].phase = 1
      /\ op[w].pc = "create" /\ UNCHANGED journal
  BY <1>0 DEF IInv, TypeOK, ControlOK, CreateChange, At
<1>2. CASE Done(w) /\ UNCHANGED changes
  BY <1>1, <1>2, SingleDone
<1>3. CASE changes[i].status = "none" /\ UpdateChange(i, 1, "active")
  <2>1. Sets(i, 1, "active") => Effect(i)
    BY <1>3 DEF Effect, Opened
  <2>2. CASE Done(w)
    BY <1>0, <1>1, <1>3, <2>1, <2>2, DoneFacts, IdleCurrent, SingleUpdate
  <2>3. CASE Goto(w, "generate")
    <3>1. /\ op'[w].pc = "generate" /\ SameLocals(w)
          /\ \A v \in Workers : v # w => op'[v] = op[v]
      BY <1>1, <2>3, GotoFacts DEF PCs
    <3>2. changes'[i] = [phase |-> 1, status |-> "active"]
      BY <1>1, <1>3, UpdateFacts
    <3>3. Current(w)'
      BY <1>0, <1>1, <3>1, <3>2 DEF Current, SameLocals, Active
    <3>. QED
      BY <1>0, <1>1, <1>3, <2>1, <3>1, <3>3, SingleUpdate
  <2>. QED
    BY <1>0, <1>3, <2>2, <2>3 DEF CreateChange
<1>. QED
  BY <1>0, <1>2, <1>3 DEF CreateChange

LEMMA SingleGenerate ==
  ASSUME IInv, NEW w \in Workers, Current(w), Generate(w)
  PROVE  Single(w)
<1>1. /\ op \in [Workers -> Ops] /\ op[w].pc = "generate" /\ op[w].goal = "split"
      /\ UNCHANGED <<changes, journal>>
  BY DEF IInv, TypeOK, ControlOK, SplitPCs, Generate, At, tables
<1>2. PICK pc \in {"save", "fail"} : Goto(w, pc)
  BY DEF Generate
<1>3. op'[w].pc = pc /\ SameLocals(w) /\ \A v \in Workers : v # w => op'[v] = op[v]
  BY <1>1, <1>2, GotoFacts DEF PCs
<1>4. Current(w)'
  BY <1>1, <1>3 DEF Current, SameLocals, Exists, Active
<1>. QED
  BY <1>1, <1>3, <1>4, SingleRead

LEMMA SingleSaveGenerated ==
  ASSUME IInv, NEW w \in Workers, Current(w), SaveGenerated(w)
  PROVE  Single(w)
<1>0. PICK i, p, c, o : /\ i = op[w].issue /\ p = op[w].phase
                        /\ c = IF p = N THEN "plan" ELSE "text"
                        /\ o = [op[w] EXCEPT !.pc = IF p = N THEN "bind" ELSE "handoff",
                                             !.content = c, !.row = Len(journal[i]) + 1]
  OBVIOUS
<1>1. /\ TypeOK /\ op \in [Workers -> Ops] /\ i \in Issues /\ op[w].pc = "save"
      /\ op[w].goal = "split" /\ UNCHANGED changes /\ p \in Phases /\ c \in Contents
  BY <1>0 DEF IInv, TypeOK, ControlOK, SplitPCs, SaveGenerated, At, Ops, Contents
<1>2. CASE ~Exists(i)
  BY <1>0, <1>1, <1>2, SingleRefuse DEF SaveGenerated
<1>3. CASE Exists(i)
  <2>1. Insert(i, Artifact(p, c)) /\ Move(w, o)
    BY <1>0, <1>3 DEF SaveGenerated
  <2>2. Active(i) /\ p = changes[i].phase
    BY <1>0, <1>1, <1>3 DEF Current
  <2>3. o.pc \in {"bind", "handoff"} /\ o.issue = i /\ o.phase = p
    BY <1>0, <1>1 DEF Ops
  <2>4. op'[w] = o /\ \A v \in Workers : v # w => op'[v] = op[v]
    BY <1>1, <2>1 DEF Move
  <2>5. Current(w)'
    BY <1>1, <2>2, <2>3, <2>4 DEF Current, Active
  <2>6. RowAdded(i) /\ Artifact(p, c) \in Rows
    BY <1>1, <2>1, <2>2, ArtifactType DEF RowAdded, Kinds
  <2>. QED
    BY <1>0, <1>1, <2>1, <2>4, <2>5, <2>6, SingleInsert
<1>. QED
  BY <1>2, <1>3

LEMMA SingleSplitHandoff ==
  ASSUME IInv, NEW w \in Workers, Current(w), SplitHandoff(w)
  PROVE  Single(w)
<1>0. PICK i, p : i = op[w].issue /\ p = op[w].phase
  OBVIOUS
<1>1. /\ TypeOK /\ op \in [Workers -> Ops] /\ i \in Issues /\ op[w].pc = "handoff"
      /\ op[w].goal = "split" /\ UNCHANGED changes /\ p \in Phases /\ p < N
  BY <1>0 DEF IInv, TypeOK, ControlOK, SplitPCs, SplitHandoff, At, Ops
<1>2. CASE ~Exists(i)
  BY <1>0, <1>1, <1>2, SingleRefuse DEF SplitHandoff
<1>3. CASE Exists(i)
  <2>1. Insert(i, Handoff(p + 1)) /\ Goto(w, "update")
    BY <1>0, <1>3 DEF SplitHandoff
  <2>2. Active(i) /\ p = changes[i].phase
    BY <1>0, <1>1, <1>3 DEF Current
  <2>3. op'[w].pc = "update" /\ SameLocals(w) /\ \A v \in Workers : v # w => op'[v] = op[v]
    BY <1>1, <2>1, GotoFacts DEF PCs
  <2>4. Current(w)'
    BY <1>0, <1>1, <2>2, <2>3 DEF Current, SameLocals, Active
  <2>5. RowAdded(i)
    BY <1>1, <2>1, <2>2 DEF RowAdded
  <2>6. p + 1 \in Phases
    BY <1>1, NAssumption DEF Phases
  <2>. QED
    BY <1>0, <1>1, <2>1, <2>3, <2>4, <2>5, <2>6, HandoffType, SingleInsert
<1>. QED
  BY <1>2, <1>3

LEMMA SingleSplitUpdate ==
  ASSUME IInv, NEW w \in Workers, Current(w), SplitUpdate(w)
  PROVE  Single(w)
<1>0. PICK i, p : i = op[w].issue /\ p = op[w].phase
  OBVIOUS
<1>1. /\ TypeOK /\ op \in [Workers -> Ops] /\ i \in Issues /\ op[w].pc = "update"
      /\ op[w].goal = "split" /\ UNCHANGED journal /\ p \in Phases /\ p < N /\ RowsOK(w)
  BY <1>0 DEF IInv, TypeOK, ControlOK, SplitPCs, SplitUpdate, At, Ops
<1>2. Exists(i) => Active(i) /\ p = changes[i].phase /\ Legal(i, p)
  BY <1>0, <1>1 DEF Current, RowsOK
<1>3. ASSUME NEW pc \in {"generate", "fail"},
             Move(w, [op[w] EXCEPT !.pc = pc, !.phase = p + 1])
      PROVE  /\ op'[w].pc = pc /\ op'[w].issue = i /\ op'[w].goal = "split"
             /\ op'[w].phase = p + 1
             /\ \A v \in Workers : v # w => op'[v] = op[v]
  <2>. DEFINE o == [op[w] EXCEPT !.pc = pc, !.phase = p + 1]
  <2>1. o.pc = pc /\ o.issue = i /\ o.goal = "split" /\ o.phase = p + 1
    BY <1>0, <1>1 DEF Ops
  <2>2. op'[w] = o /\ \A v \in Workers : v # w => op'[v] = op[v]
    BY <1>1, <1>3 DEF Move
  <2>. QED
    BY <2>1, <2>2
<1>4. CASE Exists(i) /\ UpdateChange(i, p + 1, "active")
           /\ Move(w, [op[w] EXCEPT !.pc = "generate", !.phase = p + 1])
  <2>1. changes'[i] = [phase |-> p + 1, status |-> "active"]
    BY <1>1, <1>4, UpdateFacts
  <2>2. /\ op'[w].pc = "generate" /\ op'[w].issue = i /\ op'[w].goal = "split"
        /\ op'[w].phase = p + 1
        /\ \A v \in Workers : v # w => op'[v] = op[v]
    BY <1>3, <1>4
  <2>3. Current(w)'
    BY <2>1, <2>2 DEF Current, Active
  <2>4. Entering(i)
    BY <1>0, <1>1 DEF Entering
  <2>5. Sets(i, p + 1, "active") => Effect(i)
    BY <1>1, <1>2, <1>4, <2>4 DEF Effect, Advanced
  <2>. QED
    BY <1>0, <1>1, <1>4, <2>2, <2>3, <2>5, SingleUpdate
<1>5. CASE UNCHANGED changes /\ Move(w, [op[w] EXCEPT !.pc = "fail", !.phase = p + 1])
  <2>1. /\ op'[w].pc = "fail" /\ op'[w].issue = i /\ op'[w].goal = "split"
        /\ op'[w].phase = p + 1
        /\ \A v \in Workers : v # w => op'[v] = op[v]
    BY <1>3, <1>5
  <2>2. Current(w)'
    BY <1>2, <1>5, <2>1 DEF Current, Exists, Active
  <2>. QED
    BY <1>1, <1>5, <2>1, <2>2, SingleRead
<1>. QED
  BY <1>0, <1>4, <1>5 DEF SplitUpdate

LEMMA SingleFailChange ==
  ASSUME IInv, NEW w \in Workers, Current(w), FailChange(w)
  PROVE  Single(w)
<1>0. PICK i, p : i = op[w].issue /\ p = op[w].phase
  OBVIOUS
<1>1. /\ TypeOK /\ op \in [Workers -> Ops] /\ i \in Issues /\ op[w].pc = "fail"
      /\ op[w].goal = "split" /\ UNCHANGED journal /\ p \in Phases /\ Done(w) /\ RowsOK(w)
  BY <1>0 DEF IInv, TypeOK, ControlOK, SplitPCs, FailChange, At, Ops
<1>2. CASE ~Exists(i)
  <2>1. UNCHANGED changes
    BY <1>0, <1>2 DEF FailChange
  <2>. QED
    BY <1>1, <2>1, SingleDone
<1>3. CASE Exists(i)
  <2>1. UpdateChange(i, p, "failed")
    BY <1>0, <1>3 DEF FailChange
  <2>2. Active(i) /\ p \in {changes[i].phase, changes[i].phase + 1} /\ Backed(i, p)
    BY <1>0, <1>1, <1>3 DEF Current, RowsOK
  <2>3. Entering(i)
    BY <1>0, <1>1 DEF Entering
  <2>4. changes[i].phase \in Phases /\ (p = changes[i].phase + 1 =>
          changes[i].phase < N /\ Legal(i, changes[i].phase))
    BY <1>1, <2>2, NAssumption DEF TypeOK, Phases, Backed, Legal
  <2>5. Sets(i, p, "failed") => Effect(i)
    BY <2>2, <2>3, <2>4 DEF Effect, GaveUp
  <2>. QED
    BY <1>0, <1>1, <2>1, <2>5, DoneFacts, IdleCurrent, SingleUpdate
<1>. QED
  BY <1>2, <1>3

LEMMA SingleSaveArtifact ==
  ASSUME IInv, NEW w \in Workers, Current(w), SaveArtifact(w)
  PROVE  Single(w)
<1>0. PICK i, k, c, o : /\ i = op[w].issue /\ k = op[w].kind /\ c = op[w].content
                        /\ o = [op[w] EXCEPT !.pc = "bind", !.row = Len(journal[i]) + 1]
  OBVIOUS
<1>1. /\ TypeOK /\ op \in [Workers -> Ops] /\ i \in Issues /\ op[w].pc = "write"
      /\ op[w].goal = "write" /\ UNCHANGED changes /\ k \in Phases /\ c \in Contents
  BY <1>0 DEF IInv, TypeOK, ControlOK, SaveArtifact, At, Ops, Current
<1>2. CASE ~Exists(i)
  <2>1. Done(w) /\ UNCHANGED journal
    BY <1>0, <1>2 DEF SaveArtifact
  <2>. QED
    BY <1>1, <2>1, SingleDone
<1>3. CASE Exists(i)
  <2>1. Insert(i, Artifact(k, c)) /\ (Move(w, o) \/ Done(w))
    BY <1>0, <1>3 DEF SaveArtifact
  <2>2. Active(i)
    BY <1>0, <1>1, <1>3 DEF Current
  <2>3. o.pc = "bind" /\ o.issue = i /\ o.goal = "write"
    BY <1>0, <1>1 DEF Ops
  <2>4. (op'[w] = o \/ op'[w] = Idle) /\ \A v \in Workers : v # w => op'[v] = op[v]
    BY <1>1, <2>1, DoneFacts DEF Move
  <2>5. ASSUME op'[w] = o PROVE Current(w)'
    BY <1>1, <2>2, <2>3, <2>5 DEF Current, Active
  <2>6. RowAdded(i) /\ Artifact(k, c) \in Rows
    BY <1>1, <2>1, <2>2, ArtifactType DEF RowAdded, Kinds
  <2>. QED
    BY <1>0, <1>1, <2>1, <2>4, <2>5, <2>6, IdleCurrent, SingleInsert
<1>. QED
  BY <1>2, <1>3

LEMMA SingleSaveReport ==
  ASSUME IInv, NEW w \in Workers, Current(w), SaveReport(w)
  PROVE  Single(w)
<1>0. PICK i, c : i = op[w].issue /\ c = op[w].content
  OBVIOUS
<1>1. /\ TypeOK /\ i \in Issues /\ op[w].pc = "report" /\ c \in {"pass", "fail"}
      /\ UNCHANGED changes /\ Done(w)
  BY <1>0 DEF IInv, ControlOK, SaveReport, At, Current
<1>2. CASE ~Exists(i)
  <2>1. UNCHANGED journal
    BY <1>0, <1>2 DEF SaveReport
  <2>. QED
    BY <1>1, <2>1, SingleDone
<1>3. CASE Exists(i)
  <2>1. Insert(i, Artifact(Verify, c))
    BY <1>0, <1>3 DEF SaveReport
  <2>2. Active(i)
    BY <1>0, <1>1, <1>3 DEF Current
  <2>3. RowAdded(i) /\ Artifact(Verify, c) \in Rows
    BY <1>1, <2>1, <2>2, ArtifactType DEF RowAdded, Kinds, Contents
  <2>4. op'[w] = Idle /\ \A v \in Workers : v # w => op'[v] = op[v]
    BY <1>1, DoneFacts DEF TypeOK
  <2>. QED
    BY <1>0, <1>1, <2>1, <2>3, <2>4, IdleCurrent, SingleInsert
<1>. QED
  BY <1>2, <1>3

\* What follows the tasks artifact writes sub-issues and mappings only.
LEMMA SingleBinding ==
  ASSUME IInv, NEW w \in Workers, Current(w),
         CreateSubIssue(w) \/ BindRefused(w) \/ ClearMappings(w) \/ SetTaskMappings(w)
  PROVE  Single(w)
<1>1. /\ TypeOK /\ op \in [Workers -> Ops] /\ op[w].issue \in Issues
      /\ op[w].pc \in {"bind", "map", "insert"} /\ UNCHANGED <<changes, journal>>
  BY DEF IInv, TypeOK, ControlOK, CreateSubIssue, BindRefused, ClearMappings, SetTaskMappings, At,
         tables
<1>2. CASE Done(w)
  BY <1>1, <1>2, SingleDone
<1>3. CASE Refuse(w)
  BY <1>1, <1>3, SingleRefuse
<1>4. CASE CreateSubIssue(w) \/ ClearMappings(w)
  <2>1. PICK o : /\ op'[w] = o /\ \A v \in Workers : v # w => op'[v] = op[v]
                 /\ o.pc \in {"bind", "map", "insert"} /\ o.issue = op[w].issue
                 /\ o.goal = op[w].goal /\ o.phase = op[w].phase
    BY <1>4, CreateFacts, ClearFacts
  <2>2. Current(w)'
    BY <1>1, <2>1 DEF Current, Exists, Active
  <2>. QED
    BY <1>1, <2>1, <2>2, SingleRead
<1>. QED
  BY <1>2, <1>3, <1>4 DEF BindRefused, SetTaskMappings

LEMMA SinglePhaseLegal ==
  ASSUME IInv, NEW w \in Workers, Current(w), CheckPhaseLegal(w)
  PROVE  Single(w)
<1>0. PICK i, p : i = op[w].issue /\ p = op[w].phase
  OBVIOUS
<1>1. /\ op \in [Workers -> Ops] /\ op[w].pc = "legal" /\ op[w].goal \in {"advance", "archive"}
      /\ UNCHANGED <<changes, journal>>
  BY DEF IInv, TypeOK, ControlOK, GatePCs, CheckPhaseLegal, At, tables
<1>2. CASE Done(w)
  BY <1>1, <1>2, SingleDone
<1>3. CASE ~Done(w)
  <2>1. PICK pc \in {"entry", "record", "verdict"} :
          Goto(w, pc) /\ PhaseLegal(i, p) /\ (pc = "entry" \/ p = 1)
    BY <1>0, <1>3 DEF CheckPhaseLegal, PastHandoffGate
  <2>2. op'[w].pc = pc /\ SameLocals(w) /\ \A v \in Workers : v # w => op'[v] = op[v]
    BY <1>1, <2>1, GotoFacts DEF PCs
  <2>3. Exists(i) => Active(i) /\ p = changes[i].phase
    BY <1>0, <1>1 DEF Current
  <2>4. p = 1 => HandoffFresh(i, p)
    BY DEF HandoffFresh
  <2>5. Current(w)'
    BY <1>0, <1>1, <2>1, <2>2, <2>3, <2>4, UnwrittenQuiet, SameGates DEF Current, SameLocals
  <2>. QED
    BY <1>1, <2>2, <2>5, SingleRead
<1>. QED
  BY <1>2, <1>3

LEMMA SingleEntryHandoff ==
  ASSUME IInv, NEW w \in Workers, Current(w), CheckEntryHandoff(w)
  PROVE  Single(w)
<1>0. PICK i, p, h, o : /\ i = op[w].issue /\ p = op[w].phase /\ h = Latest(HandoffsOf(i))
                        /\ o = [op[w] EXCEPT !.pc = "fresh", !.row = h]
  OBVIOUS
<1>1. /\ op \in [Workers -> Ops] /\ op[w].pc = "entry" /\ op[w].goal \in {"advance", "archive"}
      /\ UNCHANGED <<changes, journal>>
  BY DEF IInv, TypeOK, ControlOK, GatePCs, CheckEntryHandoff, At, tables
<1>2. CASE Done(w)
  BY <1>1, <1>2, SingleDone
<1>3. CASE ~Done(w)
  <2>1. Move(w, o) /\ EnteredBy(i, p, h)
    BY <1>0, <1>3 DEF CheckEntryHandoff, EnteredBy
  <2>2. o.pc = "fresh" /\ o.issue = i /\ o.phase = p /\ o.row = h /\ o.goal = op[w].goal
    BY <1>0, <1>1 DEF Ops
  <2>3. op'[w] = o /\ \A v \in Workers : v # w => op'[v] = op[v]
    BY <1>1, <2>1 DEF Move
  <2>4. Exists(i) => Active(i) /\ p = changes[i].phase /\ PhaseLegal(i, p)
    BY <1>0, <1>1 DEF Current
  <2>5. Current(w)'
    BY <1>1, <2>1, <2>2, <2>3, <2>4, UnwrittenQuiet, SameGates DEF Current
  <2>. QED
    BY <1>1, <2>3, <2>5, SingleRead
<1>. QED
  BY <1>2, <1>3

LEMMA SingleHandoffFresh ==
  ASSUME IInv, NEW w \in Workers, Current(w), CheckHandoffFresh(w)
  PROVE  Single(w)
<1>0. PICK i, p, o : /\ i = op[w].issue /\ p = op[w].phase
                     /\ o = [op[w] EXCEPT !.pc = PastHandoffGate(w), !.row = 0]
  OBVIOUS
<1>1. /\ op \in [Workers -> Ops] /\ op[w].pc = "fresh" /\ op[w].goal \in {"advance", "archive"}
      /\ UNCHANGED <<changes, journal>>
  BY DEF IInv, TypeOK, ControlOK, GatePCs, CheckHandoffFresh, At, tables
<1>2. CASE Done(w)
  BY <1>1, <1>2, SingleDone
<1>3. CASE ~Done(w)
  <2>1. Move(w, o) /\ Undisturbed(i, p, op[w].row)
    BY <1>0, <1>3 DEF CheckHandoffFresh
  <2>2. o.pc \in {"record", "verdict"} /\ o.issue = i /\ o.phase = p /\ o.goal = op[w].goal
    BY <1>0, <1>1 DEF Ops, PastHandoffGate
  <2>3. op'[w] = o /\ \A v \in Workers : v # w => op'[v] = op[v]
    BY <1>1, <2>1 DEF Move
  <2>4. Exists(i) => /\ Active(i) /\ p = changes[i].phase /\ PhaseLegal(i, p)
                     /\ EnteredBy(i, p, op[w].row)
    BY <1>0, <1>1 DEF Current
  <2>5. Exists(i) => HandoffFresh(i, p)
    BY <2>1, <2>4 DEF HandoffFresh, EnteredBy
  <2>6. Current(w)'
    BY <1>1, <2>2, <2>3, <2>4, <2>5, UnwrittenQuiet, SameGates DEF Current
  <2>. QED
    BY <1>1, <2>3, <2>6, SingleRead
<1>. QED
  BY <1>2, <1>3

LEMMA SingleRecordHandoff ==
  ASSUME IInv, NEW w \in Workers, Current(w), RecordHandoff(w)
  PROVE  Single(w)
<1>0. PICK i, p : i = op[w].issue /\ p = op[w].phase
  OBVIOUS
<1>1. /\ TypeOK /\ op \in [Workers -> Ops] /\ i \in Issues /\ op[w].pc = "record"
      /\ op[w].goal = "advance" /\ UNCHANGED changes /\ p \in Phases /\ p < N
  BY <1>0 DEF IInv, TypeOK, ControlOK, RecordHandoff, At, Ops
<1>2. CASE ~Exists(i)
  <2>1. Done(w) /\ UNCHANGED journal
    BY <1>0, <1>2 DEF RecordHandoff
  <2>. QED
    BY <1>1, <2>1, SingleDone
<1>3. CASE Exists(i)
  <2>1. Insert(i, Handoff(p + 1)) /\ Goto(w, "enter")
    BY <1>0, <1>3 DEF RecordHandoff
  <2>2. Active(i) /\ p = changes[i].phase
    BY <1>0, <1>1, <1>3 DEF Current
  <2>3. op'[w].pc = "enter" /\ SameLocals(w) /\ \A v \in Workers : v # w => op'[v] = op[v]
    BY <1>1, <2>1, GotoFacts DEF PCs
  <2>4. Current(w)'
    BY <1>0, <1>1, <2>2, <2>3 DEF Current, SameLocals, Active
  <2>5. RowAdded(i)
    BY <1>1, <2>1, <2>2 DEF RowAdded
  <2>6. p + 1 \in Phases
    BY <1>1, NAssumption DEF Phases
  <2>. QED
    BY <1>0, <1>1, <2>1, <2>3, <2>4, <2>5, <2>6, HandoffType, SingleInsert
<1>. QED
  BY <1>2, <1>3

LEMMA SingleEnterPhase ==
  ASSUME IInv, NEW w \in Workers, Current(w), EnterPhase(w)
  PROVE  Single(w)
<1>0. PICK i, p : i = op[w].issue /\ p = op[w].phase
  OBVIOUS
<1>1. /\ TypeOK /\ op \in [Workers -> Ops] /\ i \in Issues /\ op[w].pc = "enter"
      /\ op[w].goal = "advance" /\ UNCHANGED journal /\ p < N /\ Done(w) /\ RowsOK(w)
  BY <1>0 DEF IInv, TypeOK, ControlOK, EnterPhase, At
<1>2. CASE ~Exists(i)
  <2>1. UNCHANGED changes
    BY <1>0, <1>2 DEF EnterPhase
  <2>. QED
    BY <1>1, <2>1, SingleDone
<1>3. CASE Exists(i)
  <2>1. UpdateChange(i, p + 1, "active")
    BY <1>0, <1>3 DEF EnterPhase
  <2>2. Active(i) /\ p = changes[i].phase /\ Legal(i, p) /\ Entering(i)
    BY <1>0, <1>1, <1>3 DEF Current, RowsOK, Entering
  <2>3. Sets(i, p + 1, "active") => Effect(i)
    BY <1>1, <2>2 DEF Effect, Advanced
  <2>. QED
    BY <1>0, <1>1, <2>1, <2>3, DoneFacts, IdleCurrent, SingleUpdate
<1>. QED
  BY <1>2, <1>3

LEMMA SingleVerifyPassed ==
  ASSUME IInv, NEW w \in Workers, Current(w), CheckVerifyPassed(w)
  PROVE  Single(w)
<1>0. PICK i, p : i = op[w].issue /\ p = op[w].phase
  OBVIOUS
<1>1. /\ op \in [Workers -> Ops] /\ op[w].pc = "verdict" /\ op[w].goal = "archive"
      /\ UNCHANGED <<changes, journal>>
  BY DEF IInv, TypeOK, ControlOK, CheckVerifyPassed, At, tables
<1>2. CASE Done(w)
  BY <1>1, <1>2, SingleDone
<1>3. CASE ~Done(w)
  <2>1. Goto(w, "close") /\ VerifyPassed(i)
    BY <1>0, <1>3 DEF CheckVerifyPassed
  <2>2. op'[w].pc = "close" /\ SameLocals(w) /\ \A v \in Workers : v # w => op'[v] = op[v]
    BY <1>1, <2>1, GotoFacts DEF PCs
  <2>3. Exists(i) => /\ Active(i) /\ p = changes[i].phase /\ PhaseLegal(i, p)
                     /\ HandoffFresh(i, p)
    BY <1>0, <1>1 DEF Current
  <2>4. Current(w)'
    BY <1>0, <1>1, <2>1, <2>2, <2>3, UnwrittenQuiet, SameGates DEF Current, SameLocals
  <2>. QED
    BY <1>1, <2>2, <2>4, SingleRead
<1>. QED
  BY <1>2, <1>3

LEMMA SingleCloseChange ==
  ASSUME IInv, NEW w \in Workers, Current(w), CloseChange(w)
  PROVE  Single(w)
<1>0. PICK i : i = op[w].issue
  OBVIOUS
<1>1. /\ TypeOK /\ op \in [Workers -> Ops] /\ i \in Issues /\ op[w].pc = "close"
      /\ op[w].goal = "archive" /\ op[w].phase = N /\ UNCHANGED journal
  BY <1>0 DEF IInv, TypeOK, ControlOK, GatePCs, CloseChange, At
<1>2. CASE ~Exists(i)
  <2>1. UNCHANGED changes /\ Done(w)
    BY <1>0, <1>2 DEF CloseChange
  <2>. QED
    BY <1>1, <2>1, SingleDone
<1>3. CASE Exists(i)
  <2>1. UpdateChange(i, N, "archived") /\ Goto(w, "wake")
    BY <1>0, <1>1, <1>3 DEF CloseChange
  <2>2. Active(i) /\ N = changes[i].phase /\ GatesOpen(i)
    BY <1>0, <1>1, <1>3 DEF Current, GatesOpen
  <2>3. op'[w].pc = "wake" /\ \A v \in Workers : v # w => op'[v] = op[v]
    BY <1>1, <2>1, GotoFacts DEF PCs
  <2>4. Current(w)'
    BY <2>3 DEF Current
  <2>5. Sets(i, N, "archived") => Effect(i)
    BY <2>2 DEF Effect, Archived
  <2>. QED
    BY <1>0, <1>1, <2>1, <2>3, <2>4, <2>5, SingleUpdate
<1>. QED
  BY <1>2, <1>3

LEMMA SingleWakeup ==
  ASSUME IInv, NEW w \in Workers, WakeParent(w) \/ NotifyParent(w)
  PROVE  Single(w)
<1>1. op \in [Workers -> Ops] /\ UNCHANGED <<changes, journal>> /\ (Done(w) \/ Goto(w, "notify"))
  BY DEF IInv, TypeOK, WakeParent, NotifyParent
<1>2. CASE Done(w)
  BY <1>1, <1>2, SingleDone
<1>3. CASE Goto(w, "notify")
  <2>1. op'[w].pc = "notify" /\ \A v \in Workers : v # w => op'[v] = op[v]
    BY <1>1, <1>3, GotoFacts DEF PCs
  <2>2. Current(w)'
    BY <2>1 DEF Current
  <2>. QED
    BY <1>1, <2>1, <2>2, SingleRead
<1>. QED
  BY <1>1, <1>2, <1>3

LEMMA SingleStatementFails ==
  ASSUME IInv, NEW w \in Workers, Current(w), StatementFails(w)
  PROVE  Single(w)
<1>1. UNCHANGED <<changes, journal>> /\ op[w].pc # "idle"
  BY DEF StatementFails, tables
<1>2. CASE Done(w)
  BY <1>1, <1>2, SingleDone
<1>3. CASE ~Done(w)
  <2>1. Refuse(w) /\ op[w].pc \notin {"create", "fail"}
    BY <1>3 DEF StatementFails
  <2>. QED
    BY <1>1, <2>1, SingleRefuse
<1>. QED
  BY <1>2, <1>3

LEMMA DeleteEffect ==
  ASSUME IInv, CInv, NEW i \in Issues, DeleteIssue(i)
  PROVE  CInv' /\ OneEffect
<1>1. /\ UNCHANGED op /\ Deleted(i) /\ ~Exists(i)'
      /\ \A j \in Issues : j # i => Quiet(j)
  <2>1. TypeOK
    BY DEF IInv
  <2>2. changes'[i] = [phase |-> 1, status |-> "gone"] /\ journal'[i] = <<>>
    BY <2>1 DEF DeleteIssue, TypeOK
  <2>. QED
    BY <2>1, <2>2 DEF DeleteIssue, TypeOK, Deleted, Quiet, Exists
<1>2. ASSUME NEW v \in Workers PROVE Current(v)'
  <2>1. op[v].pc # "idle" => op[v].issue \in Issues
    BY DEF IInv, ControlOK
  <2>. QED
    BY <1>1, <2>1, OthersCurrent DEF IInv, CInv
<1>3. OneEffect
  BY <1>1 DEF OneEffect, Effect
<1>4. ASSUME NEW j \in Issues PROVE FirstOK(j)'
  BY <1>3, FirstStays DEF CInv, OneEffect
<1>. QED
  BY <1>2, <1>3, <1>4 DEF CInv

\* No worker moves, or every one is lost.
LEMMA QuietEffect ==
  ASSUME IInv, CInv, UNCHANGED tables, \A v \in Workers : op'[v] = op[v] \/ op'[v] = Idle
  PROVE  CInv' /\ OneEffect
<1>1. \A j : Quiet(j)
  BY DEF Quiet, tables
<1>2. ASSUME NEW v \in Workers PROVE Current(v)'
  BY <1>1, OthersCurrent, IdleCurrent DEF IInv, CInv
<1>3. \A j \in Issues : FirstOK(j)'
  BY <1>1, FirstStays DEF CInv
<1>. QED
  BY <1>1, <1>2, <1>3 DEF CInv, OneEffect

LEMMA AloneStep ==
  ASSUME IInv, CInv, Alone, [Next]_vars
  PROVE  CInv' /\ OneEffect
<1>1. CASE UNCHANGED vars
  BY <1>1, QuietEffect DEF vars, tables
<1>2. CASE Crash
  BY <1>2, QuietEffect DEF Crash
<1>3. ASSUME NEW w \in Workers, Request(w) PROVE CInv' /\ OneEffect
  BY <1>3, SingleRequest, SingleStep
<1>4. ASSUME NEW w \in Workers, Step(w) PROVE CInv' /\ OneEffect
  <2>1. Current(w)
    BY DEF CInv
  <2>2. Single(w)
    BY <1>4, <2>1, SingleCreateChange, SingleGenerate, SingleSaveGenerated, SingleSplitHandoff,
       SingleSplitUpdate, SingleFailChange, SingleSaveArtifact, SingleBinding, SingleSaveReport,
       SinglePhaseLegal, SingleEntryHandoff, SingleHandoffFresh, SingleRecordHandoff,
       SingleEnterPhase, SingleVerifyPassed, SingleCloseChange, SingleWakeup
    DEF Step
  <2>. QED
    BY <2>2, SingleStep
<1>5. ASSUME NEW w \in Workers, StatementFails(w) PROVE CInv' /\ OneEffect
  BY <1>5, SingleStatementFails, SingleStep DEF CInv
<1>6. ASSUME NEW i \in Issues, DeleteIssue(i) PROVE CInv' /\ OneEffect
  BY <1>6, DeleteEffect
<1>7. ASSUME NEW i \in Issues, NEW n \in DOMAIN subIssues[i], DeleteSubIssue(i, n)
      PROVE  CInv' /\ OneEffect
  <2>1. /\ \A j : Quiet(j)
        /\ \A v \in Workers : op'[v] = op[v]
    BY <1>7 DEF DeleteSubIssue, Quiet
  <2>2. ASSUME NEW v \in Workers PROVE Current(v)'
    BY <2>1, OthersCurrent DEF IInv, CInv
  <2>3. \A j \in Issues : FirstOK(j)'
    BY <2>1, FirstStays DEF CInv
  <2>. QED
    BY <2>1, <2>2, <2>3 DEF CInv, OneEffect
<1>. QED
  BY <1>1, <1>2, <1>3, <1>4, <1>5, <1>6, <1>7 DEF Next

LEMMA AloneInit == Init => CInv
<1>. SUFFICES ASSUME Init PROVE CInv
  OBVIOUS
<1>1. \A w \in Workers : Current(w)
  BY DEF Init, Current, Idle
<1>2. \A i \in Issues : FirstOK(i)
  BY DEF Init, FirstOK
<1>. QED
  BY <1>1, <1>2 DEF CInv

\* While requests about one change do not overlap, every copy is current.
THEOREM CopiesCurrent == Spec /\ []Alone => []CInv
<1>1. IInv /\ CInv /\ Alone /\ [Next]_vars => CInv'
  BY AloneStep
<1>. QED
  BY <1>1, AloneInit, Invariance, PTL DEF Spec

\* A change is archived only at a moment when all its gates are open.
THEOREM ArchivesOnOpenGates == Spec /\ []Alone => ArchivedOnOpenGates
<1>1. ASSUME IInv, CInv, Alone, [Next]_vars
      PROVE  [\A i \in Issues : changes[i].status # "archived" /\ changes'[i].status = "archived"
                => GatesOpen(i)]_vars
  <2>1. OneEffect
    BY <1>1, AloneStep
  <2>. SUFFICES ASSUME NEW i \in Issues, changes[i].status # "archived",
                       changes'[i].status = "archived"
                PROVE  GatesOpen(i)
    OBVIOUS
  <2>2. Effect(i)
    BY <2>1 DEF OneEffect, Quiet
  <2>. QED
    BY <2>2 DEF Effect, Opened, RowAdded, Advanced, Archived, GaveUp, Deleted, Sets, Active
<1>. QED
  BY <1>1, CopiesCurrent, Invariance, PTL DEF Spec, ArchivedOnOpenGates

\* The newest of some rows, when there are any.
LEMMA LatestOf ==
  ASSUME NEW n \in Nat, NEW S \in SUBSET (1..n), S # {}
  PROVE  Latest(S) \in S /\ \A q \in S : q <= Latest(S)
<1>. DEFINE T == {n - r : r \in S}
<1>0. \A r \in S : r \in Nat /\ n - r \in Nat
  OBVIOUS
<1>1. T \subseteq Nat /\ T # {}
  BY <1>0
<1>2. PICK x \in T : \A y \in T : ~ (<<y, x>> \in OpToRel(<, Nat))
  BY <1>1, NatLessThanWellFounded, WFMin
<1>3. ASSUME NEW y \in T PROVE x <= y
  <2>1. x \in Nat /\ y \in Nat /\ ~ (<<y, x>> \in {p \in Nat \X Nat : p[1] < p[2]})
    BY <1>1, <1>2 DEF OpToRel
  <2>. QED
    BY <2>1
<1>4. PICK r \in S : x = n - r
  OBVIOUS
<1>5. ASSUME NEW q \in S PROVE q <= r
  <2>1. x <= n - q
    BY <1>3
  <2>. QED
    BY <1>4, <2>1
<1>. QED
  BY <1>5 DEF Latest

\* A row that comes after all the others is the newest.
LEMMA LatestAdded ==
  ASSUME NEW n \in Nat, NEW S \in SUBSET (1..n)
  PROVE  Latest(S \union {n + 1}) = n + 1
<1>1. \A q \in S \union {n + 1} : q <= n + 1
  OBVIOUS
<1>2. \A r \in S \union {n + 1} : (\A q \in S \union {n + 1} : q <= r) => r = n + 1
  OBVIOUS
<1>. QED
  BY <1>1, <1>2 DEF Latest

\* What a new row does to the rows of each kind.
LEMMA RowsAfterInsert ==
  ASSUME TypeOK, NEW i \in Issues, NEW row \in Rows, Insert(i, row)
  PROVE  LET n == Len(journal[i]) IN
         /\ n \in Nat
         /\ \A k : ArtifactsOf(i, k) \subseteq 1..n
         /\ HandoffsOf(i) \subseteq 1..n
         /\ \A k : ArtifactsOf(i, k)' =
              IF row.table = "artifacts" /\ row.kind = k THEN ArtifactsOf(i, k) \union {n + 1}
                                                         ELSE ArtifactsOf(i, k)
         /\ HandoffsOf(i)' =
              IF row.table = "change_handoffs" THEN HandoffsOf(i) \union {n + 1}
                                               ELSE HandoffsOf(i)
         /\ journal'[i][n + 1] = row
         /\ \A r \in 1..n : journal'[i][r] = journal[i][r]
<1>. DEFINE n == Len(journal[i])
<1>1. journal[i] \in Seq(Rows)
  BY DEF TypeOK
<1>2. n \in Nat /\ DOMAIN journal[i] = 1..n
  BY <1>1
<1>3. /\ DOMAIN journal'[i] = 1..n \union {n + 1}
      /\ \A r \in 1..n : journal'[i][r] = journal[i][r]
      /\ journal'[i][n + 1] = row
  BY <1>2, InsertFacts
<1>4. (n + 1) \notin 1..n
  BY <1>2
<1>. HIDE DEF n
<1>5. \A k : ArtifactsOf(i, k) \subseteq 1..n
  BY <1>2 DEF ArtifactsOf
<1>6. HandoffsOf(i) \subseteq 1..n
  BY <1>2 DEF HandoffsOf
<1>7. ASSUME NEW k
      PROVE  ArtifactsOf(i, k)' =
               IF row.table = "artifacts" /\ row.kind = k THEN ArtifactsOf(i, k) \union {n + 1}
                                                          ELSE ArtifactsOf(i, k)
  BY <1>2, <1>3, <1>4 DEF ArtifactsOf
<1>8. HandoffsOf(i)' = IF row.table = "change_handoffs" THEN HandoffsOf(i) \union {n + 1}
                                                        ELSE HandoffsOf(i)
  BY <1>2, <1>3, <1>4 DEF HandoffsOf
<1>. QED
  BY <1>2, <1>3, <1>5, <1>6, <1>7, <1>8 DEF n

\* Once shut, the handoff gate of a change stays shut: it opens with a handoff
\* into the phase the change stands at, and such a handoff is only recorded
\* before the change gets there.
LEMMA ShutStays ==
  ASSUME IInv, NEW i \in Issues, Quiet(i) \/ Effect(i), Shut(i), Exists(i)'
  PROVE  ~HandoffFresh(i, changes[i].phase)'
<1>0. PICK p : p = changes[i].phase
  OBVIOUS
<1>1. TypeOK /\ p \in Phases /\ ~HandoffFresh(i, p) /\ Exists(i) /\ ~Entering(i)
  BY <1>0 DEF IInv, TypeOK, Shut
<1>2. CASE Quiet(i)
  BY <1>0, <1>1, <1>2 DEF Quiet, HandoffFresh, EnteredBy, HandoffsOf, Undisturbed,
                           ArtifactsListed, Present, ArtifactsOf
<1>3. CASE Archived(i)
  <2>1. journal'[i] = journal[i] /\ changes'[i].phase = p
    BY <1>0, <1>3 DEF Archived, Sets
  <2>. QED
    BY <1>1, <2>1 DEF HandoffFresh, EnteredBy, HandoffsOf, Undisturbed, ArtifactsListed, Present,
                      ArtifactsOf
<1>4. ASSUME NEW row \in Rows, Insert(i, row), changes'[i] = changes[i],
             row.table = "change_handoffs" => row.kind # p,
             row.table = "artifacts" => row.kind \in Kinds
      PROVE  ~HandoffFresh(i, p)'
  <2>. DEFINE n == Len(journal[i])
  <2>1. /\ n \in Nat
        /\ \A k : ArtifactsOf(i, k) \subseteq 1..n
        /\ HandoffsOf(i) \subseteq 1..n
        /\ \A k : ArtifactsOf(i, k) \subseteq ArtifactsOf(i, k)'
        /\ HandoffsOf(i)' =
             IF row.table = "change_handoffs" THEN HandoffsOf(i) \union {n + 1} ELSE HandoffsOf(i)
        /\ journal'[i][n + 1] = row
        /\ \A r \in 1..n : journal'[i][r] = journal[i][r]
    BY <1>1, <1>4, RowsAfterInsert
  <2>. HIDE DEF n
  <2>2. ArtifactsListed(i)' => ArtifactsListed(i)
    BY <2>1 DEF ArtifactsListed, Present
  <2>3. ASSUME NEW h, Undisturbed(i, p, h)' PROVE Undisturbed(i, p, h)
    BY <2>1, <2>2, <2>3 DEF Undisturbed
  <2>4. CASE row.table = "change_handoffs"
    <3>1. Latest(HandoffsOf(i)') = n + 1
      BY <2>1, <2>4, LatestAdded
    <3>2. \A h : ~EnteredBy(i, p, h)'
      BY <1>4, <2>1, <2>4, <3>1 DEF EnteredBy
    <3>. QED
      BY <1>1, <3>2 DEF HandoffFresh
  <2>5. CASE row.table # "change_handoffs"
    <3>1. HandoffsOf(i)' = HandoffsOf(i)
      BY <2>1, <2>5
    <3>2. ASSUME NEW h, EnteredBy(i, p, h)' PROVE EnteredBy(i, p, h)
      BY <2>1, <3>1, <3>2 DEF EnteredBy
    <3>. QED
      BY <1>1, <2>3, <3>1, <3>2 DEF HandoffFresh
  <2>. QED
    BY <2>4, <2>5
<1>5. CASE RowAdded(i)
  <2>1. changes'[i] = changes[i]
    BY <1>5 DEF RowAdded
  <2>2. ASSUME NEW k \in Phases, NEW c \in Contents, Insert(i, Artifact(k, c))
        PROVE  ~HandoffFresh(i, p)'
    BY <1>4, <2>1, <2>2, ArtifactType DEF Artifact, Kinds
  <2>3. ASSUME NEW c \in {"pass", "fail"}, Insert(i, Artifact(Verify, c))
        PROVE  ~HandoffFresh(i, p)'
    BY <1>4, <2>1, <2>3, ArtifactType DEF Artifact, Kinds, Contents
  <2>4. ASSUME p < N, Insert(i, Handoff(p + 1)) PROVE ~HandoffFresh(i, p)'
    <3>1. p + 1 \in Phases /\ p + 1 # p
      BY <1>1, <2>4, NAssumption DEF Phases
    <3>2. Handoff(p + 1).table = "change_handoffs" /\ Handoff(p + 1).kind = p + 1
      BY DEF Handoff
    <3>. QED
      BY <1>4, <2>1, <2>4, <3>1, <3>2, HandoffType
  <2>5. ~HandoffFresh(i, p)'
    BY <1>0, <1>5, <2>2, <2>3, <2>4 DEF RowAdded
  <2>. QED
    BY <1>0, <2>1, <2>5
<1>6. ~Opened(i) /\ ~Advanced(i) /\ ~GaveUp(i) /\ ~Deleted(i)
  BY <1>1 DEF Opened, Advanced, GaveUp, Deleted, Exists
<1>. QED
  BY <1>2, <1>3, <1>5, <1>6 DEF Effect

\* While requests about one change do not overlap, a handoff gate that is shut
\* by an artifact written after the handoff never opens again by itself.
THEOREM GatesStayShut == Spec /\ []Alone => ShutGateStaysShut
<1>1. ASSUME IInv, CInv, Alone, [Next]_vars
      PROVE  [\A i \in Issues : Shut(i) /\ Exists(i)' => ~HandoffFresh(i, changes[i].phase)']_vars
  BY <1>1, AloneStep, ShutStays DEF OneEffect
<1>. QED
  BY <1>1, CopiesCurrent, Invariance, PTL DEF Spec, ShutGateStaysShut

\* What the promise sees of a change, effect by effect.
LEMMA QuietView ==
  ASSUME NEW i, journal'[i] = journal[i]
  PROVE  Delivered(i)' = Delivered(i) /\ NewestVerdict(i)' = NewestVerdict(i)
<1>1. \A k : ArtifactsOf(i, k)' = ArtifactsOf(i, k)
  BY DEF ArtifactsOf
<1>2. \A k : Present(i, k)' <=> Present(i, k)
  BY <1>1 DEF Present
<1>. QED
  BY <1>1, <1>2 DEF Delivered, NewestVerdict

LEMMA LegalView ==
  ASSUME NEW i, NEW p \in Phases
  PROVE  Legal(i, p) => 1..p \subseteq Delivered(i)
  BY NAssumption DEF Legal, Delivered, Phases

LEMMA PassedView ==
  ASSUME NEW i, VerifyPassed(i)
  PROVE  NewestVerdict(i) = "pass"
  BY DEF VerifyPassed, NewestVerdict, Present

LEMMA RowView ==
  ASSUME TypeOK, NEW i \in Issues, RowAdded(i)
  PROVE  \/ /\ \E k \in Phases : Delivered(i)' = Delivered(i) \union {k}
            /\ NewestVerdict(i)' = NewestVerdict(i)
         \/ /\ Delivered(i)' = Delivered(i)
            /\ NewestVerdict(i)' \in {"pass", "fail"}
         \/ Delivered(i)' = Delivered(i) /\ NewestVerdict(i)' = NewestVerdict(i)
<1>. DEFINE n == Len(journal[i])
<1>1. Verify \notin Phases
  BY NAssumption DEF Verify, Phases
<1>2. ASSUME n \in Nat, ArtifactsOf(i, Verify)' = ArtifactsOf(i, Verify),
             ArtifactsOf(i, Verify) \subseteq 1..n,
             \A r \in 1..n : journal'[i][r] = journal[i][r]
      PROVE  NewestVerdict(i)' = NewestVerdict(i)
  <2>. HIDE DEF n
  <2>1. Present(i, Verify)' <=> Present(i, Verify)
    BY <1>2 DEF Present
  <2>2. Present(i, Verify) => Latest(ArtifactsOf(i, Verify)) \in 1..n
    BY <1>2, LatestOf DEF Present
  <2>. QED
    BY <1>2, <2>1, <2>2 DEF NewestVerdict
<1>3. ASSUME NEW k \in Phases, NEW c \in Contents, Insert(i, Artifact(k, c))
      PROVE  /\ Delivered(i)' = Delivered(i) \union {k}
             /\ NewestVerdict(i)' = NewestVerdict(i)
  <2>1. Artifact(k, c) \in Rows /\ Artifact(k, c).table = "artifacts" /\ Artifact(k, c).kind = k
    BY ArtifactType DEF Artifact, Kinds
  <2>2. /\ n \in Nat
        /\ \A j : ArtifactsOf(i, j) \subseteq 1..n
        /\ \A j : ArtifactsOf(i, j)' = IF j = k THEN ArtifactsOf(i, j) \union {n + 1}
                                                ELSE ArtifactsOf(i, j)
        /\ \A r \in 1..n : journal'[i][r] = journal[i][r]
    BY <1>3, <2>1, RowsAfterInsert
  <2>. HIDE DEF n
  <2>3. \A j : Present(i, j)' <=> (Present(i, j) \/ j = k)
    BY <2>2 DEF Present
  <2>4. Delivered(i)' = Delivered(i) \union {k}
    BY <2>3 DEF Delivered
  <2>. QED
    BY <1>1, <1>2, <2>2, <2>4
<1>4. ASSUME NEW c \in {"pass", "fail"}, Insert(i, Artifact(Verify, c))
      PROVE  Delivered(i)' = Delivered(i) /\ NewestVerdict(i)' = c
  <2>1. /\ Artifact(Verify, c) \in Rows /\ Artifact(Verify, c).table = "artifacts"
        /\ Artifact(Verify, c).kind = Verify /\ Artifact(Verify, c).content = c
    BY ArtifactType DEF Artifact, Kinds, Contents
  <2>2. /\ n \in Nat
        /\ \A j : ArtifactsOf(i, j) \subseteq 1..n
        /\ \A j : ArtifactsOf(i, j)' = IF j = Verify THEN ArtifactsOf(i, j) \union {n + 1}
                                                     ELSE ArtifactsOf(i, j)
        /\ journal'[i][n + 1] = Artifact(Verify, c)
    BY <1>4, <2>1, RowsAfterInsert
  <2>. HIDE DEF n
  <2>3. \A j \in Phases : Present(i, j)' <=> Present(i, j)
    BY <1>1, <2>2 DEF Present
  <2>4. Delivered(i)' = Delivered(i)
    BY <2>3 DEF Delivered
  <2>5. Latest(ArtifactsOf(i, Verify)') = n + 1 /\ Present(i, Verify)'
    BY <2>2, LatestAdded DEF Present
  <2>6. NewestVerdict(i)' = c
    BY <2>1, <2>2, <2>5 DEF NewestVerdict
  <2>. QED
    BY <2>4, <2>6
<1>5. ASSUME NEW p \in Phases, Insert(i, Handoff(p))
      PROVE  Delivered(i)' = Delivered(i) /\ NewestVerdict(i)' = NewestVerdict(i)
  <2>1. Handoff(p) \in Rows /\ Handoff(p).table = "change_handoffs"
    BY HandoffType DEF Handoff
  <2>2. /\ n \in Nat
        /\ \A j : ArtifactsOf(i, j) \subseteq 1..n
        /\ \A j : ArtifactsOf(i, j)' = ArtifactsOf(i, j)
        /\ \A r \in 1..n : journal'[i][r] = journal[i][r]
    BY <1>5, <2>1, RowsAfterInsert
  <2>. HIDE DEF n
  <2>3. \A j : Present(i, j)' <=> Present(i, j)
    BY <2>2 DEF Present
  <2>4. Delivered(i)' = Delivered(i)
    BY <2>3 DEF Delivered
  <2>. QED
    BY <1>2, <2>2, <2>4
<1>6. changes[i].phase < N => changes[i].phase + 1 \in Phases
  BY NAssumption DEF TypeOK, Phases
<1>. QED
  BY <1>3, <1>4, <1>5, <1>6 DEF RowAdded

\* Only the values of one issue differ.
LEMMA OneSeen ==
  ASSUME NEW i \in Issues, \A j \in Issues : j # i => Quiet(j)
  PROVE  /\ PhaseSeen' = [PhaseSeen EXCEPT ![i] = changes'[i].phase]
         /\ StatusSeen' = [StatusSeen EXCEPT ![i] = changes'[i].status]
         /\ DeliveredSeen' = [DeliveredSeen EXCEPT ![i] = Delivered(i)']
         /\ VerdictSeen' = [VerdictSeen EXCEPT ![i] = NewestVerdict(i)']
<1>1. \A j \in Issues : j # i => /\ changes'[j] = changes[j]
                                 /\ Delivered(j)' = Delivered(j)
                                 /\ NewestVerdict(j)' = NewestVerdict(j)
  BY QuietView DEF Quiet
<1>2. PhaseSeen' = [PhaseSeen EXCEPT ![i] = changes'[i].phase]
  BY <1>1 DEF PhaseSeen
<1>3. StatusSeen' = [StatusSeen EXCEPT ![i] = changes'[i].status]
  BY <1>1 DEF StatusSeen
<1>4. DeliveredSeen' = [DeliveredSeen EXCEPT ![i] = Delivered(i)']
  BY <1>1 DEF DeliveredSeen
<1>5. VerdictSeen' = [VerdictSeen EXCEPT ![i] = NewestVerdict(i)']
  BY <1>1 DEF VerdictSeen
<1>. QED
  BY <1>2, <1>3, <1>4, <1>5

LEMMA Seen ==
  ASSUME NEW i \in Issues
  PROVE  /\ PhaseSeen[i] = changes[i].phase /\ StatusSeen[i] = changes[i].status
         /\ DeliveredSeen[i] = Delivered(i) /\ VerdictSeen[i] = NewestVerdict(i)
         /\ PhaseSeen = [PhaseSeen EXCEPT ![i] = PhaseSeen[i]]
         /\ StatusSeen = [StatusSeen EXCEPT ![i] = StatusSeen[i]]
         /\ DeliveredSeen = [DeliveredSeen EXCEPT ![i] = DeliveredSeen[i]]
         /\ VerdictSeen = [VerdictSeen EXCEPT ![i] = VerdictSeen[i]]
<1>1. PhaseSeen[i] = changes[i].phase /\ PhaseSeen = [PhaseSeen EXCEPT ![i] = PhaseSeen[i]]
  BY DEF PhaseSeen
<1>2. StatusSeen[i] = changes[i].status /\ StatusSeen = [StatusSeen EXCEPT ![i] = StatusSeen[i]]
  BY DEF StatusSeen
<1>3. /\ DeliveredSeen[i] = Delivered(i)
      /\ DeliveredSeen = [DeliveredSeen EXCEPT ![i] = DeliveredSeen[i]]
  BY DEF DeliveredSeen
<1>4. /\ VerdictSeen[i] = NewestVerdict(i)
      /\ VerdictSeen = [VerdictSeen EXCEPT ![i] = VerdictSeen[i]]
  BY DEF VerdictSeen
<1>. QED
  BY <1>1, <1>2, <1>3, <1>4

\* Each effect is a step of the promise, or one that it does not see.
LEMMA PromiseStep ==
  ASSUME IInv, CInv, NEW i \in Issues, Effect(i), \A j \in Issues : j # i => Quiet(j)
  PROVE  Promise!Next \/ UNCHANGED <<PhaseSeen, StatusSeen, DeliveredSeen, VerdictSeen>>
<1>1. /\ PhaseSeen' = [PhaseSeen EXCEPT ![i] = changes'[i].phase]
      /\ StatusSeen' = [StatusSeen EXCEPT ![i] = changes'[i].status]
      /\ DeliveredSeen' = [DeliveredSeen EXCEPT ![i] = Delivered(i)']
      /\ VerdictSeen' = [VerdictSeen EXCEPT ![i] = NewestVerdict(i)']
  BY OneSeen
<1>2. /\ PhaseSeen[i] = changes[i].phase /\ StatusSeen[i] = changes[i].status
      /\ DeliveredSeen[i] = Delivered(i) /\ VerdictSeen[i] = NewestVerdict(i)
      /\ PhaseSeen = [PhaseSeen EXCEPT ![i] = PhaseSeen[i]]
      /\ StatusSeen = [StatusSeen EXCEPT ![i] = StatusSeen[i]]
      /\ DeliveredSeen = [DeliveredSeen EXCEPT ![i] = DeliveredSeen[i]]
      /\ VerdictSeen = [VerdictSeen EXCEPT ![i] = VerdictSeen[i]]
  BY Seen
<1>3. TypeOK /\ changes[i].phase \in Phases /\ FirstOK(i)
  BY DEF IInv, TypeOK, CInv
<1>4. CASE Opened(i)
  <2>1. /\ changes[i].status = "none" /\ changes'[i].phase = changes[i].phase
        /\ changes'[i].status = "active"
        /\ Delivered(i)' = Delivered(i) /\ NewestVerdict(i)' = NewestVerdict(i)
    BY <1>3, <1>4, QuietView DEF Opened, Sets, FirstOK
  <2>2. Promise!Open(i)
    BY <1>1, <1>2, <2>1 DEF Promise!Open
  <2>. QED
    BY <2>2 DEF Promise!Next
<1>5. CASE RowAdded(i)
  <2>1. changes[i].status = "active" /\ changes'[i] = changes[i]
    BY <1>5 DEF RowAdded, Active
  <2>2. CASE /\ \E k \in Phases : Delivered(i)' = Delivered(i) \union {k}
             /\ NewestVerdict(i)' = NewestVerdict(i)
    <3>1. PICK k \in 1..N : Delivered(i)' = Delivered(i) \union {k}
      BY <2>2 DEF Phases
    <3>2. Promise!Deliver(i, k)
      BY <1>1, <1>2, <2>1, <2>2, <3>1 DEF Promise!Deliver
    <3>. QED
      BY <3>2 DEF Promise!Next
  <2>3. CASE Delivered(i)' = Delivered(i) /\ NewestVerdict(i)' \in {"pass", "fail"}
    <3>1. Promise!Report(i, NewestVerdict(i)')
      BY <1>1, <1>2, <2>1, <2>3 DEF Promise!Report
    <3>. QED
      BY <2>3, <3>1 DEF Promise!Next
  <2>4. CASE Delivered(i)' = Delivered(i) /\ NewestVerdict(i)' = NewestVerdict(i)
    BY <1>1, <1>2, <2>1, <2>4
  <2>. QED
    BY <1>3, <1>5, <2>2, <2>3, <2>4, RowView
<1>6. CASE Advanced(i)
  <2>1. /\ changes[i].status = "active" /\ changes'[i].phase = changes[i].phase + 1
        /\ changes'[i].status = changes[i].status /\ changes[i].phase < N
        /\ Delivered(i)' = Delivered(i) /\ NewestVerdict(i)' = NewestVerdict(i)
    BY <1>6, QuietView DEF Advanced, Sets, Active
  <2>2. 1..changes[i].phase \subseteq Delivered(i)
    BY <1>3, <1>6, LegalView DEF Advanced
  <2>3. Promise!Advance(i)
    BY <1>1, <1>2, <2>1, <2>2 DEF Promise!Advance
  <2>. QED
    BY <2>3 DEF Promise!Next
<1>7. CASE Archived(i)
  <2>1. /\ changes[i].status = "active" /\ changes[i].phase = N /\ changes'[i].phase = N
        /\ changes'[i].status = "archived"
        /\ Delivered(i)' = Delivered(i) /\ NewestVerdict(i)' = NewestVerdict(i)
    BY <1>7, QuietView DEF Archived, Sets, Active
  <2>2. 1..N \subseteq Delivered(i)
    BY <1>7 DEF Archived, GatesOpen, PhaseLegal, Delivered, Phases
  <2>3. NewestVerdict(i) = "pass"
    BY <1>7, PassedView DEF Archived, GatesOpen
  <2>4. Promise!Archive(i)
    BY <1>1, <1>2, <2>1, <2>2, <2>3 DEF Promise!Archive
  <2>. QED
    BY <2>4 DEF Promise!Next
<1>8. CASE GaveUp(i)
  <2>1. /\ changes[i].status = "active" /\ changes'[i].status = "failed"
        /\ Delivered(i)' = Delivered(i) /\ NewestVerdict(i)' = NewestVerdict(i)
        /\ \/ changes'[i].phase = changes[i].phase
           \/ /\ changes'[i].phase = changes[i].phase + 1 /\ changes[i].phase < N
              /\ Legal(i, changes[i].phase)
    BY <1>8, QuietView DEF GaveUp, Sets, Active
  <2>2. Legal(i, changes[i].phase) => 1..changes[i].phase \subseteq Delivered(i)
    BY <1>3, LegalView
  <2>3. Promise!GiveUp(i)
    BY <1>1, <1>2, <2>1, <2>2 DEF Promise!GiveUp
  <2>. QED
    BY <2>3 DEF Promise!Next
<1>9. CASE Deleted(i)
  <2>1. changes[i].status # "gone" /\ changes'[i].phase = 1 /\ changes'[i].status = "gone"
    BY <1>9 DEF Deleted
  <2>2. \A k : ArtifactsOf(i, k)' = {}
    BY <1>9 DEF Deleted, ArtifactsOf
  <2>3. Delivered(i)' = {} /\ NewestVerdict(i)' = "none"
    BY <2>2 DEF Delivered, NewestVerdict, Present
  <2>4. Promise!Delete(i)
    BY <1>1, <1>2, <2>1, <2>3 DEF Promise!Delete
  <2>. QED
    BY <2>4 DEF Promise!Next
<1>. QED
  BY <1>4, <1>5, <1>6, <1>7, <1>8, <1>9 DEF Effect

LEMMA PromiseInit == Init => Promise!Init
<1>. SUFFICES ASSUME Init PROVE Promise!Init
  OBVIOUS
<1>1. \A i \in Issues : changes[i].phase = 1 /\ changes[i].status = "none" /\ journal[i] = <<>>
  BY DEF Init
<1>2. \A i \in Issues : \A k : ArtifactsOf(i, k) = {}
  BY <1>1 DEF ArtifactsOf
<1>3. \A i \in Issues : Delivered(i) = {} /\ NewestVerdict(i) = "none"
  BY <1>2 DEF Delivered, NewestVerdict, Present
<1>. QED
  BY <1>1, <1>3 DEF Promise!Init, PhaseSeen, StatusSeen, DeliveredSeen, VerdictSeen

\* While requests about one change do not overlap, the workflow implements its
\* promise, whatever fails, crashes or is deleted.
THEOREM WorkflowKeepsPromise == Spec /\ []Alone => KeepsPromise
<1>1. ASSUME IInv, CInv, Alone, [Next]_vars
      PROVE  [Promise!Next]_(Promise!vars)
  <2>1. OneEffect
    BY <1>1, AloneStep
  <2>2. CASE \A j \in Issues : Quiet(j)
    <3>1. \A j \in Issues : /\ changes'[j] = changes[j] /\ Delivered(j)' = Delivered(j)
                            /\ NewestVerdict(j)' = NewestVerdict(j)
      BY <2>2, QuietView DEF Quiet
    <3>. QED
      BY <3>1 DEF Promise!vars, PhaseSeen, StatusSeen, DeliveredSeen, VerdictSeen
  <2>3. CASE \E i \in Issues : Effect(i) /\ \A j \in Issues : j # i => Quiet(j)
    BY <1>1, <2>3, PromiseStep DEF Promise!vars
  <2>. QED
    BY <2>1, <2>2, <2>3 DEF OneEffect
<1>. QED
  BY <1>1, CopiesCurrent, Invariance, PromiseInit, PTL DEF Spec, KeepsPromise, Promise!Spec

------------------------------------------------------------------------------
(* Without failing statements; and where ListArtifacts cannot scan a row.  *)

LEMMA PCMoves ==
  ASSUME TypeOK, NEW w \in Workers, NEW pc, Goto(w, pc)
  PROVE  op'[w].pc = pc /\ op'[w].issue = op[w].issue
  BY DEF TypeOK, Ops, Goto, Move

LEMMA OthersStay ==
  ASSUME TypeOK, NEW w \in Workers, Request(w) \/ Step(w)
  PROVE  \A v \in Workers \ {w} : op'[v] = op[v]
<1>1. ASSUME NEW o, Move(w, o) PROVE \A v \in Workers \ {w} : op'[v] = op[v]
  BY <1>1 DEF TypeOK, Move
<1>2. ASSUME Request(w) PROVE \A v \in Workers \ {w} : op'[v] = op[v]
  BY <1>1, <1>2 DEF Request, StartChange, WriteArtifact, SubmitVerifyReport, AdvancePhase, Archive,
                    Begin
<1>3. ASSUME Step(w) PROVE \A v \in Workers \ {w} : op'[v] = op[v]
  BY <1>1, <1>3
  DEF Step, CreateChange, Generate, SaveGenerated, SplitHandoff, SplitUpdate, FailChange,
      SaveArtifact, CreateSubIssue, BindRefused, ClearMappings, SetTaskMappings, SaveReport,
      CheckPhaseLegal, CheckEntryHandoff, CheckHandoffFresh, RecordHandoff, EnterPhase,
      CheckVerifyPassed, CloseChange, WakeParent, NotifyParent, Done, Goto, Refuse
<1>. QED
  BY <1>2, <1>3

\* Who archives, who is at the statements that tell, and who tells.
LEMMA ArchiveSteps ==
  ASSUME TypeOK, NEW w \in Workers, Request(w) \/ Step(w)
  PROVE  \/ CloseChange(w) \/ WakeParent(w) \/ NotifyParent(w)
         \/ /\ op[w].pc \notin {"wake", "notify"} /\ notified' = notified
            /\ \A i \in Issues : changes'[i].status = "archived" => changes[i].status = "archived"
<1>1. ASSUME NEW i, NEW p, NEW s, s # "archived", UpdateChange(i, p, s)
      PROVE  \A j \in Issues : changes'[j].status = "archived" => changes[j].status = "archived"
  BY <1>1 DEF TypeOK, UpdateChange
<1>2. CASE Request(w)
  <2>1. op[w] = Idle /\ UNCHANGED tables
    BY <1>2 DEF Request, StartChange, WriteArtifact, SubmitVerifyReport, AdvancePhase, Archive,
                Begin
  <2>. QED
    BY <2>1 DEF Idle, tables
<1>3. CASE CreateChange(w) \/ SplitUpdate(w) \/ FailChange(w) \/ EnterPhase(w)
  <2>1. op[w].pc \in {"create", "update", "fail", "enter"} /\ notified' = notified
    BY <1>3 DEF CreateChange, SplitUpdate, FailChange, EnterPhase, At
  <2>2. \/ changes' = changes
        \/ \E i, p : UpdateChange(i, p, "active") \/ UpdateChange(i, p, "failed")
    BY <1>3 DEF CreateChange, SplitUpdate, FailChange, EnterPhase
  <2>. QED
    BY <1>1, <2>1, <2>2
<1>4. CASE \/ Generate(w) \/ SaveGenerated(w) \/ SplitHandoff(w) \/ SaveArtifact(w)
           \/ CreateSubIssue(w) \/ BindRefused(w) \/ ClearMappings(w) \/ SetTaskMappings(w)
           \/ SaveReport(w) \/ CheckPhaseLegal(w) \/ CheckEntryHandoff(w) \/ CheckHandoffFresh(w)
           \/ RecordHandoff(w) \/ CheckVerifyPassed(w)
  BY <1>4
  DEF Generate, SaveGenerated, SplitHandoff, SaveArtifact, CreateSubIssue, BindRefused,
      ClearMappings, SetTaskMappings, SaveReport, CheckPhaseLegal, CheckEntryHandoff, CheckHandoffFresh,
      RecordHandoff, CheckVerifyPassed, At, tables
<1>. QED
  BY <1>2, <1>3, <1>4 DEF Step

\* While no statement fails, however requests interleave and issues are
\* deleted: of every archive the parent's owner has been told, or a worker is
\* about to.  (That it does is ArchiveNotifies, under fairness.)
THEOREM ArchivesAreTold ==
  ASSUME Faults = FALSE
  PROVE  Spec => []ArchiveBeingTold
<1>1. Init => ArchiveBeingTold
  BY SwitchAssumption, IssuesAssumption DEF Init, ArchiveBeingTold
<1>2. TypeOK /\ ArchiveBeingTold /\ [Next]_vars => ArchiveBeingTold'
  <2>. SUFFICES ASSUME TypeOK, ArchiveBeingTold, [Next]_vars,
                       NEW i \in HasParent, changes'[i].status = "archived", i \notin notified'
                PROVE  \E v \in Workers : op'[v].issue = i /\ op'[v].pc \in {"wake", "notify"}
    BY DEF ArchiveBeingTold
  <2>. i \in Issues
    BY IssuesAssumption
  <2>1. ASSUME NEW w \in Workers, Request(w) \/ Step(w),
               changes[i].status = "archived", i \notin notified,
               op[w].issue = i => op[w].pc \notin {"wake", "notify"}
        PROVE  \E v \in Workers : op'[v].issue = i /\ op'[v].pc \in {"wake", "notify"}
    BY <2>1, OthersStay DEF ArchiveBeingTold
  <2>2. ASSUME NEW w \in Workers, CloseChange(w)
        PROVE  \E v \in Workers : op'[v].issue = i /\ op'[v].pc \in {"wake", "notify"}
    <3>1. CASE Goto(w, "wake") /\ op[w].issue = i
      <4>1. op'[w].issue = i /\ op'[w].pc = "wake"
        BY <3>1, PCMoves
      <4>. QED
        BY <4>1
    <3>2. CASE Goto(w, "wake") /\ op[w].issue # i
      <4>1. changes'[i] = changes[i] /\ notified' = notified
        BY <2>2, <3>2 DEF CloseChange, UpdateChange, TypeOK
      <4>. QED
        BY <2>1, <2>2, <3>2, <4>1 DEF Step
    <3>3. CASE Done(w) /\ UNCHANGED changes
      BY <2>1, <2>2, <3>3 DEF Step, CloseChange, At
    <3>. QED
      BY <2>2, <3>1, <3>2, <3>3 DEF CloseChange
  <2>3. ASSUME NEW w \in Workers, WakeParent(w)
        PROVE  \E v \in Workers : op'[v].issue = i /\ op'[v].pc \in {"wake", "notify"}
    <3>1. changes' = changes /\ notified' = notified
      BY <2>3 DEF WakeParent
    <3>2. CASE op[w].issue = i
      <4>1. Goto(w, "notify")
        BY <2>3, <3>1, <3>2 DEF WakeParent, Exists
      <4>2. op'[w].issue = i /\ op'[w].pc = "notify"
        BY <3>2, <4>1, PCMoves
      <4>. QED
        BY <4>2
    <3>. QED
      BY <2>1, <2>3, <3>1, <3>2 DEF Step
  <2>4. ASSUME NEW w \in Workers, NotifyParent(w)
        PROVE  \E v \in Workers : op'[v].issue = i /\ op'[v].pc \in {"wake", "notify"}
    BY <2>1, <2>4 DEF Step, NotifyParent, Exists
  <2>5. ASSUME NEW w \in Workers, Request(w) \/ Step(w)
        PROVE  \E v \in Workers : op'[v].issue = i /\ op'[v].pc \in {"wake", "notify"}
    BY <2>1, <2>2, <2>3, <2>4, <2>5, ArchiveSteps
  <2>6. ASSUME NEW j \in Issues, DeleteIssue(j)
        PROVE  \E v \in Workers : op'[v].issue = i /\ op'[v].pc \in {"wake", "notify"}
    <3>1. i # j /\ changes'[i] = changes[i] /\ i \notin notified /\ op' = op
      BY <2>6 DEF DeleteIssue, TypeOK
    <3>. QED
      BY <3>1 DEF ArchiveBeingTold
  <2>7. CASE UNCHANGED vars
    BY <2>7 DEF vars, ArchiveBeingTold
  <2>8. ASSUME NEW j \in Issues, NEW n \in DOMAIN subIssues[j], DeleteSubIssue(j, n)
        PROVE  \E v \in Workers : op'[v].issue = i /\ op'[v].pc \in {"wake", "notify"}
    BY <2>8 DEF DeleteSubIssue, ArchiveBeingTold
  <2>. QED
    BY <2>5, <2>6, <2>7, <2>8 DEF Next, StatementFails, Crash
<1>. QED
  BY <1>1, <1>2, TypeCorrect, PTL DEF Spec

NothingArchived == \A i \in Issues : changes[i].status # "archived"
BehindGates == {"entry", "fresh", "record", "enter", "verdict", "close", "wake", "notify"}
NobodyPasses == \A w \in Workers : op[w].pc \notin BehindGates

LEMMA StopsAtGate ==
  ASSUME ListScans = FALSE, TypeOK, NEW w \in Workers, op[w].pc \notin BehindGates,
         Request(w) \/ Step(w)
  PROVE  op'[w].pc \notin BehindGates
<1>1. op[w] \in Ops /\ \A o : Move(w, o) => op'[w] = o
  BY DEF TypeOK, Move
<1>2. Done(w) => op'[w].pc = "idle"
  BY <1>1 DEF Done, Idle
<1>3. ASSUME NEW pc \in PCs \ BehindGates, Goto(w, pc) PROVE op'[w].pc \notin BehindGates
  BY <1>3, PCMoves
<1>4. ~PhaseLegal(op[w].issue, op[w].phase)
  BY <1>1, NAssumption DEF Ops, PhaseLegal, ArtifactsListed, Phases, Kinds
<1>5. CASE Request(w)
  <2>1. ASSUME NEW i, NEW goal, StartChange(w, i, goal) PROVE op'[w].pc = "create"
    BY <1>1, <2>1 DEF StartChange, Begin, Idle
  <2>2. ASSUME NEW i, NEW k, NEW c, WriteArtifact(w, i, k, c) PROVE op'[w].pc = "write"
    BY <1>1, <2>2 DEF WriteArtifact, Begin, Idle
  <2>3. ASSUME NEW i, NEW c, SubmitVerifyReport(w, i, c) PROVE op'[w].pc = "report"
    BY <1>1, <2>3 DEF SubmitVerifyReport, Begin, Idle
  <2>4. ASSUME NEW i, AdvancePhase(w, i) \/ Archive(w, i) PROVE op'[w].pc = "legal"
    BY <1>1, <2>4 DEF AdvancePhase, Archive, Begin, Idle
  <2>. QED
    BY <1>5, <2>1, <2>2, <2>3, <2>4 DEF Request, BehindGates
<1>6. CASE \/ SaveGenerated(w) \/ SplitUpdate(w) \/ SaveArtifact(w) \/ CreateSubIssue(w)
           \/ ClearMappings(w)
  <2>1. Refuse(w) => op'[w].pc \in {"idle", "fail"}
    BY <1>2, PCMoves DEF Refuse
  <2>2. SaveGenerated(w) => op'[w].pc \in {"bind", "handoff", "idle", "fail"}
    BY <1>1, <2>1 DEF SaveGenerated, Ops
  <2>3. SplitUpdate(w) => op'[w].pc \in {"generate", "fail"}
    BY <1>1 DEF SplitUpdate, Ops
  <2>4. SaveArtifact(w) => op'[w].pc \in {"bind", "idle"}
    BY <1>1, <1>2 DEF SaveArtifact, Ops
  <2>5. CreateSubIssue(w) => op'[w].pc \in {"map", "bind"}
    BY <1>1 DEF CreateSubIssue, Ops
  <2>6. ClearMappings(w) => op'[w].pc = "insert"
    BY <1>1 DEF ClearMappings, Ops
  <2>. QED
    BY <1>6, <2>2, <2>3, <2>4, <2>5, <2>6 DEF BehindGates
<1>7. CASE \/ CreateChange(w) \/ Generate(w) \/ SplitHandoff(w) \/ FailChange(w)
           \/ BindRefused(w) \/ SetTaskMappings(w) \/ SaveReport(w) \/ CheckPhaseLegal(w)
  BY <1>2, <1>3, <1>4, <1>7
  DEF CreateChange, Generate, SplitHandoff, FailChange, BindRefused, SetTaskMappings, SaveReport,
      CheckPhaseLegal, Refuse, PCs, BehindGates
<1>8. CASE \/ CheckEntryHandoff(w) \/ CheckHandoffFresh(w) \/ RecordHandoff(w) \/ EnterPhase(w)
           \/ CheckVerifyPassed(w) \/ CloseChange(w) \/ WakeParent(w) \/ NotifyParent(w)
  BY <1>8
  DEF CheckEntryHandoff, CheckHandoffFresh, RecordHandoff, EnterPhase, CheckVerifyPassed,
      CloseChange, WakeParent, NotifyParent, At, BehindGates
<1>. QED
  BY <1>5, <1>6, <1>7, <1>8 DEF Step

\* With the scan of the PostgreSQL store no request passes the first gate, so
\* that no change is ever archived, in any history.
THEOREM UnscannedIsNeverArchived ==
  ASSUME ListScans = FALSE
  PROVE  Spec => []NothingArchived
<1>. DEFINE Inv == NothingArchived /\ NobodyPasses
<1>1. Init => Inv
  BY DEF Init, NothingArchived, NobodyPasses, BehindGates, Idle
<1>2. TypeOK /\ Inv /\ [Next]_vars => Inv'
  <2>. SUFFICES ASSUME TypeOK, Inv, [Next]_vars PROVE Inv'
    OBVIOUS
  <2>1. ASSUME NEW w \in Workers, Request(w) \/ Step(w) PROVE Inv'
    <3>1. op[w].pc \notin BehindGates
      BY DEF NobodyPasses
    <3>2. op'[w].pc \notin BehindGates
      BY <2>1, <3>1, StopsAtGate
    <3>3. NobodyPasses'
      BY <2>1, <3>2, OthersStay DEF NobodyPasses
    <3>4. NothingArchived'
      BY <2>1, <3>1, ArchiveSteps
      DEF NothingArchived, BehindGates, CloseChange, WakeParent, NotifyParent, At
    <3>. QED
      BY <3>3, <3>4
  <2>2. ASSUME NEW j \in Issues, DeleteIssue(j) PROVE Inv'
    BY <2>2 DEF DeleteIssue, TypeOK, NothingArchived, NobodyPasses
  <2>3. ASSUME NEW w \in Workers, StatementFails(w) PROVE Inv'
    <3>1. (Done(w) \/ Refuse(w)) /\ UNCHANGED tables
      BY <2>3 DEF StatementFails
    <3>2. Done(w) \/ Goto(w, "fail")
      BY <3>1 DEF Refuse
    <3>3. op'[w].pc \in {"idle", "fail"}
      BY <3>2, PCMoves, DoneFacts DEF TypeOK, Idle
    <3>4. \A v \in Workers \ {w} : op'[v] = op[v]
      BY <3>2 DEF TypeOK, Done, Goto, Move
    <3>. QED
      BY <3>1, <3>3, <3>4 DEF tables, NothingArchived, NobodyPasses, BehindGates
  <2>4. CASE Crash
    BY <2>4 DEF Crash, tables, NothingArchived, NobodyPasses, BehindGates, Idle
  <2>5. CASE UNCHANGED vars
    BY <2>5 DEF vars, NothingArchived, NobodyPasses
  <2>6. ASSUME NEW j \in Issues, NEW n \in DOMAIN subIssues[j], DeleteSubIssue(j, n) PROVE Inv'
    BY <2>6 DEF DeleteSubIssue, NothingArchived, NobodyPasses
  <2>. QED
    BY <2>1, <2>2, <2>3, <2>4, <2>5, <2>6 DEF Next
<1>. QED
  BY <1>1, <1>2, TypeCorrect, PTL DEF Spec

------------------------------------------------------------------------------
(* Plans are bound whole, however replacements overlap and sub-issues are  *)
(* deleted.  Each worker that binds a plan has a tasks artifact of its own,*)
(* and holds every sub-issue made from it; and what its DELETE saw of the  *)
(* mapping was whole plans, to which nobody adds a row any more.           *)

PlanPCs == {"bind", "map", "insert"}
HoldsPlan(w, i) == op[w].pc \in PlanPCs /\ op[w].issue = i
Collected(items) == {items[n] : n \in DOMAIN items}
Numbers(S, n) == IsFiniteSet(S) /\ Cardinality(S) = n

Origins(i) == \A n \in DOMAIN subIssues[i] : subIssues[i][n].row \in DOMAIN journal[i]

BoundOK(i, m) ==
  /\ Saved(i, m.row, "plan")
  /\ Numbers(FromPlan(i, m.row), PlanSize)
  /\ m.sub \in Living(i, m.row)
  /\ \A n \in Living(i, m.row) : [row |-> m.row, sub |-> n] \in mapping[i]

Apart(i) ==
  \A v, w \in Workers : HoldsPlan(v, i) /\ HoldsPlan(w, i) /\ v # w => op[v].row # op[w].row

PlanOK(w, i) ==
  /\ FromPlan(i, op[w].row) = Collected(op[w].items)
  /\ Numbers(FromPlan(i, op[w].row), Len(op[w].items))
  /\ op[w].pc \in {"map", "insert"} => Len(op[w].items) = PlanSize
  /\ \A m \in mapping[i] : m.row # op[w].row

ClearedOK(w, i) ==
  op[w].pc = "insert" =>
    \A m \in op[w].cleared :
      /\ m.row \in DOMAIN journal[i]
      /\ \A v \in Workers : HoldsPlan(v, i) => op[v].row # m.row
      /\ \A b \in mapping[i] : b.row = m.row => b \in op[w].cleared

PlansOK(i) ==
  /\ Origins(i)
  /\ \A m \in mapping[i] : BoundOK(i, m)
  /\ ~Exists(i) => mapping[i] = {}
  /\ Exists(i) => Apart(i)
  /\ Exists(i) => \A w \in Workers : HoldsPlan(w, i) => PlanOK(w, i) /\ ClearedOK(w, i)

PInv == \A i \in Issues : PlansOK(i)

\* The rows of a change are kept, and the change as well.
RowsKept(i) ==
  /\ \A r \in DOMAIN journal[i] : r \in DOMAIN journal'[i] /\ journal'[i][r] = journal[i][r]
  /\ Exists(i) => Exists(i)'
  /\ Exists(i)' => Exists(i) \/ changes[i].status = "none"

LEMMA SavedKept ==
  ASSUME NEW i, RowsKept(i), NEW row, NEW c, Saved(i, row, c)
  PROVE  Saved(i, row, c)'
  BY DEF RowsKept, Saved, ArtifactsOf

\* Whoever holds a plan of a change holds a row of its journal.
LEMMA HolderSaved ==
  ASSUME IInv, NEW i \in Issues, Exists(i), NEW w \in Workers, HoldsPlan(w, i)
  PROVE  /\ op[w].row \in DOMAIN journal[i] /\ Saved(i, op[w].row, op[w].content)
         /\ op[w].pc \in {"map", "insert"} => op[w].content = "plan"
<1>1. RowsOK(w)
  BY DEF IInv
<1>. QED
  BY <1>1 DEF HoldsPlan, PlanPCs, RowsOK, Saved, ArtifactsOf

\* The plans of a change that the step does not write, and whose holders stay
\* or let go.
LEMMA PlansStay ==
  ASSUME IInv, NEW i \in Issues, PlansOK(i), RowsKept(i),
         subIssues'[i] = subIssues[i], mapping'[i] = mapping[i],
         \A w \in Workers : op'[w] = op[w] \/ ~HoldsPlan(w, i)'
  PROVE  PlansOK(i)'
<1>1. ASSUME NEW w \in Workers, HoldsPlan(w, i)'
      PROVE  op'[w] = op[w] /\ HoldsPlan(w, i)
  BY <1>1 DEF HoldsPlan
<1>2. \A r : FromPlan(i, r)' = FromPlan(i, r) /\ Living(i, r)' = Living(i, r)
  BY DEF FromPlan, Living
<1>3. Origins(i)'
  BY DEF PlansOK, Origins, RowsKept
<1>4. ASSUME NEW m \in mapping'[i] PROVE BoundOK(i, m)'
  <2>1. BoundOK(i, m)
    BY <1>4 DEF PlansOK
  <2>2. Saved(i, m.row, "plan")'
    BY <2>1, SavedKept DEF BoundOK
  <2>. QED
    BY <1>2, <2>1, <2>2 DEF BoundOK, Numbers
<1>5. ~Exists(i)' => mapping'[i] = {}
  BY DEF PlansOK, RowsKept
<1>6. CASE Exists(i)
  <2>1. Apart(i)'
    BY <1>1, <1>6 DEF PlansOK, Apart
  <2>2. ASSUME NEW w \in Workers, HoldsPlan(w, i)' PROVE PlanOK(w, i)' /\ ClearedOK(w, i)'
    <3>1. op'[w] = op[w] /\ HoldsPlan(w, i)
      BY <1>1, <2>2
    <3>2. PlanOK(w, i) /\ ClearedOK(w, i)
      BY <1>6, <3>1 DEF PlansOK
    <3>3. PlanOK(w, i)'
      BY <1>2, <3>1, <3>2 DEF PlanOK, Numbers
    <3>4. ClearedOK(w, i)'
      BY <1>1, <3>1, <3>2 DEF ClearedOK, RowsKept
    <3>. QED
      BY <3>3, <3>4
  <2>. QED
    BY <1>3, <1>4, <1>5, <2>1, <2>2 DEF PlansOK
<1>7. CASE ~Exists(i)
  <2>1. Exists(i)' => \A w \in Workers : ~HoldsPlan(w, i)'
    <3>1. ASSUME changes[i].status = "none", NEW w \in Workers PROVE ~HoldsPlan(w, i)
      <4>1. ControlOK(w)
        BY DEF IInv
      <4>. QED
        BY <3>1, <4>1 DEF ControlOK, HoldsPlan, PlanPCs
    <3>. QED
      BY <1>1, <1>7, <3>1 DEF RowsKept
  <2>. QED
    BY <1>3, <1>4, <1>5, <2>1 DEF PlansOK, Apart
<1>. QED
  BY <1>6, <1>7

LEMMA InsertKeeps ==
  ASSUME TypeOK, NEW i \in Issues, NEW row, Insert(i, row), UNCHANGED changes
  PROVE  \A j \in Issues : RowsKept(j)
<1>. DEFINE S == Rows \union {row}
<1>1. journal[i] \in Seq(S) /\ row \in S
  BY DEF TypeOK
<1>2. /\ DOMAIN Append(journal[i], row) = DOMAIN journal[i] \union {Len(journal[i]) + 1}
      /\ \A r \in DOMAIN journal[i] : Append(journal[i], row)[r] = journal[i][r]
  <2>. HIDE DEF S
  <2>. QED
    BY <1>1, AppendFacts
<1>3. /\ journal'[i] = Append(journal[i], row)
      /\ \A j \in Issues : j # i => journal'[j] = journal[j]
  BY DEF TypeOK, Insert
<1>. QED
  BY <1>2, <1>3 DEF RowsKept, Exists

LEMMA UpdateKeeps ==
  ASSUME TypeOK, NEW i \in Issues, NEW p, NEW s, UpdateChange(i, p, s), UNCHANGED journal,
         s \in {"active", "archived", "failed"}, Exists(i) \/ changes[i].status = "none"
  PROVE  \A j \in Issues : RowsKept(j)
<1>1. /\ changes'[i] = [phase |-> p, status |-> s]
      /\ \A j \in Issues : j # i => changes'[j] = changes[j]
  BY UpdateFacts
<1>. QED
  BY <1>1 DEF RowsKept, Exists

\* The steps that have nothing to do with plans.
LEMMA OtherSteps ==
  ASSUME IInv, NEW w \in Workers,
         \/ Request(w) \/ StatementFails(w) \/ BindRefused(w)
         \/ CreateChange(w) \/ Generate(w) \/ SplitHandoff(w) \/ SplitUpdate(w) \/ FailChange(w)
         \/ SaveReport(w) \/ CheckPhaseLegal(w) \/ CheckEntryHandoff(w) \/ CheckHandoffFresh(w)
         \/ RecordHandoff(w) \/ EnterPhase(w) \/ CheckVerifyPassed(w) \/ CloseChange(w)
         \/ WakeParent(w) \/ NotifyParent(w)
  PROVE  /\ UNCHANGED <<subIssues, mapping>> /\ \A j \in Issues : RowsKept(j)
         /\ op'[w].pc \notin PlanPCs /\ \A v \in Workers : v # w => op'[v] = op[v]
<1>0. TypeOK /\ (op[w].pc # "idle" => op[w].issue \in Issues)
  BY DEF IInv, ControlOK
<1>a. op[w] \in Ops /\ \A o : Move(w, o) => op'[w] = o
  BY <1>0 DEF TypeOK, Move
<1>b. \A o : Move(w, o) => \A v \in Workers : v # w => op'[v] = op[v]
  BY <1>0 DEF TypeOK, Move
<1>1. Done(w) => op'[w].pc = "idle" /\ \A v \in Workers : v # w => op'[v] = op[v]
  BY <1>a, <1>b DEF Done, Idle
<1>2. ASSUME NEW pc, Goto(w, pc)
      PROVE  op'[w].pc = pc /\ \A v \in Workers : v # w => op'[v] = op[v]
  BY <1>a, <1>b, <1>2 DEF Goto, Ops
<1>3. Refuse(w) => op'[w].pc \in {"idle", "fail"} /\ \A v \in Workers : v # w => op'[v] = op[v]
  BY <1>1, <1>2 DEF Refuse
<1>4. UNCHANGED <<changes, journal>> => \A j \in Issues : RowsKept(j)
  BY DEF RowsKept, Exists
<1>5. CASE Request(w)
  <2>1. UNCHANGED tables
    BY <1>5 DEF Request, StartChange, WriteArtifact, SubmitVerifyReport, AdvancePhase, Archive
  <2>2. ASSUME NEW i, NEW goal, StartChange(w, i, goal) PROVE op'[w].pc = "create"
    BY <1>a, <2>2 DEF StartChange, Begin, Idle
  <2>3. ASSUME NEW i, NEW k, NEW c, WriteArtifact(w, i, k, c) PROVE op'[w].pc = "write"
    BY <1>a, <2>3 DEF WriteArtifact, Begin, Idle
  <2>4. ASSUME NEW i, NEW c, SubmitVerifyReport(w, i, c) PROVE op'[w].pc = "report"
    BY <1>a, <2>4 DEF SubmitVerifyReport, Begin, Idle
  <2>5. ASSUME NEW i, AdvancePhase(w, i) \/ Archive(w, i) PROVE op'[w].pc = "legal"
    BY <1>a, <2>5 DEF AdvancePhase, Archive, Begin, Idle
  <2>6. op'[w].pc \in {"create", "write", "report", "legal"}
    BY <1>5, <2>2, <2>3, <2>4, <2>5 DEF Request
  <2>. QED
    BY <1>0, <1>4, <1>5, <2>1, <2>6, OthersStay DEF tables, PlanPCs
<1>6. CASE \/ StatementFails(w) \/ BindRefused(w)
  BY <1>1, <1>3, <1>4, <1>6 DEF StatementFails, BindRefused, tables, PlanPCs
<1>7. CASE \/ Generate(w) \/ CheckPhaseLegal(w) \/ CheckVerifyPassed(w)
           \/ WakeParent(w) \/ NotifyParent(w)
  BY <1>1, <1>2, <1>4, <1>7
  DEF Generate, CheckPhaseLegal, PastHandoffGate, CheckVerifyPassed, WakeParent, NotifyParent,
      tables, PlanPCs
<1>8. CASE CheckEntryHandoff(w) \/ CheckHandoffFresh(w)
  <2>1. CheckEntryHandoff(w) => op'[w].pc \in {"idle", "fresh"}
    BY <1>a, <1>1 DEF CheckEntryHandoff, Ops
  <2>2. CheckHandoffFresh(w) => op'[w].pc \in {"idle", "record", "verdict"}
    BY <1>a, <1>1, <1>2 DEF CheckHandoffFresh, PastHandoffGate, Ops
  <2>3. Step(w) /\ UNCHANGED tables
    BY <1>8 DEF Step, CheckEntryHandoff, CheckHandoffFresh
  <2>. QED
    BY <1>0, <1>4, <1>8, <2>1, <2>2, <2>3, OthersStay DEF tables, PlanPCs
<1>9. CASE SplitHandoff(w) \/ SaveReport(w) \/ RecordHandoff(w)
  <2>1. op[w].issue \in Issues /\ UNCHANGED <<changes, subIssues, mapping>>
    BY <1>0, <1>9 DEF SplitHandoff, SaveReport, RecordHandoff, At
  <2>2. \A j \in Issues : RowsKept(j)
    BY <1>0, <1>4, <1>9, <2>1, InsertKeeps DEF SplitHandoff, SaveReport, RecordHandoff
  <2>3. \/ Goto(w, "update") \/ Goto(w, "enter") \/ Done(w) \/ Refuse(w)
    BY <1>9 DEF SplitHandoff, SaveReport, RecordHandoff
  <2>. QED
    BY <1>1, <1>2, <1>3, <2>1, <2>2, <2>3 DEF PlanPCs
<1>10. CASE \/ CreateChange(w) \/ SplitUpdate(w) \/ FailChange(w) \/ EnterPhase(w)
            \/ CloseChange(w)
  <2>1. op[w].issue \in Issues /\ UNCHANGED <<journal, subIssues, mapping>>
    BY <1>0, <1>10 DEF CreateChange, SplitUpdate, FailChange, EnterPhase, CloseChange, At
  <2>2. \/ UNCHANGED changes
        \/ \E p, s : /\ UpdateChange(op[w].issue, p, s) /\ s \in {"active", "archived", "failed"}
                     /\ Exists(op[w].issue) \/ changes[op[w].issue].status = "none"
    BY <1>10 DEF CreateChange, SplitUpdate, FailChange, EnterPhase, CloseChange
  <2>3. \A j \in Issues : RowsKept(j)
    BY <1>0, <1>4, <2>1, <2>2, UpdateKeeps
  <2>4. SplitUpdate(w) => op'[w].pc \in {"generate", "fail"}
    BY <1>a DEF SplitUpdate, Ops
  <2>5. CreateChange(w) => op'[w].pc \in {"generate", "idle"}
    BY <1>1, <1>2 DEF CreateChange
  <2>6. FailChange(w) \/ EnterPhase(w) \/ CloseChange(w) => op'[w].pc \in {"wake", "idle"}
    BY <1>1, <1>2 DEF FailChange, EnterPhase, CloseChange
  <2>7. Step(w)
    BY <1>10 DEF Step
  <2>. QED
    BY <1>0, <1>10, <2>1, <2>3, <2>4, <2>5, <2>6, <2>7, OthersStay DEF PlanPCs
<1>. QED
  BY <1>5, <1>6, <1>7, <1>8, <1>9, <1>10

LEMMA OtherStepsKeepPlans ==
  ASSUME IInv, PInv, NEW w \in Workers, UNCHANGED <<subIssues, mapping>>,
         \A j \in Issues : RowsKept(j), op'[w].pc \notin PlanPCs,
         \A v \in Workers : v # w => op'[v] = op[v]
  PROVE  PInv'
<1>1. ASSUME NEW i \in Issues PROVE PlansOK(i)'
  <2>1. \A v \in Workers : op'[v] = op[v] \/ ~HoldsPlan(v, i)'
    BY DEF HoldsPlan
  <2>. QED
    BY <2>1, PlansStay DEF PInv
<1>. QED
  BY <1>1 DEF PInv

\* A tasks artifact is saved, and its writer goes on to bind it.
LEMMA EnterPlan ==
  ASSUME IInv, PInv, NEW w \in Workers, NEW i \in Issues, NEW row, Exists(i),
         Insert(i, row), UNCHANGED <<changes, subIssues, mapping>>,
         op'[w].issue = i, op'[w].pc = "bind", op'[w].items = <<>>,
         op'[w].row = Len(journal[i]) + 1, \A v \in Workers : v # w => op'[v] = op[v]
  PROVE  PInv'
<1>. DEFINE r == Len(journal[i]) + 1
<1>0. TypeOK /\ PlansOK(i) /\ journal[i] \in Seq(Rows)
  BY DEF IInv, PInv, TypeOK
<1>1. \A j \in Issues : RowsKept(j)
  BY <1>0, InsertKeeps
<1>2. ASSUME NEW j \in Issues, j # i PROVE PlansOK(j)'
  <2>1. \A v \in Workers : op'[v] = op[v] \/ ~HoldsPlan(v, j)'
    BY <1>2 DEF HoldsPlan
  <2>. QED
    BY <1>1, <2>1, PlansStay DEF PInv
<1>3. r \notin DOMAIN journal[i]
  BY <1>0
<1>. HIDE DEF r
<1>4. \A q : FromPlan(i, q)' = FromPlan(i, q) /\ Living(i, q)' = Living(i, q)
  BY DEF FromPlan, Living
<1>5. FromPlan(i, r) = {}
  BY <1>0, <1>3 DEF PlansOK, Origins, FromPlan
<1>6. ASSUME NEW v \in Workers, v # w, HoldsPlan(v, i)'
      PROVE  op'[v] = op[v] /\ HoldsPlan(v, i) /\ op[v].row # r
  <2>1. op'[v] = op[v] /\ HoldsPlan(v, i)
    BY <1>6 DEF HoldsPlan
  <2>. QED
    BY <1>3, <2>1, HolderSaved
<1>7. Origins(i)'
  BY <1>0, <1>1 DEF PlansOK, Origins, RowsKept
<1>8. ASSUME NEW m \in mapping'[i] PROVE BoundOK(i, m)' /\ m.row # r
  <2>1. BoundOK(i, m)
    BY <1>0, <1>8 DEF PlansOK
  <2>2. Saved(i, m.row, "plan")'
    BY <1>1, <2>1, SavedKept DEF BoundOK
  <2>. QED
    BY <1>3, <1>4, <2>1, <2>2 DEF BoundOK, Numbers, Saved, ArtifactsOf
<1>9. Apart(i)'
  <2>1. Apart(i)
    BY <1>0 DEF PlansOK
  <2>. QED
    BY <1>6, <2>1 DEF Apart, r
<1>10. ASSUME NEW v \in Workers, HoldsPlan(v, i)' PROVE PlanOK(v, i)' /\ ClearedOK(v, i)'
  <2>1. CASE v = w
    <3>1. Collected(<<>>) = {} /\ Numbers({}, 0) /\ Len(<<>>) = 0
      BY FS_EmptySet DEF Collected, Numbers
    <3>2. PlanOK(w, i)'
      BY <1>4, <1>5, <1>8, <3>1 DEF PlanOK, r, Numbers, Collected
    <3>3. ClearedOK(w, i)'
      BY DEF ClearedOK
    <3>. QED
      BY <2>1, <3>2, <3>3
  <2>2. CASE v # w
    <3>1. PlanOK(v, i) /\ ClearedOK(v, i)
      BY <1>0, <1>6, <1>10, <2>2 DEF PlansOK
    <3>2. PlanOK(v, i)'
      BY <1>4, <1>6, <1>10, <2>2, <3>1 DEF PlanOK, Numbers
    <3>3. ASSUME op[v].pc = "insert", NEW m \in op[v].cleared
          PROVE  /\ m.row \in DOMAIN journal'[i]
                 /\ \A u \in Workers : HoldsPlan(u, i)' => op'[u].row # m.row
                 /\ \A b \in mapping'[i] : b.row = m.row => b \in op[v].cleared
      BY <1>1, <1>3, <1>6, <3>1, <3>3 DEF ClearedOK, RowsKept, r
    <3>. QED
      BY <1>6, <1>10, <2>2, <3>2, <3>3 DEF ClearedOK
  <2>. QED
    BY <2>1, <2>2
<1>11. PlansOK(i)'
  BY <1>1, <1>7, <1>8, <1>9, <1>10 DEF PlansOK, RowsKept
<1>. QED
  BY <1>2, <1>11 DEF PInv

LEMMA SavePlans ==
  ASSUME IInv, PInv, NEW w \in Workers, SaveArtifact(w) \/ SaveGenerated(w)
  PROVE  PInv'
<1>1. /\ TypeOK /\ op[w] \in Ops /\ op[w].pc \in {"write", "save"} /\ op[w].issue \in Issues
      /\ op[w].items = <<>> /\ UNCHANGED <<changes, subIssues, mapping>>
  BY DEF IInv, TypeOK, ControlOK, SaveArtifact, SaveGenerated, At
<1>2. \A v \in Workers : v # w => op'[v] = op[v]
  BY <1>1, OthersStay DEF Step
<1>3. \A o : Move(w, o) => op'[w] = o
  BY <1>1 DEF TypeOK, Move
<1>4. CASE op'[w].pc \notin PlanPCs
  <2>1. UNCHANGED journal \/ \E row : Insert(op[w].issue, row)
    BY DEF SaveArtifact, SaveGenerated
  <2>2. \A j \in Issues : RowsKept(j)
    BY <1>1, <2>1, InsertKeeps DEF RowsKept, Exists
  <2>. QED
    BY <1>1, <1>2, <1>4, <2>2, OtherStepsKeepPlans
<1>5. CASE op'[w].pc \in PlanPCs
  <2>1. ~Done(w) /\ ~Refuse(w)
    <3>1. Done(w) => op'[w].pc = "idle"
      BY <1>3 DEF Done, Idle
    <3>2. Goto(w, "fail") => op'[w].pc = "fail"
      BY <1>1, PCMoves
    <3>. QED
      BY <1>5, <3>1, <3>2 DEF Refuse, PlanPCs
  <2>2. CASE SaveArtifact(w)
    <3>. DEFINE o == [op[w] EXCEPT !.pc = "bind", !.row = Len(journal[op[w].issue]) + 1]
    <3>1. /\ Exists(op[w].issue) /\ Move(w, o)
          /\ Insert(op[w].issue, Artifact(op[w].kind, op[w].content))
      BY <2>1, <2>2 DEF SaveArtifact
    <3>2. /\ o.issue = op[w].issue /\ o.pc = "bind" /\ o.items = op[w].items
          /\ o.row = Len(journal[op[w].issue]) + 1
      BY <1>1 DEF Ops
    <3>. HIDE DEF o
    <3>3. op'[w] = o
      BY <1>3, <3>1
    <3>. QED
      BY <1>1, <1>2, <3>1, <3>2, <3>3, EnterPlan
  <2>3. CASE SaveGenerated(w)
    <3>. DEFINE p == op[w].phase
                c == IF p = N THEN "plan" ELSE "text"
                o == [op[w] EXCEPT !.pc = IF p = N THEN "bind" ELSE "handoff", !.content = c,
                                   !.row = Len(journal[op[w].issue]) + 1]
    <3>1. /\ Exists(op[w].issue) /\ Move(w, o) /\ Insert(op[w].issue, Artifact(p, c))
      BY <2>1, <2>3 DEF SaveGenerated
    <3>2. /\ o.issue = op[w].issue /\ o.pc = (IF p = N THEN "bind" ELSE "handoff")
          /\ o.items = op[w].items /\ o.row = Len(journal[op[w].issue]) + 1
      BY <1>1 DEF Ops
    <3>. HIDE DEF o, c
    <3>3. op'[w] = o
      BY <1>3, <3>1
    <3>4. op'[w].pc = "bind"
      BY <1>5, <3>2, <3>3 DEF PlanPCs
    <3>. QED
      BY <1>1, <1>2, <3>1, <3>2, <3>3, <3>4, EnterPlan
  <2>. QED
    BY <2>2, <2>3
<1>. QED
  BY <1>4, <1>5

\* One more sub-issue is created from the plan of one worker.
LEMMA CreatePlans ==
  ASSUME IInv, PInv, NEW w \in Workers, CreateSubIssue(w)
  PROVE  PInv'
<1>0. PICK i, r, id : i = op[w].issue /\ r = op[w].row /\ id = Len(subIssues[op[w].issue]) + 1
  OBVIOUS
<1>1. /\ UNCHANGED <<changes, journal, mapping>> /\ i \in Issues /\ Exists(i)
      /\ HoldsPlan(w, i) /\ PlansOK(i) /\ op[w].items \in Seq(Nat)
  BY <1>0, CreateFacts DEF CreateSubIssue, HoldsPlan, PlanPCs, PInv
<1>2. /\ \A j \in Issues : j # i => subIssues'[j] = subIssues[j]
      /\ id \notin DOMAIN subIssues[i] /\ id \in Nat
      /\ DOMAIN subIssues'[i] = DOMAIN subIssues[i] \union {id}
      /\ \A n \in DOMAIN subIssues[i] : subIssues'[i][n] = subIssues[i][n]
      /\ subIssues'[i][id].row = r
  <2>1. subIssues'[i][id] = [row |-> r, live |-> TRUE]
    BY <1>0, SubIssueAdded
  <2>2. /\ \A j \in Issues : j # i => subIssues'[j] = subIssues[j]
        /\ id \notin DOMAIN subIssues[i] /\ id \in Nat
    BY <1>0, SubIssueAdded
  <2>3. /\ DOMAIN subIssues'[i] = DOMAIN subIssues[i] \union {id}
        /\ \A n \in DOMAIN subIssues[i] : subIssues'[i][n] = subIssues[i][n]
    BY <1>0, SubIssueAdded
  <2>4. subIssues'[i][id].row = r
    BY <2>1
  <2>. QED
    BY <2>2, <2>3, <2>4
<1>3. /\ op'[w].issue = i /\ op'[w].row = r /\ op'[w].items = Append(op[w].items, id)
      /\ op'[w].pc \in {"bind", "map"}
      /\ op'[w].pc = "map" => Len(op'[w].items) = PlanSize
      /\ \A v \in Workers : v # w => op'[v] = op[v]
  BY <1>0, CreateFacts
<1>4. \A j \in Issues : RowsKept(j)
  BY <1>1 DEF RowsKept, Exists
<1>5. ASSUME NEW j \in Issues, j # i PROVE PlansOK(j)'
  <2>1. \A v \in Workers : op'[v] = op[v] \/ ~HoldsPlan(v, j)'
    BY <1>3, <1>5 DEF HoldsPlan
  <2>2. subIssues'[j] = subIssues[j] /\ mapping'[j] = mapping[j] /\ PlansOK(j)
    BY <1>1, <1>2, <1>5 DEF PInv
  <2>. QED
    BY <1>4, <2>1, <2>2, PlansStay
<1>6. ASSUME NEW q, q # r PROVE FromPlan(i, q)' = FromPlan(i, q) /\ Living(i, q)' = Living(i, q)
  <2>1. FromPlan(i, q)' = FromPlan(i, q)
    BY <1>2, <1>6 DEF FromPlan
  <2>. QED
    BY <1>2, <2>1 DEF Living, FromPlan
<1>7. FromPlan(i, r)' = FromPlan(i, r) \union {id}
  BY <1>2 DEF FromPlan
<1>8. ASSUME NEW v \in Workers
      PROVE  (HoldsPlan(v, i)' <=> HoldsPlan(v, i)) /\ op'[v].row = op[v].row
  BY <1>0, <1>1, <1>3 DEF HoldsPlan, PlanPCs
<1>9. PlanOK(w, i)
  BY <1>1 DEF PlansOK
<1>10. Origins(i)'
  BY <1>0, <1>1, <1>2, HolderSaved DEF PlansOK, Origins
<1>11. ASSUME NEW m \in mapping'[i] PROVE BoundOK(i, m)'
  <2>1. BoundOK(i, m) /\ m.row # r
    BY <1>0, <1>1, <1>9, <1>11 DEF PlansOK, PlanOK
  <2>2. Saved(i, m.row, "plan")'
    BY <1>1, <1>4, <2>1, SavedKept DEF BoundOK
  <2>. QED
    BY <1>1, <1>6, <2>1, <2>2 DEF BoundOK, Numbers
<1>12. Apart(i)'
  <2>1. Apart(i)
    BY <1>1 DEF PlansOK
  <2>. QED
    BY <1>8, <2>1 DEF Apart
<1>13. ASSUME NEW v \in Workers, HoldsPlan(v, i)' PROVE PlanOK(v, i)' /\ ClearedOK(v, i)'
  <2>1. PlanOK(v, i) /\ ClearedOK(v, i)
    BY <1>1, <1>8, <1>13 DEF PlansOK
  <2>2. CASE v = w
    <3>1. Collected(Append(op[w].items, id)) = Collected(op[w].items) \union {id}
      <4>1. /\ DOMAIN Append(op[w].items, id) = DOMAIN op[w].items \union {Len(op[w].items) + 1}
            /\ \A n \in DOMAIN op[w].items : Append(op[w].items, id)[n] = op[w].items[n]
            /\ Append(op[w].items, id)[Len(op[w].items) + 1] = id
        <5>1. op[w].items \in Seq(Nat) /\ id \in Nat
          BY <1>1, <1>2
        <5>. QED
          BY <5>1, AppendFacts
      <4>. QED
        BY <4>1 DEF Collected
    <3>2. Len(Append(op[w].items, id)) = Len(op[w].items) + 1
      BY <1>1, <1>2
    <3>3. id \notin FromPlan(i, r)
      BY <1>2 DEF FromPlan
    <3>4. Numbers(FromPlan(i, r) \union {id}, Len(op[w].items) + 1)
      BY <1>0, <1>9, <3>3, FS_AddElement DEF PlanOK, Numbers
    <3>5. PlanOK(w, i)'
      <4>1. FromPlan(i, op[w].row)' = FromPlan(i, r) \union {id}
        BY <1>0, <1>3, <1>7
      <4>2. FromPlan(i, r) = Collected(op[w].items)
        BY <1>0, <1>9 DEF PlanOK
      <4>3. \A m \in mapping'[i] : m.row # r
        BY <1>0, <1>1, <1>9 DEF PlanOK
      <4>4. Collected(op[w].items)' = Collected(op[w].items) \union {id}
        BY <1>3, <3>1 DEF Collected
      <4>5. op'[w].pc \in {"map", "insert"} => Len(op'[w].items) = PlanSize
        BY <1>3
      <4>6. Numbers(FromPlan(i, op[w].row), Len(op[w].items))'
        BY <1>3, <3>2, <3>4, <4>1 DEF Numbers
      <4>. QED
        BY <1>3, <4>1, <4>2, <4>3, <4>4, <4>5, <4>6 DEF PlanOK
    <3>6. ClearedOK(w, i)'
      BY <1>3 DEF ClearedOK
    <3>. QED
      BY <2>2, <3>5, <3>6
  <2>3. CASE v # w
    <3>1. op'[v] = op[v] /\ op[v].row # r
      BY <1>0, <1>1, <1>3, <1>8, <1>13, <2>3 DEF PlansOK, Apart
    <3>2. PlanOK(v, i)'
      BY <1>1, <1>6, <2>1, <3>1 DEF PlanOK, Numbers
    <3>3. ClearedOK(v, i)'
      BY <1>1, <1>8, <2>1, <3>1 DEF ClearedOK
    <3>. QED
      BY <3>2, <3>3
  <2>. QED
    BY <2>2, <2>3
<1>14. PlansOK(i)'
  BY <1>1, <1>10, <1>11, <1>12, <1>13 DEF PlansOK, Exists
<1>. QED
  BY <1>5, <1>14 DEF PInv

\* The DELETE sees whole plans, none of which a worker still adds to.
LEMMA ClearPlans ==
  ASSUME IInv, PInv, NEW w \in Workers, ClearMappings(w)
  PROVE  PInv'
<1>0. PICK i : i = op[w].issue
  OBVIOUS
<1>1. /\ UNCHANGED tables /\ i \in Issues /\ HoldsPlan(w, i) /\ PlansOK(i)
      /\ op[w].pc = "map"
  BY <1>0, ClearFacts DEF ClearMappings, HoldsPlan, PlanPCs, PInv
<1>2. /\ op'[w].issue = i /\ op'[w].row = op[w].row /\ op'[w].items = op[w].items
      /\ op'[w].pc = "insert" /\ op'[w].cleared = mapping[i]
      /\ \A v \in Workers : v # w => op'[v] = op[v]
  <2>1. Clears(w).cleared = mapping[i]
    BY <1>0, ClearFacts DEF Clears, Ops, IInv, TypeOK
  <2>. QED
    BY <1>0, <2>1, ClearFacts
<1>3. \A j \in Issues : RowsKept(j)
  BY <1>1 DEF RowsKept, Exists, tables
<1>4. ASSUME NEW j \in Issues, j # i PROVE PlansOK(j)'
  <2>1. \A v \in Workers : op'[v] = op[v] \/ ~HoldsPlan(v, j)'
    BY <1>2, <1>4 DEF HoldsPlan
  <2>2. subIssues'[j] = subIssues[j] /\ mapping'[j] = mapping[j] /\ PlansOK(j)
    BY <1>1, <1>4 DEF PInv, tables
  <2>. QED
    BY <1>3, <2>1, <2>2, PlansStay
<1>5. ASSUME NEW v \in Workers
      PROVE  /\ HoldsPlan(v, i)' <=> HoldsPlan(v, i)
             /\ op'[v].row = op[v].row /\ op'[v].items = op[v].items
  BY <1>1, <1>2 DEF HoldsPlan, PlanPCs
<1>6. \A q : FromPlan(i, q)' = FromPlan(i, q) /\ Living(i, q)' = Living(i, q)
  BY <1>1 DEF FromPlan, Living, tables
<1>7. ASSUME NEW m \in mapping[i] PROVE m.row \in DOMAIN journal[i] /\ BoundOK(i, m)'
  <2>1. BoundOK(i, m)
    BY <1>1, <1>7 DEF PlansOK
  <2>2. Saved(i, m.row, "plan")'
    BY <1>1, <1>3, <2>1, SavedKept DEF BoundOK
  <2>. QED
    BY <1>1, <1>6, <2>1, <2>2 DEF BoundOK, Numbers, Saved, ArtifactsOf, tables
<1>8. ASSUME Exists(i), NEW v \in Workers, HoldsPlan(v, i)' PROVE PlanOK(v, i)' /\ ClearedOK(v, i)'
  <2>1. /\ \A u \in Workers : HoldsPlan(u, i) => PlanOK(u, i)
        /\ ClearedOK(v, i) /\ HoldsPlan(v, i)
    BY <1>1, <1>5, <1>8 DEF PlansOK
  <2>2. PlanOK(v, i)'
    <3>1. op'[v].pc \in {"map", "insert"} => Len(op[v].items) = PlanSize
      BY <1>1, <1>2, <1>8, <2>1 DEF PlanOK
    <3>2. PlanOK(v, i) /\ mapping' = mapping
      BY <1>1, <2>1 DEF tables
    <3>. QED
      BY <1>5, <1>6, <3>1, <3>2 DEF PlanOK, Numbers, Collected
  <2>3. CASE v = w
    <3>1. ASSUME NEW m \in mapping[i]
          PROVE  /\ m.row \in DOMAIN journal'[i]
                 /\ \A u \in Workers : HoldsPlan(u, i)' => op'[u].row # m.row
                 /\ \A b \in mapping'[i] : b.row = m.row => b \in mapping[i]
      BY <1>1, <1>5, <1>7, <2>1, <3>1 DEF PlanOK, tables
    <3>2. ClearedOK(w, i)'
      BY <1>2, <3>1 DEF ClearedOK
    <3>. QED
      BY <2>2, <2>3, <3>2
  <2>4. CASE v # w
    <3>1. op'[v] = op[v] /\ mapping' = mapping /\ journal' = journal
      BY <1>1, <1>2, <2>4 DEF tables
    <3>2. ClearedOK(v, i)'
      BY <1>5, <2>1, <3>1 DEF ClearedOK
    <3>. QED
      BY <2>2, <3>2
  <2>. QED
    BY <2>3, <2>4
<1>9. PlansOK(i)'
  <2>1. Exists(i)' <=> Exists(i)
    BY <1>1 DEF Exists, tables
  <2>2. Origins(i)' /\ mapping'[i] = mapping[i]
    BY <1>1 DEF PlansOK, Origins, tables
  <2>3. Exists(i) => Apart(i)'
    BY <1>1, <1>5 DEF PlansOK, Apart
  <2>. QED
    BY <1>1, <1>7, <1>8, <2>1, <2>2, <2>3 DEF PlansOK
<1>. QED
  BY <1>4, <1>9 DEF PInv

\* The INSERTs commit: the rows of a whole plan come, and those of whole plans
\* went, as the DELETE saw them.
LEMMA BindPlans ==
  ASSUME IInv, PInv, NEW w \in Workers, SetTaskMappings(w), mapping' # mapping
  PROVE  PInv'
<1>0. PICK i, r, items, cleared : /\ i = op[w].issue /\ r = op[w].row /\ items = op[w].items
                                  /\ cleared = op[w].cleared
  OBVIOUS
<1>1. /\ UNCHANGED <<changes, journal, subIssues>> /\ i \in Issues /\ Exists(i) /\ TypeOK
      /\ op[w].pc = "insert" /\ HoldsPlan(w, i) /\ PlansOK(i)
      /\ \A n \in DOMAIN items : items[n] \in Living(i, r)
      /\ mapping' = [mapping EXCEPT ![i] = (mapping[i] \ cleared) \union BindTo(r, items)]
      /\ Done(w)
  BY <1>0 DEF SetTaskMappings, IInv, TypeOK, ControlOK, At, HoldsPlan, PlanPCs, PInv
<1>2. op'[w].pc = "idle" /\ \A v \in Workers : v # w => op'[v] = op[v]
  BY <1>1, DoneFacts DEF TypeOK, Idle
<1>3. /\ mapping'[i] = (mapping[i] \ cleared) \union BindTo(r, items)
      /\ \A j \in Issues : j # i => mapping'[j] = mapping[j]
  BY <1>1 DEF TypeOK
<1>4. \A j \in Issues : RowsKept(j)
  BY <1>1 DEF RowsKept, Exists
<1>5. ASSUME NEW v \in Workers
      PROVE  \A j : HoldsPlan(v, j)' => HoldsPlan(v, j) /\ op'[v] = op[v] /\ v # w
  BY <1>2 DEF HoldsPlan, PlanPCs
<1>6. ASSUME NEW j \in Issues, j # i PROVE PlansOK(j)'
  <2>1. \A v \in Workers : op'[v] = op[v] \/ ~HoldsPlan(v, j)'
    BY <1>5
  <2>2. subIssues'[j] = subIssues[j] /\ mapping'[j] = mapping[j] /\ PlansOK(j)
    BY <1>1, <1>3, <1>6 DEF PInv
  <2>. QED
    BY <1>4, <2>1, <2>2, PlansStay
<1>7. \A q : FromPlan(i, q)' = FromPlan(i, q) /\ Living(i, q)' = Living(i, q)
  BY <1>1 DEF FromPlan, Living
<1>8. /\ FromPlan(i, r) = Collected(items) /\ Numbers(FromPlan(i, r), PlanSize)
      /\ \A m \in mapping[i] : m.row # r
      /\ \A m \in cleared : \A b \in mapping[i] : b.row = m.row => b \in cleared
  BY <1>0, <1>1 DEF PlansOK, PlanOK, ClearedOK
<1>9. Saved(i, r, "plan")
  BY <1>0, <1>1, HolderSaved
<1>10. ASSUME NEW m \in BindTo(r, items) PROVE BoundOK(i, m)'
  <2>1. PICK n \in DOMAIN items : m = [row |-> r, sub |-> items[n]]
    BY <1>10 DEF BindTo
  <2>2. m.row = r /\ m.sub \in Living(i, r)
    BY <1>1, <2>1
  <2>3. ASSUME NEW k \in Living(i, r) PROVE [row |-> r, sub |-> k] \in mapping'[i]
    <3>1. PICK l \in DOMAIN items : k = items[l]
      BY <1>8 DEF Living, Collected
    <3>. QED
      BY <1>3, <3>1 DEF BindTo
  <2>4. Saved(i, r, "plan")'
    BY <1>1, <1>4, <1>9, SavedKept
  <2>. QED
    BY <1>7, <1>8, <2>2, <2>3, <2>4 DEF BoundOK, Numbers
<1>11. ASSUME NEW m \in mapping[i] \ cleared PROVE BoundOK(i, m)'
  <2>1. BoundOK(i, m)
    BY <1>1, <1>11 DEF PlansOK
  <2>2. ASSUME NEW n \in Living(i, m.row) PROVE [row |-> m.row, sub |-> n] \in mapping'[i]
    <3>1. [row |-> m.row, sub |-> n] \in mapping[i]
      BY <2>1, <2>2 DEF BoundOK
    <3>2. [row |-> m.row, sub |-> n].row = m.row
      OBVIOUS
    <3>3. [row |-> m.row, sub |-> n] \notin cleared
      BY <1>8, <1>11, <3>2
    <3>. QED
      BY <1>3, <3>1, <3>3
  <2>3. Saved(i, m.row, "plan")'
    BY <1>1, <1>4, <2>1, SavedKept DEF BoundOK
  <2>. QED
    BY <1>7, <2>1, <2>2, <2>3 DEF BoundOK, Numbers
<1>12. Origins(i)' /\ Apart(i)' /\ Exists(i)'
  <2>1. Origins(i)' /\ Exists(i)'
    BY <1>1 DEF PlansOK, Origins, Exists
  <2>2. Apart(i)
    BY <1>1 DEF PlansOK
  <2>. QED
    BY <1>5, <2>1, <2>2 DEF Apart
<1>13. ASSUME NEW v \in Workers, HoldsPlan(v, i)' PROVE PlanOK(v, i)' /\ ClearedOK(v, i)'
  <2>1. /\ HoldsPlan(v, i) /\ op'[v] = op[v] /\ v # w /\ PlanOK(v, i) /\ ClearedOK(v, i)
        /\ op[v].row # r
    BY <1>0, <1>1, <1>5, <1>13 DEF PlansOK, Apart
  <2>2. ASSUME NEW m \in mapping'[i] PROVE m \in mapping[i] \/ m.row = r
    BY <1>3, <2>2 DEF BindTo
  <2>3. PlanOK(v, i)'
    <3>1. \A m \in mapping'[i] : m.row # op[v].row
      BY <2>1, <2>2 DEF PlanOK
    <3>. QED
      BY <1>7, <2>1, <3>1 DEF PlanOK, Numbers
  <2>4. ASSUME op[v].pc = "insert", NEW m \in op[v].cleared
        PROVE  /\ m.row \in DOMAIN journal'[i]
               /\ \A u \in Workers : HoldsPlan(u, i)' => op'[u].row # m.row
               /\ \A b \in mapping'[i] : b.row = m.row => b \in op[v].cleared
    <3>1. /\ m.row \in DOMAIN journal[i]
          /\ \A u \in Workers : HoldsPlan(u, i) => op[u].row # m.row
          /\ \A b \in mapping[i] : b.row = m.row => b \in op[v].cleared
      BY <2>1, <2>4 DEF ClearedOK
    <3>2. m.row # r
      BY <1>0, <1>1, <3>1
    <3>. QED
      BY <1>1, <1>5, <2>2, <3>1, <3>2
  <2>. QED
    BY <2>1, <2>3, <2>4 DEF ClearedOK
<1>14. PlansOK(i)'
  <2>1. \A m \in mapping'[i] : BoundOK(i, m)'
    BY <1>3, <1>10, <1>11
  <2>. QED
    BY <1>12, <1>13, <2>1 DEF PlansOK
<1>. QED
  BY <1>6, <1>14 DEF PInv

LEMMA BindingRefused ==
  ASSUME IInv, PInv, NEW w \in Workers, SetTaskMappings(w), UNCHANGED mapping
  PROVE  PInv'
<1>1. /\ TypeOK /\ op[w] \in Ops /\ UNCHANGED <<changes, journal, subIssues>>
      /\ Done(w) \/ Refuse(w)
  BY DEF IInv, TypeOK, SetTaskMappings
<1>2. \A j \in Issues : RowsKept(j)
  BY <1>1 DEF RowsKept, Exists
<1>3. op'[w].pc \in {"idle", "fail"} /\ \A v \in Workers : v # w => op'[v] = op[v]
  BY <1>1, DoneFacts, RefuseFacts DEF TypeOK, Idle
<1>. QED
  BY <1>1, <1>2, <1>3, OtherStepsKeepPlans DEF PlanPCs

\* Deletions: of a change with all that is its own, and of one sub-issue.
LEMMA DeleteIssuePlans ==
  ASSUME IInv, PInv, NEW i \in Issues, DeleteIssue(i)
  PROVE  PInv'
<1>1. /\ TypeOK /\ UNCHANGED op /\ ~Exists(i)' /\ subIssues'[i] = <<>> /\ mapping'[i] = {}
      /\ \A j \in Issues : j # i =>
           /\ changes'[j] = changes[j] /\ journal'[j] = journal[j]
           /\ subIssues'[j] = subIssues[j] /\ mapping'[j] = mapping[j]
  BY DEF IInv, DeleteIssue, TypeOK, Exists
<1>2. ASSUME NEW j \in Issues, j # i PROVE PlansOK(j)'
  <2>1. RowsKept(j)
    BY <1>1, <1>2 DEF RowsKept, Exists
  <2>. QED
    BY <1>1, <1>2, <2>1, PlansStay DEF PInv
<1>3. PlansOK(i)'
  BY <1>1 DEF PlansOK, Origins
<1>. QED
  BY <1>2, <1>3 DEF PInv

LEMMA DeleteSubIssuePlans ==
  ASSUME IInv, PInv, NEW i \in Issues, NEW n \in DOMAIN subIssues[i], DeleteSubIssue(i, n)
  PROVE  PInv'
<1>1. /\ UNCHANGED <<changes, journal, op>> /\ TypeOK /\ PlansOK(i)
  BY DEF IInv, PInv, DeleteSubIssue
<1>2. /\ \A j \in Issues : j # i => subIssues'[j] = subIssues[j] /\ mapping'[j] = mapping[j]
      /\ DOMAIN subIssues'[i] = DOMAIN subIssues[i]
      /\ \A k \in DOMAIN subIssues[i] :
           /\ subIssues'[i][k].row = subIssues[i][k].row
           /\ subIssues'[i][k].live = (subIssues[i][k].live /\ k # n)
      /\ mapping'[i] = {m \in mapping[i] : m.sub # n}
  BY <1>1, SubIssueDeleted
<1>3. \A j \in Issues : RowsKept(j)
  BY <1>1 DEF RowsKept, Exists
<1>4. ASSUME NEW j \in Issues, j # i PROVE PlansOK(j)'
  BY <1>1, <1>2, <1>3, <1>4, PlansStay DEF PInv
<1>5. ASSUME NEW q PROVE FromPlan(i, q)' = FromPlan(i, q) /\ Living(i, q)' = Living(i, q) \ {n}
  <2>1. FromPlan(i, q)' = FromPlan(i, q)
    BY <1>2 DEF FromPlan
  <2>. QED
    BY <1>2, <2>1 DEF Living, FromPlan
<1>6. ASSUME NEW m \in mapping'[i] PROVE BoundOK(i, m)'
  <2>1. BoundOK(i, m) /\ m.sub # n
    BY <1>1, <1>2, <1>6 DEF PlansOK
  <2>2. Saved(i, m.row, "plan")'
    BY <1>1, <1>3, <2>1, SavedKept DEF BoundOK
  <2>3. ASSUME NEW k \in Living(i, m.row) \ {n} PROVE [row |-> m.row, sub |-> k] \in mapping'[i]
    BY <1>2, <2>1 DEF BoundOK
  <2>. QED
    BY <1>5, <2>1, <2>2, <2>3 DEF BoundOK, Numbers
<1>7. Origins(i)' /\ (Exists(i)' <=> Exists(i)) /\ (Apart(i) => Apart(i)')
  BY <1>1, <1>2 DEF PlansOK, Origins, Exists, Apart, HoldsPlan
<1>8. ASSUME NEW v \in Workers, HoldsPlan(v, i)', Exists(i)
      PROVE  PlanOK(v, i)' /\ ClearedOK(v, i)'
  <2>1. PlanOK(v, i) /\ ClearedOK(v, i)
    BY <1>1, <1>8 DEF PlansOK, HoldsPlan
  <2>2. PlanOK(v, i)'
    BY <1>1, <1>2, <1>5, <2>1 DEF PlanOK, Numbers
  <2>3. ClearedOK(v, i)'
    BY <1>1, <1>2, <2>1 DEF ClearedOK, HoldsPlan
  <2>. QED
    BY <2>2, <2>3
<1>9. PlansOK(i)'
  BY <1>1, <1>2, <1>6, <1>7, <1>8 DEF PlansOK
<1>. QED
  BY <1>4, <1>9 DEF PInv

LEMMA PlansInit == Init => PInv
  BY DEF Init, PInv, PlansOK, Origins, Exists

LEMMA PlansNext == IInv /\ PInv /\ [Next]_vars => PInv'
<1>. SUFFICES ASSUME IInv, PInv, [Next]_vars PROVE PInv'
  OBVIOUS
<1>1. ASSUME UNCHANGED tables, \A v \in Workers : op'[v] = op[v] \/ op'[v].pc = "idle"
      PROVE  PInv'
  <2>1. ASSUME NEW i \in Issues PROVE PlansOK(i)'
    <3>1. \A v \in Workers : op'[v] = op[v] \/ ~HoldsPlan(v, i)'
      BY <1>1 DEF HoldsPlan, PlanPCs
    <3>2. RowsKept(i) /\ subIssues'[i] = subIssues[i] /\ mapping'[i] = mapping[i]
      BY <1>1 DEF RowsKept, Exists, tables
    <3>. QED
      BY <3>1, <3>2, PlansStay DEF PInv
  <2>. QED
    BY <2>1 DEF PInv
<1>2. CASE UNCHANGED vars \/ Crash
  BY <1>1, <1>2 DEF vars, tables, Crash, Idle
<1>3. ASSUME NEW w \in Workers, Request(w) \/ StatementFails(w) PROVE PInv'
  BY <1>3, OtherSteps, OtherStepsKeepPlans
<1>4. ASSUME NEW w \in Workers, Step(w) PROVE PInv'
  <2>1. CASE SaveArtifact(w) \/ SaveGenerated(w)
    BY <2>1, SavePlans
  <2>2. CASE CreateSubIssue(w)
    BY <2>2, CreatePlans
  <2>3. CASE ClearMappings(w)
    BY <2>3, ClearPlans
  <2>4. CASE SetTaskMappings(w)
    BY <2>4, BindPlans, BindingRefused
  <2>5. CASE \/ BindRefused(w) \/ CreateChange(w) \/ Generate(w) \/ SplitHandoff(w)
             \/ SplitUpdate(w) \/ FailChange(w) \/ SaveReport(w) \/ CheckPhaseLegal(w)
             \/ CheckEntryHandoff(w) \/ CheckHandoffFresh(w) \/ RecordHandoff(w)
             \/ EnterPhase(w) \/ CheckVerifyPassed(w) \/ CloseChange(w)
             \/ WakeParent(w) \/ NotifyParent(w)
    BY <2>5, OtherSteps, OtherStepsKeepPlans
  <2>. QED
    BY <1>4, <2>1, <2>2, <2>3, <2>4, <2>5 DEF Step
<1>5. ASSUME NEW i \in Issues, DeleteIssue(i) PROVE PInv'
  BY <1>5, DeleteIssuePlans
<1>6. ASSUME NEW i \in Issues, NEW n \in DOMAIN subIssues[i], DeleteSubIssue(i, n) PROVE PInv'
  BY <1>6, DeleteSubIssuePlans
<1>. QED
  BY <1>2, <1>3, <1>4, <1>5, <1>6 DEF Next

\* A plan is bound whole or not at all, however many replace the mapping at
\* once, and whatever is deleted meanwhile: a mapping names plans all of whose
\* sub-issues were created, and every one of them that lives is bound to it.
THEOREM PlansAreBoundWhole == Spec => []PlansBoundWhole
<1>1. PInv => PlansBoundWhole
  BY DEF PInv, PlansOK, BoundOK, PlansBoundWhole, Saved, Numbers
<1>2. Spec => []PInv
  BY PlansInit, PlansNext, Invariance, PTL DEF Spec
<1>. QED
  BY <1>1, <1>2, PTL
==============================================================================
