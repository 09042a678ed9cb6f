--------------------------- MODULE IssueBoardProofs ---------------------------
(***************************************************************************)
(* What IssueBoard keeps for any issues, statuses and assignees:           *)
(*   - with any number of workers, its types (BoardTypeCorrect);           *)
(*   - with one worker and every request, failures included, the tree      *)
(*     (BoardTree), finished issues (FinishedIsFinal), and wakeups that    *)
(*     are earned (EarnedWakeups);                                         *)
(*   - with any number of workers, the tree while nobody edits             *)
(*     (OnlyEditsEndangerTheTree), and that the last child wakes its       *)
(*     parent while issues are created and moved (LastChildAlwaysWakes).   *)
(*                                                                         *)
(* A cycle is a set of issues whose parents are all in the set.  While the *)
(* new parent p of issue i is examined, Bad(S, i, p) describes the sets    *)
(* that would be cycles after the move; every ancestor read so far is in   *)
(* all of them, and as the root's parent is in none there are none.        *)
(***************************************************************************)
EXTENDS IssueBoard, TLAPS

------------------------------------------------------------------------------
(* Types.                                                                  *)

OpTyped(o) ==
  /\ o \in Ops
  /\ o.issue = NoIssue <=> o.pc \in {"idle", "insert"}
  /\ o.walk = NoIssue <=> o.pc # "climb"
  /\ o.pc = "idle" \/ o.row.status \in Names

OpsTyped == op \in [Workers -> Ops] /\ \A w \in Workers : OpTyped(op[w])

TablesTyped ==
  /\ issues \in [Issues -> Row]
  /\ directory \in [Names -> Categories \union {"none"}]
  /\ wakeups \subseteq Issues \X Issues
  /\ asked \subseteq Issues \X Calls

LEMMA TypeParts ==
  /\ TypeOK <=> TablesTyped /\ OpsTyped
  /\ TypeOK' <=> TablesTyped' /\ OpsTyped'
  BY DEF TypeOK, TablesTyped, OpsTyped, OpTyped

LEMMA IdleTyped == OpTyped(Idle)
  BY NamesAssumption DEF OpTyped, Idle, Ops, PCs, Row, NoRow, People

\* A move sets one worker's local variables and no other worker's.
LEMMA Moved ==
  ASSUME OpsTyped, NEW w \in Workers, NEW o, OpTyped(o), Move(w, o)
  PROVE  /\ OpsTyped'
         /\ op'[w] = o
         /\ \A v \in Workers \ {w} : op'[v] = op[v]
  BY DEF OpsTyped, OpTyped, Move

LEMMA Ended ==
  ASSUME OpsTyped, NEW w \in Workers, Done(w)
  PROVE  OpsTyped' /\ op'[w] = Idle
  BY Moved, IdleTyped DEF Done

LEMMA Begun ==
  ASSUME OpsTyped, NEW w \in Workers, NEW o, OpTyped(o), Begin(w, o)
  PROVE  OpsTyped' /\ op'[w] = o /\ op[w] = Idle
  BY Moved DEF Begin

\* Going on with the same issue.
BusyPCs == {"check", "run", "save", "reread", "assigned", "list", "judge", "record", "tell", "changed"}

LEMMA Went ==
  ASSUME OpsTyped, NEW w \in Workers, NEW pc \in BusyPCs, Goto(w, pc), op[w].pc \in BusyPCs
  PROVE  OpsTyped' /\ op'[w] = [op[w] EXCEPT !.pc = pc]
<1>. DEFINE o == [op[w] EXCEPT !.pc = pc]
<1>1. OpTyped(op[w])
  BY DEF OpsTyped
<1>2. OpTyped(o)
  BY <1>1 DEF OpTyped, Ops, PCs, BusyPCs
<1>3. Move(w, o)
  BY DEF Goto
<1>. HIDE DEF o
<1>4. OpsTyped' /\ op'[w] = o
  BY <1>2, <1>3, Moved
<1>. QED
  BY <1>4 DEF o

LEMMA ExistsFacts ==
  ASSUME TablesTyped, NEW i, Exists(i)
  PROVE  i \in Issues /\ issues[i] \in Row /\ issues[i].status \in Names /\ i # NoIssue
  BY IssuesAssumption DEF TablesTyped, Exists, Row

LEMMA AskTyped ==
  ASSUME TablesTyped, NEW i \in Issues, NEW a, NEW call \in Calls, Ask(i, a, call)
  PROVE  asked' \subseteq Issues \X Calls
  BY DEF Ask, TablesTyped

\* Where the copy of the row will be, or has been found to be, fit to write.
GuardedPCs == {"check", "climb", "save", "run"}
Unguarded(w) == op'[w].pc \notin GuardedPCs

\* Ended and Went, with what they say of the program counter.
LEMMA EndedPC ==
  ASSUME OpsTyped, NEW w \in Workers, Done(w)
  PROVE  OpsTyped' /\ Unguarded(w)
  BY Ended DEF Idle, Unguarded, GuardedPCs

LEMMA WentPC ==
  ASSUME OpsTyped, NEW w \in Workers, NEW pc \in BusyPCs \ GuardedPCs, Goto(w, pc),
         op[w].pc \in BusyPCs
  PROVE  OpsTyped' /\ Unguarded(w)
<1>1. op'[w] = [op[w] EXCEPT !.pc = pc] /\ OpsTyped'
  BY Went
<1>2. op[w] \in Ops
  BY DEF OpsTyped
<1>. QED
  BY <1>1, <1>2 DEF Ops, Unguarded

LEMMA SameTables == ASSUME TablesTyped, UNCHANGED tables PROVE TablesTyped'
  BY DEF TablesTyped, tables

------------------------------------------------------------------------------
(* Every action keeps the types.                                           *)

LEMMA CreateIssueType ==
  ASSUME TypeOK, NEW w \in Workers, NEW p \in Issues \union {NoIssue}, NEW a \in Assignees,
         CreateIssue(w, p, a)
  PROVE  TypeOK' /\ Unguarded(w) /\ UNCHANGED issues
<1>1. PICK s \in DefaultStatuses :
        Begin(w, [Idle EXCEPT !.pc = "insert", !.req = "create",
                              !.row = [status |-> s, parent |-> p, assignee |-> a],
                              !.reassigned = (a # "nobody")])
  BY DEF CreateIssue
<1>. DEFINE o == [Idle EXCEPT !.pc = "insert", !.req = "create",
                              !.row = [status |-> s, parent |-> p, assignee |-> a],
                              !.reassigned = (a # "nobody")]
<1>2. s \in Names /\ a \in People
  BY <1>1, InputsAssumption DEF DefaultStatuses
<1>3. OpTyped(o) /\ o.pc = "insert"
  <2>1. [status |-> s, parent |-> p, assignee |-> a] \in Row
    BY <1>2 DEF Row
  <2>2. Idle \in Ops
    BY IdleTyped DEF OpTyped
  <2>3. o \in Ops
    BY <2>1, <2>2 DEF Ops, PCs, Kinds
  <2>4. /\ o.pc = "insert" /\ o.issue = NoIssue /\ o.walk = NoIssue
        /\ o.row.status = s
    BY DEF Idle
  <2>. QED
    BY <2>3, <2>4, <1>2 DEF OpTyped
<1>. HIDE DEF o
<1>4. OpsTyped' /\ op'[w] = o
  BY <1>1, <1>3, Begun, TypeParts DEF o
<1>. QED
  BY <1>3, <1>4, SameTables, TypeParts DEF CreateIssue, Unguarded, GuardedPCs, tables

LEMMA InsertIssueType ==
  ASSUME TypeOK, NEW w \in Workers, InsertIssue(w)
  PROVE  TypeOK' /\ Unguarded(w)
<1>1. ASSUME NEW i \in Issues, issues[i].status = "none",
             issues' = [issues EXCEPT ![i] = op[w].row],
             Move(w, [op[w] EXCEPT !.issue = i, !.pc = "reread"])
      PROVE  TypeOK' /\ Unguarded(w)
  <2>. DEFINE o == [op[w] EXCEPT !.issue = i, !.pc = "reread"]
  <2>1. op[w] \in Ops /\ OpTyped(op[w]) /\ op[w].pc = "insert"
    BY TypeParts DEF OpsTyped, InsertIssue, At
  <2>2. OpTyped(o) /\ o.pc = "reread"
    BY <2>1, IssuesAssumption DEF OpTyped, Ops, PCs
  <2>. HIDE DEF o
  <2>3. OpsTyped' /\ op'[w] = o
    BY <1>1, <2>2, Moved, TypeParts DEF o
  <2>4. TablesTyped'
    BY <1>1, <2>1, TypeParts DEF InsertIssue, TablesTyped, Ops
  <2>. QED
    BY <2>2, <2>3, <2>4, TypeParts DEF Unguarded, GuardedPCs
<1>2. CASE Done(w) /\ UNCHANGED issues
  BY <1>2, EndedPC, SameTables, TypeParts DEF InsertIssue, tables
<1>. QED
  BY <1>1, <1>2 DEF InsertIssue

LEMMA UpdateIssueType ==
  ASSUME TypeOK, NEW w \in Workers, NEW i \in Issues, NEW a \in People, NEW moved \in BOOLEAN,
         NEW p \in Issues \union {NoIssue}, UpdateIssue(w, i, a, moved, p)
  PROVE  /\ TypeOK' /\ UNCHANGED issues /\ Exists(i) /\ (moved => p # i)
         /\ op'[w].issue = i
         /\ op'[w].row.parent = IF moved THEN p ELSE issues[i].parent
         /\ \/ moved /\ p # NoIssue /\ op'[w].pc = "climb" /\ op'[w].walk = p
            \/ ~(moved /\ p # NoIssue) /\ op'[w].pc = "save"
<1>. DEFINE climbs == moved /\ p # NoIssue
            row == [issues[i] EXCEPT !.assignee = a, !.parent = IF moved THEN p ELSE @]
            o == [Idle EXCEPT !.pc = IF climbs THEN "climb" ELSE "save", !.req = "edit",
                              !.issue = i, !.row = row, !.walk = IF climbs THEN p ELSE NoIssue,
                              !.reassigned = (a # issues[i].assignee /\ a # "nobody")]
<1>1. Exists(i) /\ issues[i] \in Row /\ i # NoIssue /\ issues[i].status \in Names
  BY ExistsFacts, TypeParts DEF UpdateIssue
<1>2. /\ row \in Row /\ row.parent = IF moved THEN p ELSE issues[i].parent
      /\ row.status \in Names
  BY <1>1 DEF Row
<1>. HIDE DEF row
<1>3. /\ OpTyped(o) /\ o.issue = i /\ o.row = row
      /\ o.pc = IF climbs THEN "climb" ELSE "save"
      /\ o.walk = IF climbs THEN p ELSE NoIssue
  <2>1. Idle \in Ops
    BY IdleTyped DEF OpTyped
  <2>2. /\ o.pc = IF climbs THEN "climb" ELSE "save"
        /\ o.walk = IF climbs THEN p ELSE NoIssue
        /\ o.issue = i /\ o.row = row
    BY DEF Idle
  <2>3. o \in Ops
    BY <1>2, <1>1, <2>1 DEF Ops, PCs, Kinds
  <2>4. o.walk = NoIssue <=> o.pc # "climb"
    BY <2>2
  <2>. QED
    BY <1>1, <1>2, <2>2, <2>3, <2>4 DEF OpTyped
<1>4. Begin(w, o) /\ (moved => p # i) /\ UNCHANGED tables
  BY DEF UpdateIssue, row
<1>. HIDE DEF o
<1>5. OpsTyped' /\ op'[w] = o
  BY <1>3, <1>4, Begun, TypeParts
<1>. QED
  BY <1>1, <1>2, <1>3, <1>4, <1>5, SameTables, TypeParts DEF tables

LEMMA CloseIssueType ==
  ASSUME TypeOK, NEW w \in Workers, NEW i \in Issues, CloseIssue(w, i)
  PROVE  /\ TypeOK' /\ UNCHANGED issues /\ Exists(i)
         /\ op'[w].pc = "save" /\ op'[w].issue = i /\ op'[w].row.parent = issues[i].parent
<1>. DEFINE o == [Idle EXCEPT !.pc = "save", !.req = "close", !.issue = i,
                              !.row = [issues[i] EXCEPT !.status = "done"]]
<1>1. Exists(i) /\ issues[i] \in Row /\ i # NoIssue
  BY ExistsFacts, TypeParts DEF CloseIssue
<1>2. /\ OpTyped(o) /\ o.pc = "save" /\ o.issue = i /\ o.row.parent = issues[i].parent
  BY <1>1, IdleTyped, NamesAssumption DEF OpTyped, Idle, Ops, PCs, Kinds, Row
<1>3. Begin(w, o) /\ UNCHANGED tables
  BY DEF CloseIssue
<1>. HIDE DEF o
<1>4. OpsTyped' /\ op'[w] = o
  BY <1>2, <1>3, Begun, TypeParts
<1>. QED
  BY <1>1, <1>2, <1>3, <1>4, SameTables, TypeParts DEF tables

LEMMA StartRunType ==
  ASSUME TypeOK, NEW w \in Workers, NEW i \in Issues, StartRun(w, i)
  PROVE  /\ TypeOK' /\ UNCHANGED issues /\ Exists(i)
         /\ op'[w].pc = "run" /\ op'[w].issue = i /\ op'[w].row.parent = issues[i].parent
<1>. DEFINE o == [Idle EXCEPT !.pc = "run", !.req = "set_status", !.issue = i, !.row = issues[i]]
<1>1. Exists(i) /\ issues[i] \in Row /\ i # NoIssue /\ issues[i].status \in Names
  BY ExistsFacts, TypeParts DEF StartRun
<1>2. /\ OpTyped(o) /\ o.pc = "run" /\ o.issue = i /\ o.row.parent = issues[i].parent
  BY <1>1, IdleTyped DEF OpTyped, Idle, Ops, PCs, Kinds
<1>3. Begin(w, o) /\ UNCHANGED tables
  BY DEF StartRun
<1>. HIDE DEF o
<1>4. OpsTyped' /\ op'[w] = o
  BY <1>2, <1>3, Begun, TypeParts
<1>. QED
  BY <1>1, <1>2, <1>3, <1>4, SameTables, TypeParts DEF tables

LEMMA TransitionStatusType ==
  ASSUME TypeOK, NEW w \in Workers, NEW i \in Issues, NEW to \in Names, TransitionStatus(w, i, to)
  PROVE  /\ TypeOK' /\ UNCHANGED issues /\ Exists(i)
         /\ op'[w].pc = "check" /\ op'[w].issue = i /\ op'[w].row.parent = issues[i].parent
<1>. DEFINE o == [Idle EXCEPT !.pc = "check", !.req = "transition", !.issue = i,
                              !.row = issues[i], !.to = to]
<1>1. Exists(i) /\ issues[i] \in Row /\ i # NoIssue /\ issues[i].status \in Names
  BY ExistsFacts, TypeParts DEF TransitionStatus
<1>2. /\ OpTyped(o) /\ o.pc = "check" /\ o.issue = i /\ o.row.parent = issues[i].parent
  BY <1>1, IdleTyped DEF OpTyped, Idle, Ops, PCs, Kinds
<1>3. Begin(w, o) /\ UNCHANGED tables
  BY DEF TransitionStatus
<1>. HIDE DEF o
<1>4. OpsTyped' /\ op'[w] = o
  BY <1>2, <1>3, Begun, TypeParts
<1>. QED
  BY <1>1, <1>2, <1>3, <1>4, SameTables, TypeParts DEF tables

LEMMA CheckTransitionType ==
  ASSUME TypeOK, NEW w \in Workers, CheckTransition(w)
  PROVE  /\ TypeOK' /\ UNCHANGED issues
         /\ \/ Unguarded(w)
            \/ /\ op'[w].pc = "save" /\ op'[w].issue = op[w].issue
               /\ op'[w].row.parent = op[w].row.parent
<1>1. op[w] \in Ops /\ OpTyped(op[w]) /\ op[w].pc = "check"
  BY TypeParts DEF OpsTyped, CheckTransition, At
<1>2. CASE TransitionIn(op[w].row.status, op[w].to)
  <2>. DEFINE o == [op[w] EXCEPT !.row.status = op[w].to, !.pc = "save"]
  <2>1. /\ OpTyped(o) /\ o.pc = "save" /\ o.issue = op[w].issue
        /\ o.row.parent = op[w].row.parent
    BY <1>1 DEF OpTyped, Ops, PCs, Row
  <2>2. Move(w, o)
    BY <1>2 DEF CheckTransition
  <2>. HIDE DEF o
  <2>3. OpsTyped' /\ op'[w] = o
    BY <2>1, <2>2, Moved, TypeParts
  <2>. QED
    BY <2>1, <2>3, SameTables, TypeParts DEF CheckTransition, tables
<1>3. CASE ~TransitionIn(op[w].row.status, op[w].to)
  BY <1>3, EndedPC, SameTables, TypeParts DEF CheckTransition, tables
<1>. QED
  BY <1>2, <1>3

LEMMA ReadAncestorType ==
  ASSUME TypeOK, NEW w \in Workers, ReadAncestor(w)
  PROVE  /\ TypeOK' /\ UNCHANGED issues
         /\ op[w].pc = "climb" /\ op[w].walk \in Issues /\ op[w].issue \in Issues
         /\ LET next == issues[op[w].walk].parent IN
            \/ Unguarded(w)
            \/ /\ Exists(op[w].walk) /\ next # op[w].issue
               /\ op'[w].issue = op[w].issue /\ op'[w].row = op[w].row /\ op'[w].walk = next
               /\ op'[w].pc = IF next = NoIssue THEN "save" ELSE "climb"
<1>. DEFINE next == issues[op[w].walk].parent
<1>1. /\ op[w] \in Ops /\ OpTyped(op[w]) /\ op[w].pc = "climb"
      /\ op[w].walk \in Issues /\ op[w].issue \in Issues
  BY TypeParts DEF OpsTyped, ReadAncestor, At, OpTyped, Ops
<1>2. CASE ~Exists(op[w].walk) \/ next = op[w].issue
  BY <1>1, <1>2, EndedPC, SameTables, TypeParts DEF ReadAncestor, tables
<1>3. CASE Exists(op[w].walk) /\ next # op[w].issue
  <2>. DEFINE o == [op[w] EXCEPT !.walk = next, !.pc = IF next = NoIssue THEN "save" ELSE "climb"]
  <2>1. next \in Issues \union {NoIssue}
    BY <1>1, TypeParts DEF TablesTyped, Row
  <2>. HIDE DEF next
  <2>2. /\ OpTyped(o) /\ o.pc = (IF next = NoIssue THEN "save" ELSE "climb")
        /\ o.issue = op[w].issue /\ o.row = op[w].row /\ o.walk = next
    BY <1>1, <2>1 DEF OpTyped, Ops, PCs
  <2>3. Move(w, o)
    BY <1>3 DEF ReadAncestor, next
  <2>. HIDE DEF o
  <2>4. OpsTyped' /\ op'[w] = o
    BY <2>2, <2>3, Moved, TypeParts
  <2>5. TablesTyped' /\ UNCHANGED issues
    BY SameTables, TypeParts DEF ReadAncestor, tables
  <2>. QED
    BY <1>1, <1>3, <2>2, <2>4, <2>5, TypeParts DEF next
<1>. QED
  BY <1>2, <1>3

LEMMA SaveRowType ==
  ASSUME TypeOK, NEW w \in Workers, SaveRow(w)
  PROVE  /\ TypeOK' /\ Unguarded(w)
         /\ op[w].pc = "save" /\ op[w].issue \in Issues
<1>1. /\ op[w] \in Ops /\ OpTyped(op[w]) /\ op[w].pc = "save" /\ op[w].issue \in Issues
  BY TypeParts DEF OpsTyped, SaveRow, At, OpTyped, Ops
<1>2. CASE Exists(op[w].issue) /\ Attached(op[w].row)
  <2>1. OpsTyped' /\ Unguarded(w)
    BY <1>1, <1>2, WentPC, TypeParts DEF SaveRow, BusyPCs, GuardedPCs
  <2>2. TablesTyped'
    BY <1>1, <1>2, TypeParts DEF SaveRow, TablesTyped, Ops
  <2>. QED
    BY <1>1, <2>1, <2>2, TypeParts
<1>3. CASE ~(Exists(op[w].issue) /\ Attached(op[w].row))
  BY <1>1, <1>3, EndedPC, SameTables, TypeParts DEF SaveRow, tables
<1>. QED
  BY <1>2, <1>3

LEMMA ReadBackType ==
  ASSUME TypeOK, NEW w \in Workers, ReadBack(w)
  PROVE  TypeOK' /\ Unguarded(w) /\ UNCHANGED issues
<1>1. op[w] \in Ops /\ OpTyped(op[w]) /\ op[w].pc = "reread" /\ op[w].issue \in Issues
  BY TypeParts DEF OpsTyped, ReadBack, At, OpTyped, Ops
<1>2. ASSUME NEW pc \in {"list", "assigned"}, Exists(op[w].issue),
             Move(w, [op[w] EXCEPT !.row = issues[op[w].issue], !.pc = pc])
      PROVE  OpsTyped' /\ Unguarded(w)
  <2>. DEFINE o == [op[w] EXCEPT !.row = issues[op[w].issue], !.pc = pc]
  <2>1. issues[op[w].issue] \in Row /\ issues[op[w].issue].status \in Names
    BY <1>1, <1>2, ExistsFacts, TypeParts DEF TablesTyped
  <2>2. OpTyped(o) /\ o.pc = pc
    BY <1>1, <2>1 DEF OpTyped, Ops, PCs
  <2>. HIDE DEF o
  <2>3. OpsTyped' /\ op'[w] = o
    BY <1>2, <2>2, Moved, TypeParts DEF o
  <2>. QED
    BY <2>2, <2>3 DEF Unguarded, GuardedPCs
<1>3. OpsTyped' /\ Unguarded(w)
  BY <1>2, EndedPC, TypeParts DEF ReadBack
<1>. QED
  BY <1>3, SameTables, TypeParts DEF ReadBack, tables

LEMMA AskTypes ==
  ASSUME TypeOK, NEW w \in Workers, AskAssignee(w) \/ AskAboutStatus(w) \/ AskParent(w)
  PROVE  TypeOK' /\ Unguarded(w) /\ UNCHANGED issues
<1>1. /\ op[w] \in Ops /\ OpTyped(op[w]) /\ op[w].issue \in Issues
      /\ op[w].pc \in {"assigned", "changed", "tell"} /\ op[w].row.parent \in Issues \union {NoIssue}
  BY TypeParts DEF OpsTyped, AskAssignee, AskAboutStatus, AskParent, At, OpTyped, Ops, Row
<1>2. CASE AskAssignee(w) \/ AskAboutStatus(w)
  <2>1. OpsTyped' /\ Unguarded(w)
    BY <1>2, EndedPC, TypeParts DEF AskAssignee, AskAboutStatus
  <2>2. asked' \subseteq Issues \X Calls
    BY <1>1, <1>2, AskTyped, TypeParts DEF AskAssignee, AskAboutStatus, Calls, TablesTyped
  <2>. QED
    BY <1>2, <2>1, <2>2, TypeParts DEF AskAssignee, AskAboutStatus, TablesTyped
<1>3. CASE AskParent(w)
  <2>1. CASE Exists(op[w].row.parent)
    <3>1. op[w].row.parent \in Issues
      BY <2>1 DEF Exists
    <3>2. asked' \subseteq Issues \X Calls
      BY <1>3, <2>1, <3>1, AskTyped, TypeParts DEF AskParent, Calls
    <3>3. OpsTyped' /\ Unguarded(w)
      BY <1>1, <1>3, <2>1, WentPC, TypeParts DEF AskParent, BusyPCs, GuardedPCs
    <3>. QED
      BY <1>3, <3>2, <3>3, TypeParts DEF AskParent, TablesTyped
  <2>2. CASE ~Exists(op[w].row.parent)
    BY <1>3, <2>2, EndedPC, SameTables, TypeParts DEF AskParent, tables
  <2>. QED
    BY <2>1, <2>2
<1>. QED
  BY <1>2, <1>3

LEMMA ListSiblingsType ==
  ASSUME TypeOK, NEW w \in Workers, ListSiblings(w)
  PROVE  TypeOK' /\ Unguarded(w) /\ UNCHANGED issues
<1>1. op[w] \in Ops /\ OpTyped(op[w]) /\ op[w].pc = "list"
  BY TypeParts DEF OpsTyped, ListSiblings, At
<1>. DEFINE seen == {issues[c].status : c \in Children(op[w].row.parent)}
            o == [op[w] EXCEPT !.seen = seen, !.pc = "judge"]
<1>2. seen \subseteq Names
  BY ExistsFacts, TypeParts DEF Children
<1>. HIDE DEF seen
<1>3. OpTyped(o) /\ o.pc = "judge"
  BY <1>1, <1>2 DEF OpTyped, Ops, PCs
<1>4. Move(w, o) \/ Goto(w, "changed")
  BY DEF ListSiblings, seen
<1>. HIDE DEF o
<1>5. CASE Move(w, o)
  <2>1. OpsTyped' /\ op'[w] = o
    BY <1>3, <1>5, Moved, TypeParts
  <2>. QED
    BY <1>3, <2>1, SameTables, TypeParts DEF ListSiblings, tables, Unguarded, GuardedPCs
<1>6. CASE Goto(w, "changed")
  BY <1>1, <1>6, WentPC, SameTables, TypeParts
  DEF ListSiblings, tables, BusyPCs, GuardedPCs
<1>. QED
  BY <1>4, <1>5, <1>6

LEMMA JudgeSiblingsType ==
  ASSUME TypeOK, NEW w \in Workers, JudgeSiblings(w)
  PROVE  TypeOK' /\ Unguarded(w) /\ UNCHANGED issues
<1>1. op[w] \in Ops /\ OpTyped(op[w]) /\ op[w].pc = "judge"
  BY TypeParts DEF OpsTyped, JudgeSiblings, At
<1>2. ASSUME NEW pc \in {"record", "changed"}, Move(w, [op[w] EXCEPT !.seen = {}, !.pc = pc])
      PROVE  OpsTyped' /\ Unguarded(w)
  <2>. DEFINE o == [op[w] EXCEPT !.seen = {}, !.pc = pc]
  <2>1. OpTyped(o) /\ o.pc = pc
    BY <1>1 DEF OpTyped, Ops, PCs
  <2>. HIDE DEF o
  <2>2. OpsTyped' /\ op'[w] = o
    BY <1>2, <2>1, Moved, TypeParts DEF o
  <2>. QED
    BY <2>1, <2>2 DEF Unguarded, GuardedPCs
<1>. QED
  BY <1>2, SameTables, TypeParts DEF JudgeSiblings, tables

LEMMA RecordWakeupType ==
  ASSUME TypeOK, NEW w \in Workers, RecordWakeup(w)
  PROVE  TypeOK' /\ Unguarded(w) /\ UNCHANGED issues
<1>. DEFINE pair == <<op[w].row.parent, op[w].issue>>
<1>1. op[w] \in Ops /\ op[w].pc = "record"
  BY TypeParts DEF OpsTyped, RecordWakeup, At
<1>2. CASE Exists(pair[1]) /\ Exists(pair[2])
  <2>1. wakeups' \subseteq Issues \X Issues
    BY <1>2, TypeParts DEF RecordWakeup, Exists, TablesTyped
  <2>2. OpsTyped' /\ Unguarded(w)
    BY <1>1, <1>2, WentPC, TypeParts DEF RecordWakeup, BusyPCs, GuardedPCs
  <2>. QED
    BY <2>1, <2>2, TypeParts DEF RecordWakeup, TablesTyped
<1>3. CASE ~(Exists(pair[1]) /\ Exists(pair[2]))
  BY <1>3, EndedPC, SameTables, TypeParts DEF RecordWakeup, tables
<1>. QED
  BY <1>2, <1>3

LEMMA SetStatusType ==
  ASSUME TypeOK, NEW w \in Workers, NEW to \in Names, SetStatus(w, to)
  PROVE  /\ TypeOK' /\ op[w].pc = "run" /\ op[w].issue \in Issues
         /\ op'[w].pc = "run" /\ op'[w].issue = op[w].issue
         /\ op'[w].row.parent = op[w].row.parent
         /\ \E row \in Row :
              /\ row.parent = op[w].row.parent /\ row.status \in Names /\ Attached(row)
              /\ issues' = [issues EXCEPT ![op[w].issue] = row]
<1>. DEFINE row == [op[w].row EXCEPT !.status = to]
            o == [op[w] EXCEPT !.row = row]
<1>1. op[w] \in Ops /\ OpTyped(op[w]) /\ op[w].pc = "run" /\ op[w].issue \in Issues
  BY TypeParts DEF OpsTyped, SetStatus, At, OpTyped, Ops
<1>2. row \in Row /\ row.parent = op[w].row.parent /\ row.status \in Names
  BY <1>1 DEF Ops, Row
<1>3. /\ Move(w, o) \/ UNCHANGED op
      /\ issues' = [issues EXCEPT ![op[w].issue] = row] /\ Attached(row)
  BY DEF SetStatus
<1>. HIDE DEF row
<1>4. OpTyped(o) /\ o.pc = "run" /\ o.issue = op[w].issue /\ o.row = row
  BY <1>1, <1>2 DEF OpTyped, Ops
<1>. HIDE DEF o
<1>5. OpsTyped' /\ op'[w] \in {o, op[w]}
  <2>1. CASE Move(w, o)
    BY <1>4, <2>1, Moved, TypeParts
  <2>2. CASE UNCHANGED op
    BY <2>2, TypeParts DEF OpsTyped
  <2>. QED
    BY <1>3, <2>1, <2>2
<1>6. TablesTyped'
  BY <1>2, <1>3, TypeParts DEF SetStatus, TablesTyped
<1>. QED
  BY <1>1, <1>2, <1>3, <1>4, <1>5, <1>6, TypeParts

LEMMA EndingType ==
  ASSUME TypeOK, NEW w \in Workers, EndRun(w) \/ StatementFails(w)
  PROVE  TypeOK' /\ Unguarded(w) /\ UNCHANGED issues
  BY EndedPC, SameTables, TypeParts DEF EndRun, StatementFails, tables

LEMMA SeededTyped ==
  ASSUME TablesTyped
  PROVE  Seeded \in [Names -> Categories \union {"none"}]
  BY NamesAssumption DEF TablesTyped, Seeded, Category

LEMMA DirectoryTypes ==
  ASSUME TypeOK, NEW n \in Names, NEW c \in Categories, NEW w \in Workers,
         UpsertStatus(w, n, c) \/ DeleteStatus(w, n)
  PROVE  TypeOK' /\ UNCHANGED <<issues, op>>
<1>1. directory' \in [Names -> Categories \union {"none"}]
  BY SeededTyped, TypeParts DEF UpsertStatus, DeleteStatus
<1>. QED
  BY <1>1 DEF TypeOK, UpsertStatus, DeleteStatus

LEMMA DeleteIssueType ==
  ASSUME TypeOK, NEW w \in Workers, NEW i \in Issues, DeleteIssue(w, i)
  PROVE  TypeOK' /\ UNCHANGED op /\ op[w] = Idle
<1>1. [NoRow EXCEPT !.status = "gone"] \in Row
  BY DEF NoRow, Row, People
<1>. HIDE DEF NoRow
<1>2. TablesTyped'
  BY <1>1, TypeParts DEF DeleteIssue, TablesTyped
<1>. QED
  BY <1>2, TypeParts DEF DeleteIssue, OpsTyped

LEMMA CrashType ==
  ASSUME TypeOK, Crash
  PROVE  TypeOK' /\ UNCHANGED issues /\ \A w \in Workers : Unguarded(w)
<1>1. OpsTyped' /\ \A w \in Workers : op'[w] = Idle
  BY IdleTyped DEF Crash, OpsTyped, OpTyped
<1>2. Idle.pc = "idle"
  BY DEF Idle
<1>. QED
  BY <1>1, <1>2, SameTables, TypeParts DEF Crash, tables, Unguarded, GuardedPCs

LEMMA InitType == Init => TypeOK
<1>. SUFFICES ASSUME Init PROVE TypeOK
  OBVIOUS
<1>1. OpsTyped
  BY IdleTyped DEF Init, OpsTyped, OpTyped
<1>2. TablesTyped
  BY DEF Init, TablesTyped, NoRow, Row, People
<1>. QED
  BY <1>1, <1>2, TypeParts

LEMMA NextType == TypeOK /\ [Next]_vars => TypeOK'
<1>. SUFFICES ASSUME TypeOK, [Next]_vars PROVE TypeOK'
  OBVIOUS
<1>1. ASSUME NEW w \in Workers, Request(w) PROVE TypeOK'
  <2>1. ASSUME NEW p \in Issues \union {NoIssue}, NEW a \in Assignees, CreateIssue(w, p, a)
        PROVE  TypeOK'
    BY <2>1, CreateIssueType
  <2>2. ASSUME NEW i \in Issues, NEW a \in People, UpdateIssue(w, i, a, FALSE, NoIssue)
        PROVE  TypeOK'
    BY <2>2, UpdateIssueType
  <2>3. ASSUME NEW i \in Issues, NEW a \in People, NEW p \in Issues \union {NoIssue},
               UpdateIssue(w, i, a, TRUE, p)
        PROVE  TypeOK'
    BY <2>3, UpdateIssueType
  <2>4. ASSUME NEW i \in Issues, NEW to \in Names, TransitionStatus(w, i, to) PROVE TypeOK'
    BY <2>4, TransitionStatusType
  <2>5. ASSUME NEW i \in Issues, CloseIssue(w, i) \/ StartRun(w, i) \/ DeleteIssue(w, i)
        PROVE  TypeOK'
    BY <2>5, CloseIssueType, StartRunType, DeleteIssueType
  <2>6. ASSUME NEW n \in Names, DeleteStatus(w, n) \/ \E c \in Categories : UpsertStatus(w, n, c)
        PROVE  TypeOK'
    BY <2>6, DirectoryTypes DEF Categories
  <2>. QED
    BY <1>1, <2>1, <2>2, <2>3, <2>4, <2>5, <2>6 DEF Request
<1>2. ASSUME NEW w \in Workers, Step(w) PROVE TypeOK'
  BY <1>2, InsertIssueType, AskTypes, ReadAncestorType, SaveRowType, ReadBackType,
     CheckTransitionType, ListSiblingsType, JudgeSiblingsType, RecordWakeupType DEF Step
<1>3. ASSUME NEW w \in Workers,
             StatementFails(w) \/ EndRun(w) \/ \E to \in Names : SetStatus(w, to)
      PROVE  TypeOK'
  BY <1>3, EndingType, SetStatusType
<1>4. CASE Crash
  BY <1>4, CrashType
<1>5. CASE UNCHANGED vars
  BY <1>5 DEF vars, TypeOK
<1>. QED
  BY <1>1, <1>2, <1>3, <1>4, <1>5 DEF Next

\* Whatever the requests, the number of workers and the faults: each row of the
\* tables keeps to its CHECKs, and what a worker holds between two statements is
\* a row that exists or existed, a parent to examine only while it climbs.
THEOREM BoardTypeCorrect == Spec => []TypeOK
<1>1. Init => TypeOK
  BY InitType
<1>2. TypeOK /\ [Next]_vars => TypeOK'
  BY NextType
<1>. QED
  BY <1>1, <1>2, PTL DEF Spec

------------------------------------------------------------------------------
(* One writer keeps the tree.                                              *)

\* S would be a cycle if p were the parent of i.
Bad(S, i, p) ==
  /\ i \in S /\ p \in S
  /\ \A j \in S \ {i} : Exists(j) /\ issues[j].parent \in S
Safe(i, p) == \A S \in SUBSET Issues : ~Bad(S, i, p)

\* No parent is an issue that is still to be created.
Known == \A j \in Issues :
  Exists(j) => issues[j].parent = NoIssue \/ issues[issues[j].parent].status # "none"

\* Writing the copy makes no cycle; the ancestor read next is in all that it could make.
Holds(w) ==
  /\ op[w].pc \in {"check", "save", "run"} => Safe(op[w].issue, op[w].row.parent)
  /\ op[w].pc = "climb" =>
       /\ op[w].walk # op[w].issue
       /\ \A S \in SUBSET Issues : Bad(S, op[w].issue, op[w].row.parent) => op[w].walk \in S

Tree(w) == Acyclic /\ Known /\ Holds(w)

\* A row as it is is safe to write.
LEMMA CopySafe ==
  ASSUME Acyclic, NEW i \in Issues, Exists(i)
  PROVE  Safe(i, issues[i].parent)
<1>. SUFFICES ASSUME NEW S \in SUBSET Issues, Bad(S, i, issues[i].parent) PROVE FALSE
  BY DEF Safe
<1>1. \A j \in S : Exists(j) /\ issues[j].parent \in S
  BY DEF Bad
<1>2. S # {}
  BY DEF Bad
<1>. QED
  BY <1>1, <1>2 DEF Acyclic

LEMMA WriteKeepsTree ==
  ASSUME TablesTyped, Acyclic, Known,
         NEW i \in Issues, NEW row \in Row, Safe(i, row.parent), Attached(row), row.status \in Names,
         issues' = [issues EXCEPT ![i] = row]
  PROVE  Acyclic' /\ Known' /\ Safe(i, row.parent)'
<1>1. \A j \in Issues : issues'[j] = IF j = i THEN row ELSE issues[j]
  BY DEF TablesTyped
<1>2. ASSUME NEW S \in SUBSET Issues, S # {},
             \A j \in S : Exists(j)' /\ issues'[j].parent \in S
      PROVE  FALSE
  <2>1. \A j \in S \ {i} : Exists(j) /\ issues[j].parent \in S
    BY <1>1, <1>2 DEF Exists
  <2>2. CASE i \in S
    <3>1. row.parent \in S
      BY <1>1, <1>2, <2>2
    <3>2. Bad(S, i, row.parent)
      BY <2>1, <2>2, <3>1 DEF Bad
    <3>. QED
      BY <3>2 DEF Safe
  <2>3. CASE i \notin S
    BY <1>2, <2>1, <2>3 DEF Acyclic
  <2>. QED
    BY <2>2, <2>3
<1>3. Acyclic'
  BY <1>2 DEF Acyclic
<1>4. Known'
  <2>. SUFFICES ASSUME NEW j \in Issues, Exists(j)', issues'[j].parent # NoIssue
                PROVE  issues'[issues'[j].parent].status # "none"
    BY DEF Known
  <2>1. "none" \notin Names /\ row.status # "none"
    BY NamesAssumption DEF Categories
  <2>2. CASE j = i
    <3>1. Exists(row.parent)
      BY <1>1, <2>2 DEF Attached
    <3>. QED
      BY <1>1, <2>1, <2>2, <3>1 DEF Exists
  <2>3. CASE j # i
    <3>1. issues[issues[j].parent].status # "none" /\ issues'[j] = issues[j]
      BY <1>1, <2>3 DEF Known, Exists
    <3>2. issues[j].parent \in Issues
      BY <3>1 DEF TablesTyped, Row
    <3>. QED
      BY <1>1, <2>1, <3>1, <3>2
  <2>. QED
    BY <2>2, <2>3
<1>5. Safe(i, row.parent)'
  BY <1>1 DEF Safe, Bad, Exists
<1>. QED
  BY <1>3, <1>4, <1>5

\* Nothing points to a new issue, so it cannot close a cycle.
LEMMA NewIssueSafe ==
  ASSUME TablesTyped, Acyclic, Known, NEW i \in Issues, issues[i].status = "none",
         NEW row \in Row, Attached(row)
  PROVE  Safe(i, row.parent)
<1>. SUFFICES ASSUME NEW S \in SUBSET Issues, Bad(S, i, row.parent) PROVE FALSE
  BY DEF Safe
<1>1. Exists(row.parent) /\ row.parent \in S \ {i}
  BY IssuesAssumption DEF Bad, Attached, Exists
<1>2. ASSUME NEW j \in S \ {i} PROVE Exists(j) /\ issues[j].parent \in S \ {i}
  <2>1. Exists(j) /\ issues[j].parent \in S
    BY DEF Bad
  <2>2. issues[j].parent # NoIssue
    BY <2>1, IssuesAssumption
  <2>3. issues[issues[j].parent].status # "none"
    BY <2>1, <2>2 DEF Known
  <2>. QED
    BY <2>1, <2>3
<1>. QED
  BY <1>1, <1>2 DEF Acyclic

\* Deleting rows keeps what is left a tree.
LEMMA DeleteKeepsTree ==
  ASSUME TablesTyped, Acyclic, Known,
         \A j \in Issues : issues'[j] = issues[j] \/ issues'[j].status = "gone"
  PROVE  Acyclic' /\ Known'
<1>1. \A j \in Issues : Exists(j)' => issues'[j] = issues[j] /\ Exists(j)
  BY DEF Exists
<1>2. Acyclic'
  BY <1>1 DEF Acyclic
<1>3. Known'
  <2>. SUFFICES ASSUME NEW j \in Issues, Exists(j)', issues'[j].parent # NoIssue
                PROVE  issues'[issues'[j].parent].status # "none"
    BY DEF Known
  <2>1. issues'[j] = issues[j] /\ issues[issues[j].parent].status # "none"
    BY <1>1 DEF Known
  <2>2. issues[j].parent \in Issues
    BY <2>1 DEF TablesTyped, Row
  <2>. QED
    BY <2>1, <2>2
<1>. QED
  BY <1>2, <1>3

\* An action that leaves the rows alone has to see to its copy only.
LEMMA SameRows ==
  ASSUME Acyclic, Known, UNCHANGED issues
  PROVE  /\ Acyclic' /\ Known'
         /\ \A i, p : Safe(i, p)' <=> Safe(i, p)
         /\ \A S, i, p : Bad(S, i, p)' <=> Bad(S, i, p)
  BY DEF Acyclic, Known, Safe, Bad, Exists

LEMMA UnguardedHolds ==
  ASSUME NEW w, Unguarded(w)
  PROVE  Holds(w)'
  BY DEF Unguarded, GuardedPCs, Holds

LEMMA ReadOnlyKeepsTree ==
  ASSUME NEW w, Tree(w), Unguarded(w), UNCHANGED issues
  PROVE  Tree(w)'
  BY SameRows, UnguardedHolds DEF Tree

\* What begins with a copy of a row.
LEMMA CopyKeepsTree ==
  ASSUME NEW w, Tree(w), NEW i \in Issues, Exists(i), UNCHANGED issues,
         op'[w].pc \in {"check", "save", "run"}, op'[w].issue = i,
         op'[w].row.parent \in {issues[i].parent, NoIssue}
  PROVE  Tree(w)'
<1>1. Safe(i, issues[i].parent) /\ Safe(i, NoIssue)
  BY CopySafe, IssuesAssumption DEF Tree, Safe, Bad
<1>2. Safe(i, issues[i].parent)' /\ Safe(i, NoIssue)'
  BY <1>1, SameRows DEF Tree, Safe, Bad, Exists
<1>3. Holds(w)'
  BY <1>2 DEF Holds, Safe, Bad, Exists
<1>. QED
  BY <1>3, SameRows DEF Tree

LEMMA BeginEditKeepsTree ==
  ASSUME TypeOK, NEW w \in Workers, Tree(w), NEW i \in Issues, NEW a \in People,
         NEW moved \in BOOLEAN, NEW p \in Issues \union {NoIssue}, UpdateIssue(w, i, a, moved, p)
  PROVE  Tree(w)'
<1>1. /\ Exists(i) /\ UNCHANGED issues /\ (moved => p # i) /\ op'[w].issue = i
      /\ op'[w].row.parent = IF moved THEN p ELSE issues[i].parent
      /\ \/ moved /\ p # NoIssue /\ op'[w].pc = "climb" /\ op'[w].walk = p
         \/ ~(moved /\ p # NoIssue) /\ op'[w].pc = "save"
  BY UpdateIssueType
<1>2. CASE moved /\ p # NoIssue
  <2>1. Holds(w)'
    BY <1>1, <1>2 DEF Holds, Bad
  <2>. QED
    BY <1>1, <2>1, SameRows DEF Tree
<1>3. CASE ~(moved /\ p # NoIssue)
  BY <1>1, <1>3, CopyKeepsTree
<1>. QED
  BY <1>2, <1>3

LEMMA ClimbKeepsTree ==
  ASSUME TypeOK, NEW w \in Workers, Tree(w), ReadAncestor(w)
  PROVE  Tree(w)'
<1>1. /\ UNCHANGED issues /\ op[w].pc = "climb"
      /\ op[w].walk \in Issues /\ op[w].issue \in Issues
  BY ReadAncestorType
<1>2. PICK i, p, next :
        i \in Issues /\ i = op[w].issue /\ p = op[w].row.parent /\ next = issues[op[w].walk].parent
  BY <1>1
<1>3. CASE Unguarded(w)
  BY <1>1, <1>3, ReadOnlyKeepsTree
<1>4. CASE /\ Exists(op[w].walk) /\ next # i
           /\ op'[w].issue = i /\ op'[w].row.parent = p /\ op'[w].walk = next
           /\ op'[w].pc = IF next = NoIssue THEN "save" ELSE "climb"
  <2>1. \A S \in SUBSET Issues : Bad(S, i, p) => next \in S
    <3>. SUFFICES ASSUME NEW S \in SUBSET Issues, Bad(S, i, p) PROVE next \in S
      OBVIOUS
    <3>1. op[w].walk \in S /\ op[w].walk # i
      BY <1>1, <1>2 DEF Tree, Holds
    <3>. QED
      BY <1>2, <3>1 DEF Bad
  <2>2. \A S \in SUBSET Issues : Bad(S, i, p)' => next \in S
    BY <1>1, <2>1, SameRows DEF Tree
  <2>3. Holds(w)'
    <3>1. CASE next = NoIssue
      <4>1. Safe(i, p)'
        BY <2>2, <3>1, IssuesAssumption DEF Safe
      <4>. QED
        BY <1>4, <3>1, <4>1 DEF Holds, Safe, Bad, Exists
    <3>2. CASE next # NoIssue
      BY <1>4, <2>2, <3>2 DEF Holds, Bad, Exists
    <3>. QED
      BY <3>1, <3>2
  <2>. QED
    BY <1>1, <2>3, SameRows DEF Tree
<1>. QED
  BY <1>2, <1>3, <1>4, ReadAncestorType

LEMMA CheckKeepsTree ==
  ASSUME TypeOK, NEW w \in Workers, Tree(w), CheckTransition(w)
  PROVE  Tree(w)'
<1>1. UNCHANGED issues /\ op[w].pc = "check"
  BY CheckTransitionType DEF CheckTransition, At
<1>2. CASE Unguarded(w)
  BY <1>1, <1>2, ReadOnlyKeepsTree
<1>3. CASE /\ op'[w].pc = "save" /\ op'[w].issue = op[w].issue
           /\ op'[w].row.parent = op[w].row.parent
  <2>1. Safe(op[w].issue, op[w].row.parent)
    BY <1>1 DEF Tree, Holds
  <2>2. Holds(w)'
    BY <1>1, <1>3, <2>1 DEF Holds, Safe, Bad, Exists
  <2>. QED
    BY <1>1, <2>2, SameRows DEF Tree
<1>. QED
  BY <1>2, <1>3, CheckTransitionType

LEMMA SaveKeepsTree ==
  ASSUME TypeOK, NEW w \in Workers, Tree(w), SaveRow(w)
  PROVE  Tree(w)'
<1>1. Unguarded(w) /\ op[w].pc = "save" /\ op[w].issue \in Issues
  BY SaveRowType
<1>2. op[w].row \in Row /\ op[w].row.status \in Names
  BY <1>1, TypeParts DEF OpsTyped, OpTyped, Ops
<1>3. CASE Attached(op[w].row) /\ issues' = [issues EXCEPT ![op[w].issue] = op[w].row]
  BY <1>1, <1>2, <1>3, WriteKeepsTree, UnguardedHolds, TypeParts DEF Tree, Holds
<1>4. CASE UNCHANGED issues
  BY <1>1, <1>4, ReadOnlyKeepsTree
<1>. QED
  BY <1>3, <1>4 DEF SaveRow

LEMMA InsertKeepsTree ==
  ASSUME TypeOK, NEW w \in Workers, Tree(w), InsertIssue(w)
  PROVE  Tree(w)'
<1>1. Unguarded(w)
  BY InsertIssueType
<1>2. op[w].row \in Row /\ op[w].row.status \in Names
  BY TypeParts DEF OpsTyped, OpTyped, Ops, InsertIssue, At
<1>3. ASSUME NEW i \in Issues, issues[i].status = "none", Attached(op[w].row),
             issues' = [issues EXCEPT ![i] = op[w].row]
      PROVE  Tree(w)'
  <2>1. Safe(i, op[w].row.parent)
    BY <1>2, <1>3, NewIssueSafe, TypeParts DEF Tree
  <2>. QED
    BY <1>1, <1>2, <1>3, <2>1, WriteKeepsTree, UnguardedHolds, TypeParts DEF Tree
<1>4. CASE UNCHANGED issues
  BY <1>1, <1>4, ReadOnlyKeepsTree
<1>. QED
  BY <1>3, <1>4 DEF InsertIssue

LEMMA SetStatusKeepsTree ==
  ASSUME TypeOK, NEW w \in Workers, Tree(w), NEW to \in Names, SetStatus(w, to)
  PROVE  Tree(w)'
<1>1. /\ op[w].pc = "run" /\ op[w].issue \in Issues
      /\ op'[w].pc = "run" /\ op'[w].issue = op[w].issue
      /\ op'[w].row.parent = op[w].row.parent
  BY SetStatusType
<1>2. PICK i \in Issues, row \in Row :
        /\ i = op[w].issue /\ row.parent = op[w].row.parent /\ row.status \in Names /\ Attached(row)
        /\ issues' = [issues EXCEPT ![i] = row]
  BY <1>1, SetStatusType
<1>3. Safe(i, row.parent)
  BY <1>1, <1>2 DEF Tree, Holds
<1>4. Acyclic' /\ Known' /\ Safe(i, row.parent)'
  BY <1>2, <1>3, WriteKeepsTree, TypeParts DEF Tree
<1>5. Holds(w)'
  BY <1>1, <1>2, <1>4 DEF Holds, Safe, Bad, Exists
<1>. QED
  BY <1>4, <1>5 DEF Tree

LEMMA DeleteIssueKeepsTree ==
  ASSUME TypeOK, NEW w \in Workers, Tree(w), NEW i \in Issues, DeleteIssue(w, i)
  PROVE  Tree(w)'
<1>1. \A j \in Issues : issues'[j] = issues[j] \/ issues'[j].status = "gone"
  BY DEF DeleteIssue, NoRow
<1>2. Unguarded(w)
  BY DeleteIssueType DEF Unguarded, GuardedPCs, Idle
<1>. QED
  BY <1>1, <1>2, DeleteKeepsTree, UnguardedHolds, TypeParts DEF Tree

\* One request at a time: validateNewParent and what else writes parents keep
\* the issues a tree, whatever is requested and whatever fails.
THEOREM BoardTree ==
  ASSUME NEW w, Workers = {w}
  PROVE  Spec => []Acyclic
<1>1. Init => Tree(w)
  BY IssuesAssumption DEF Init, Tree, Acyclic, Known, Holds, Exists, NoRow, Idle
<1>2. TypeOK /\ Tree(w) /\ [Next]_vars => Tree(w)'
  <2>. SUFFICES ASSUME TypeOK, Tree(w), [Next]_vars PROVE Tree(w)'
    OBVIOUS
  <2>1. ASSUME Request(w) PROVE Tree(w)'
    <3>1. ASSUME NEW p \in Issues \union {NoIssue}, NEW a \in Assignees, CreateIssue(w, p, a)
          PROVE  Tree(w)'
      BY <3>1, CreateIssueType, ReadOnlyKeepsTree
    <3>2. ASSUME NEW i \in Issues, NEW a \in People, UpdateIssue(w, i, a, FALSE, NoIssue)
          PROVE  Tree(w)'
      BY <3>2, BeginEditKeepsTree
    <3>3. ASSUME NEW i \in Issues, NEW a \in People, NEW p \in Issues \union {NoIssue},
                 UpdateIssue(w, i, a, TRUE, p)
          PROVE  Tree(w)'
      BY <3>3, BeginEditKeepsTree
    <3>4. ASSUME NEW i \in Issues, NEW to \in Names, TransitionStatus(w, i, to) PROVE Tree(w)'
      BY <3>4, TransitionStatusType, CopyKeepsTree
    <3>5. ASSUME NEW i \in Issues, CloseIssue(w, i) PROVE Tree(w)'
      BY <3>5, CloseIssueType, CopyKeepsTree
    <3>6. ASSUME NEW i \in Issues, StartRun(w, i) PROVE Tree(w)'
      BY <3>6, StartRunType, CopyKeepsTree
    <3>7. ASSUME NEW n \in Names, DeleteStatus(w, n) \/ \E c \in Categories : UpsertStatus(w, n, c)
          PROVE  Tree(w)'
      <4>1. UNCHANGED issues /\ op' = op /\ op[w] = Idle
        BY <3>7 DEF DeleteStatus, UpsertStatus
      <4>2. Unguarded(w)
        BY <4>1 DEF Unguarded, GuardedPCs, Idle
      <4>. QED
        BY <4>1, <4>2, ReadOnlyKeepsTree
    <3>. QED
      BY <2>1, <3>1, <3>2, <3>3, <3>4, <3>5, <3>6, <3>7, DeleteIssueKeepsTree DEF Request
  <2>2. ASSUME Step(w) PROVE Tree(w)'
    <3>1. CASE ReadBack(w) \/ ListSiblings(w) \/ JudgeSiblings(w) \/ RecordWakeup(w)
               \/ AskAssignee(w) \/ AskAboutStatus(w) \/ AskParent(w)
      BY <3>1, ReadBackType, ListSiblingsType, JudgeSiblingsType, RecordWakeupType, AskTypes,
         ReadOnlyKeepsTree
    <3>. QED
      BY <2>2, <3>1, InsertKeepsTree, ClimbKeepsTree, SaveKeepsTree, CheckKeepsTree DEF Step
  <2>3. ASSUME StatementFails(w) \/ EndRun(w) \/ \E to \in Names : SetStatus(w, to)
        PROVE  Tree(w)'
    BY <2>3, EndingType, ReadOnlyKeepsTree, SetStatusKeepsTree
  <2>4. CASE Crash
    BY <2>4, CrashType, ReadOnlyKeepsTree
  <2>5. CASE UNCHANGED vars
    BY <2>5 DEF vars, Tree, Acyclic, Known, Holds, Safe, Bad, Exists
  <2>. QED
    BY <2>1, <2>2, <2>3, <2>4, <2>5 DEF Next
<1>3. Tree(w) => Acyclic
  BY DEF Tree
<1>. QED
  BY <1>1, <1>2, <1>3, BoardTypeCorrect, PTL DEF Spec

------------------------------------------------------------------------------
(* Any number of writers, none of which edits: copies may be old, but the  *)
(* parent in them is the issue's, so writing them moves nothing.           *)

\* Whoever is going to write a row was created before and keeps its parent.
Unmoved(w) ==
  /\ op[w].pc # "climb"
  /\ op[w].pc \in {"check", "save", "run"} =>
       /\ issues[op[w].issue].status # "none"
       /\ Exists(op[w].issue) => op[w].row.parent = issues[op[w].issue].parent

Unedited == Acyclic /\ Known /\ \A w \in Workers : Unmoved(w)

\* A step of w that moves no issue under another parent.
KeepsParents(w) ==
  /\ \A v \in Workers \ {w} : op'[v] = op[v]
  /\ \A i \in Issues : issues[i].status # "none" =>
       /\ issues'[i].status # "none"
       /\ Exists(i)' => Exists(i) /\ issues'[i].parent = issues[i].parent

LEMMA OthersUnmoved ==
  ASSUME TypeOK, NEW w \in Workers, KeepsParents(w), NEW v \in Workers \ {w}, Unmoved(v)
  PROVE  Unmoved(v)'
<1>1. op'[v] = op[v]
  BY DEF KeepsParents
<1>2. op[v].pc \in {"check", "save", "run"} => op[v].issue \in Issues
  BY DEF TypeOK, Ops
<1>. QED
  BY <1>1, <1>2 DEF KeepsParents, Unmoved

\* One worker's local variables change.
LEMMA OneMoves ==
  ASSUME TypeOK, NEW w \in Workers, NEW o, op' = [op EXCEPT ![w] = o]
  PROVE  \A v \in Workers \ {w} : op'[v] = op[v]
  BY DEF TypeOK

LEMMA OnlyOneMoves ==
  ASSUME TypeOK, NEW w \in Workers,
         Request(w) \/ Step(w) \/ StatementFails(w) \/ EndRun(w) \/ \E to \in Names : SetStatus(w, to)
  PROVE  \A v \in Workers \ {w} : op'[v] = op[v]
<1>1. CASE Request(w)
  <2>1. ASSUME NEW p, NEW a, CreateIssue(w, p, a) PROVE \E o : op' = [op EXCEPT ![w] = o]
    BY <2>1 DEF CreateIssue, Begin, Move
  <2>2. ASSUME NEW i, NEW a, NEW moved, NEW p, UpdateIssue(w, i, a, moved, p)
        PROVE  \E o : op' = [op EXCEPT ![w] = o]
    BY <2>2, Zenon DEF UpdateIssue, Begin, Move
  <2>3. ASSUME NEW i, CloseIssue(w, i) \/ StartRun(w, i) \/ \E to \in Names : TransitionStatus(w, i, to)
        PROVE  \E o : op' = [op EXCEPT ![w] = o]
    BY <2>3 DEF CloseIssue, StartRun, TransitionStatus, Begin, Move
  <2>4. ASSUME NEW i, NEW n, NEW c, DeleteIssue(w, i) \/ DeleteStatus(w, n) \/ UpsertStatus(w, n, c)
        PROVE  UNCHANGED op
    BY <2>4 DEF DeleteIssue, DeleteStatus, UpsertStatus
  <2>. QED
    BY <1>1, <2>1, <2>2, <2>3, <2>4, OneMoves DEF Request
<1>2. CASE Step(w)
  BY <1>2, OneMoves
  DEF Step, InsertIssue, SaveRow, AskAssignee, ReadAncestor, ReadBack, CheckTransition,
      ListSiblings, JudgeSiblings, RecordWakeup, AskParent, AskAboutStatus, Goto, Done, Move
<1>3. CASE StatementFails(w) \/ EndRun(w)
  BY <1>3, OneMoves DEF StatementFails, EndRun, Done, Move
<1>4. CASE \E to \in Names : SetStatus(w, to)
  BY <1>4, OneMoves DEF SetStatus, Move
<1>. QED
  BY <1>1, <1>2, <1>3, <1>4

\* A step that writes no row and leaves its worker with no old copy.
LEMMA ReadOnlyUnedited ==
  ASSUME TypeOK, Unedited, NEW w \in Workers, \A v \in Workers \ {w} : op'[v] = op[v],
         UNCHANGED issues, Unguarded(w) \/ Unmoved(w)'
  PROVE  Unedited'
<1>1. Unmoved(w)'
  BY DEF Unguarded, GuardedPCs, Unmoved
<1>2. KeepsParents(w)
  BY DEF KeepsParents, Exists
<1>3. Acyclic' /\ Known'
  BY SameRows DEF Unedited
<1>. QED
  BY <1>1, <1>2, <1>3, OthersUnmoved DEF Unedited

\* Writing the copy of an issue that exists.
LEMMA WriteUnedited ==
  ASSUME TypeOK, Unedited, NEW w \in Workers, \A v \in Workers \ {w} : op'[v] = op[v],
         op[w].pc \in {"save", "run"}, NEW i \in Issues, i = op[w].issue, Exists(i),
         NEW row \in Row, row.parent = op[w].row.parent, row.status \in Names, Attached(row),
         issues' = [issues EXCEPT ![i] = row],
         \/ Unguarded(w)
         \/ op'[w].pc = "run" /\ op'[w].issue = i /\ op'[w].row.parent = row.parent
  PROVE  Unedited'
<1>1. row.parent = issues[i].parent
  BY DEF Unedited, Unmoved
<1>2. Safe(i, row.parent)
  BY <1>1, CopySafe DEF Unedited
<1>3. Acyclic' /\ Known'
  BY <1>2, WriteKeepsTree, TypeParts DEF Unedited
<1>4. row.status # "none"
  BY NamesAssumption DEF Categories
<1>5. \A j \in Issues : issues'[j] = IF j = i THEN row ELSE issues[j]
  BY DEF TypeOK
<1>6. KeepsParents(w)
  BY <1>1, <1>4, <1>5 DEF KeepsParents, Exists
<1>7. Unmoved(w)'
  BY <1>4, <1>5 DEF Unguarded, GuardedPCs, Unmoved
<1>. QED
  BY <1>3, <1>6, <1>7, OthersUnmoved DEF Unedited

LEMMA InsertUnedited ==
  ASSUME TypeOK, Unedited, NEW w \in Workers, InsertIssue(w)
  PROVE  Unedited'
<1>1. Unguarded(w) /\ \A v \in Workers \ {w} : op'[v] = op[v]
  BY InsertIssueType, OnlyOneMoves DEF Step
<1>2. op[w].row \in Row /\ op[w].row.status \in Names
  BY TypeParts DEF OpsTyped, OpTyped, Ops, InsertIssue, At
<1>3. ASSUME NEW i \in Issues, issues[i].status = "none", Attached(op[w].row),
             issues' = [issues EXCEPT ![i] = op[w].row]
      PROVE  Unedited'
  <2>1. Safe(i, op[w].row.parent)
    BY <1>2, <1>3, NewIssueSafe, TypeParts DEF Unedited
  <2>2. Acyclic' /\ Known'
    BY <1>2, <1>3, <2>1, WriteKeepsTree, TypeParts DEF Unedited
  <2>3. \A j \in Issues \ {i} : issues'[j] = issues[j]
    BY <1>3 DEF TypeOK
  <2>4. KeepsParents(w)
    BY <1>1, <1>3, <2>3 DEF KeepsParents, Exists
  <2>5. Unmoved(w)'
    BY <1>1 DEF Unguarded, GuardedPCs, Unmoved
  <2>. QED
    BY <2>2, <2>4, <2>5, OthersUnmoved DEF Unedited
<1>4. CASE UNCHANGED issues
  BY <1>1, <1>4, ReadOnlyUnedited
<1>. QED
  BY <1>3, <1>4 DEF InsertIssue

LEMMA DeleteUnedited ==
  ASSUME TypeOK, Unedited, NEW w \in Workers, NEW i \in Issues, DeleteIssue(w, i)
  PROVE  Unedited'
<1>1. \A j \in Issues : issues'[j] = issues[j] \/ issues'[j].status = "gone"
  BY DEF DeleteIssue, NoRow
<1>2. UNCHANGED op /\ Unguarded(w)
  BY DeleteIssueType DEF Unguarded, GuardedPCs, Idle
<1>3. Acyclic' /\ Known'
  BY <1>1, DeleteKeepsTree, TypeParts DEF Unedited
<1>4. KeepsParents(w)
  BY <1>1, <1>2 DEF KeepsParents, Exists
<1>. QED
  BY <1>2, <1>3, <1>4, OthersUnmoved DEF Unedited, Unguarded, GuardedPCs, Unmoved

\* A copy that has just been taken has the issue's parent.
LEMMA CopyUnedited ==
  ASSUME TypeOK, Unedited, NEW w \in Workers, \A v \in Workers \ {w} : op'[v] = op[v],
         UNCHANGED issues, NEW i \in Issues, Exists(i), op'[w].issue = i,
         op'[w].pc \in {"check", "save", "run"}, op'[w].row.parent = issues[i].parent
  PROVE  Unedited'
<1>1. Unmoved(w)'
  BY DEF Unmoved, Exists
<1>. QED
  BY <1>1, ReadOnlyUnedited

LEMMA UneditedNext ==
  ASSUME "edit" \notin Requests, TypeOK, Unedited, [Next]_vars
  PROVE  Unedited'
<1>1. ASSUME NEW w \in Workers, Request(w) PROVE Unedited'
  <2>1. \A v \in Workers \ {w} : op'[v] = op[v]
    BY <1>1, OnlyOneMoves
  <2>2. ASSUME NEW i, NEW a, NEW moved, NEW p, UpdateIssue(w, i, a, moved, p) PROVE FALSE
    BY <2>2 DEF UpdateIssue, Begin, Idle
  <2>3. ASSUME NEW p \in Issues \union {NoIssue}, NEW a \in Assignees, CreateIssue(w, p, a)
        PROVE  Unedited'
    BY <2>1, <2>3, CreateIssueType, ReadOnlyUnedited
  <2>4. ASSUME NEW i \in Issues, NEW to \in Names, TransitionStatus(w, i, to) PROVE Unedited'
    BY <2>1, <2>4, TransitionStatusType, CopyUnedited
  <2>5. ASSUME NEW i \in Issues, CloseIssue(w, i) PROVE Unedited'
    BY <2>1, <2>5, CloseIssueType, CopyUnedited
  <2>6. ASSUME NEW i \in Issues, StartRun(w, i) PROVE Unedited'
    BY <2>1, <2>6, StartRunType, CopyUnedited
  <2>7. ASSUME NEW n \in Names, DeleteStatus(w, n) \/ \E c \in Categories : UpsertStatus(w, n, c)
        PROVE  Unedited'
    <3>1. UNCHANGED <<issues, op>> /\ op[w] = Idle
      BY <2>7 DEF DeleteStatus, UpsertStatus
    <3>2. Unguarded(w)
      BY <3>1 DEF Unguarded, GuardedPCs, Idle
    <3>. QED
      BY <2>1, <3>1, <3>2, ReadOnlyUnedited
  <2>. QED
    BY <1>1, <2>2, <2>3, <2>4, <2>5, <2>6, <2>7, DeleteUnedited DEF Request
<1>2. ASSUME NEW w \in Workers, Step(w) PROVE Unedited'
  <2>1. \A v \in Workers \ {w} : op'[v] = op[v]
    BY <1>2, OnlyOneMoves
  <2>2. CASE ReadBack(w) \/ ListSiblings(w) \/ JudgeSiblings(w) \/ RecordWakeup(w)
             \/ AskAssignee(w) \/ AskAboutStatus(w) \/ AskParent(w)
    BY <2>1, <2>2, ReadBackType, ListSiblingsType, JudgeSiblingsType, RecordWakeupType, AskTypes,
       ReadOnlyUnedited
  <2>3. CASE CheckTransition(w)
    <3>1. UNCHANGED issues /\ op[w].pc = "check"
      BY <2>3, CheckTransitionType DEF CheckTransition, At
    <3>2. Unguarded(w) \/ Unmoved(w)'
      BY <2>3, <3>1, CheckTransitionType DEF Unedited, Unmoved, Exists
    <3>. QED
      BY <2>1, <3>1, <3>2, ReadOnlyUnedited
  <2>4. CASE SaveRow(w)
    <3>1. /\ Unguarded(w) /\ op[w].pc = "save" /\ op[w].issue \in Issues
          /\ op[w].row \in Row /\ op[w].row.status \in Names
      BY <2>4, SaveRowType, TypeParts DEF OpsTyped, OpTyped, Ops
    <3>2. CASE /\ Exists(op[w].issue) /\ Attached(op[w].row)
               /\ issues' = [issues EXCEPT ![op[w].issue] = op[w].row]
      BY <2>1, <3>1, <3>2, WriteUnedited
    <3>3. CASE UNCHANGED issues
      BY <2>1, <3>1, <3>3, ReadOnlyUnedited
    <3>. QED
      BY <2>4, <3>2, <3>3 DEF SaveRow
  <2>5. ~ReadAncestor(w)
    BY DEF Unedited, Unmoved, ReadAncestor, At
  <2>. QED
    BY <1>2, <2>2, <2>3, <2>4, <2>5, InsertUnedited DEF Step
<1>3. ASSUME NEW w \in Workers, StatementFails(w) \/ EndRun(w) PROVE Unedited'
  BY <1>3, OnlyOneMoves, EndingType, ReadOnlyUnedited
<1>4. ASSUME NEW w \in Workers, NEW to \in Names, SetStatus(w, to) PROVE Unedited'
  <2>1. /\ op[w].pc = "run" /\ op[w].issue \in Issues /\ Exists(op[w].issue)
        /\ op'[w].pc = "run" /\ op'[w].issue = op[w].issue
        /\ op'[w].row.parent = op[w].row.parent
        /\ \A v \in Workers \ {w} : op'[v] = op[v]
    BY <1>4, SetStatusType, OnlyOneMoves DEF SetStatus
  <2>2. PICK row \in Row :
          /\ row.parent = op[w].row.parent /\ row.status \in Names /\ Attached(row)
          /\ issues' = [issues EXCEPT ![op[w].issue] = row]
    BY <1>4, SetStatusType
  <2>. QED
    BY <2>1, <2>2, WriteUnedited
<1>5. CASE Crash \/ UNCHANGED vars
  <2>1. UNCHANGED issues
    BY <1>5 DEF Crash, tables, vars
  <2>2. \A w \in Workers : Unmoved(w)'
    BY <1>5, <2>1, CrashType DEF vars, Unedited, Unmoved, Unguarded, GuardedPCs, Exists
  <2>. QED
    BY <2>1, <2>2, SameRows DEF Unedited
<1>. QED
  BY <1>1, <1>2, <1>3, <1>4, <1>5 DEF Next

\* Any number of requests at a time, and any failures: as long as no field of
\* an issue is edited (which is the one request that may name a new parent) no
\* issue becomes its own ancestor, however old the rows are that are written.
THEOREM OnlyEditsEndangerTheTree ==
  ASSUME "edit" \notin Requests
  PROVE  Spec => []Acyclic
<1>1. Init => Unedited
  BY IssuesAssumption DEF Init, Unedited, Acyclic, Known, Unmoved, Exists, NoRow, Idle
<1>2. Unedited => Acyclic
  BY DEF Unedited
<1>. QED
  BY <1>1, <1>2, UneditedNext, BoardTypeCorrect, PTL DEF Spec

------------------------------------------------------------------------------
(* One writer: what it read still fits the tables when it writes.          *)

FreePCs == {"idle", "insert", "run", "reread", "assigned", "tell", "changed"}

Fits(w) ==
  LET i == op[w].issue
      row == op[w].row
  IN
  op[w].pc \notin FreePCs =>
    /\ Exists(i)
    /\ op[w].pc \in {"check", "list", "judge", "record"} => row = issues[i]
    /\ op[w].pc = "climb" => row.status = issues[i].status
    /\ op[w].pc = "save" => \/ row.status = issues[i].status
                            \/ TransitionIn(issues[i].status, row.status)
                            \/ ~IsTerminal(issues[i].status)
    /\ op[w].pc \in {"judge", "record"} => row.parent # NoIssue /\ IsTerminal(row.status)
    /\ op[w].pc = "judge" => op[w].seen = {issues[c].status : c \in Children(row.parent)}
    /\ op[w].pc = "record" => \A c \in Children(row.parent) : IsTerminalIn(issues[c].status)

LEMMA MovedTo ==
  ASSUME TypeOK, NEW w \in Workers, NEW o, Move(w, o)
  PROVE  op'[w] = o /\ \A v \in Workers \ {w} : op'[v] = op[v]
  BY TypeParts DEF OpsTyped, Move

LEMMA FreeFits == ASSUME NEW w, op'[w].pc \in FreePCs PROVE Fits(w)'
  BY DEF Fits

LEMMA FreeParts == {"idle", "insert", "run", "reread", "assigned", "tell", "changed"} = FreePCs
  BY DEF FreePCs

LEMMA IdleFits == ASSUME TypeOK, NEW w \in Workers, Done(w) PROVE Fits(w)'
<1>1. op'[w] = Idle
  BY MovedTo DEF Done
<1>. QED
  BY <1>1 DEF Fits, FreePCs, Idle

LEMMA GotoFree ==
  ASSUME TypeOK, NEW w \in Workers, NEW pc \in FreePCs, Goto(w, pc)
  PROVE  Fits(w)'
<1>1. op'[w] = [op[w] EXCEPT !.pc = pc]
  BY MovedTo DEF Goto
<1>2. op[w] \in Ops
  BY TypeParts DEF OpsTyped
<1>. QED
  BY <1>1, <1>2, FreeFits DEF Ops

\* What the statements read depends on the rows and the directory.
LEMMA SameReads ==
  ASSUME UNCHANGED <<issues, directory>>
  PROVE  /\ \A i : Exists(i)' <=> Exists(i)
         /\ \A p : Children(p)' = Children(p)
         /\ \A s : Category(s)' = Category(s)
         /\ \A s : IsTerminalIn(s)' <=> IsTerminalIn(s)
         /\ \A s, t : TransitionIn(s, t)' <=> TransitionIn(s, t)
         /\ \A p : AllFinished(p)' <=> AllFinished(p)
<1>1. \A i : Exists(i)' <=> Exists(i)
  BY DEF Exists
<1>2. \A p : Children(p)' = Children(p)
  BY <1>1 DEF Children
<1>3. \A s : Category(s)' = Category(s)
  BY DEF Category
<1>4. \A s : IsTerminalIn(s)' <=> IsTerminalIn(s)
  BY <1>3 DEF IsTerminalIn
<1>5. \A s, t : TransitionIn(s, t)' <=> TransitionIn(s, t)
  BY <1>3 DEF TransitionIn
<1>6. \A p : AllFinished(p)' <=> AllFinished(p)
  BY <1>2, <1>4 DEF AllFinished
<1>. QED
  BY <1>1, <1>2, <1>3, <1>4, <1>5, <1>6

LEMMA RequestFits ==
  ASSUME TypeOK, NEW w \in Workers, Fits(w), Request(w)
  PROVE  Fits(w)'
<1>. DEFINE Create(s, p, a) ==
              [Idle EXCEPT !.pc = "insert", !.req = "create",
                           !.row = [status |-> s, parent |-> p, assignee |-> a],
                           !.reassigned = (a # "nobody")]
            Transition(i, to) == [Idle EXCEPT !.pc = "check", !.req = "transition", !.issue = i,
                                              !.row = issues[i], !.to = to]
            Close(i) == [Idle EXCEPT !.pc = "save", !.req = "close", !.issue = i,
                                     !.row = [issues[i] EXCEPT !.status = "done"]]
            Run(i) == [Idle EXCEPT !.pc = "run", !.req = "set_status", !.issue = i,
                                   !.row = issues[i]]
<1>1. ASSUME NEW p, NEW a, CreateIssue(w, p, a) PROVE Fits(w)'
  <2>1. PICK s : Move(w, Create(s, p, a))
    BY <1>1 DEF CreateIssue, Begin
  <2>2. op'[w] = Create(s, p, a) /\ Create(s, p, a).pc = "insert"
    BY <2>1, MovedTo DEF Idle
  <2>. QED
    BY <2>2, FreeFits, FreeParts
<1>2. ASSUME NEW i \in Issues, NEW a, NEW moved \in BOOLEAN, NEW p, UpdateIssue(w, i, a, moved, p)
      PROVE  Fits(w)'
  <2>. DEFINE row == [issues[i] EXCEPT !.assignee = a, !.parent = IF moved THEN p ELSE @]
              climbs == moved /\ p # NoIssue
              o == [Idle EXCEPT !.pc = IF climbs THEN "climb" ELSE "save", !.req = "edit",
                                !.issue = i, !.row = row, !.walk = IF climbs THEN p ELSE NoIssue,
                                !.reassigned = (a # issues[i].assignee /\ a # "nobody")]
  <2>1. Exists(i) /\ UNCHANGED <<issues, directory>> /\ Move(w, o)
    BY <1>2 DEF UpdateIssue, Begin, tables
  <2>2. issues[i] \in Row
    BY TypeParts DEF TablesTyped
  <2>3. row.status = issues[i].status
    BY <2>2 DEF Row
  <2>. HIDE DEF row
  <2>4. o.pc \in {"climb", "save"} /\ o.issue = i /\ o.row = row
    BY DEF Idle
  <2>5. op'[w] = o
    BY <2>1, MovedTo
  <2>. HIDE DEF o
  <2>. QED
    BY <2>1, <2>3, <2>4, <2>5, SameReads DEF Fits
<1>3. ASSUME NEW i \in Issues, NEW to, TransitionStatus(w, i, to) PROVE Fits(w)'
  <2>1. Exists(i) /\ UNCHANGED <<issues, directory>> /\ Move(w, Transition(i, to))
    BY <1>3 DEF TransitionStatus, Begin, tables
  <2>2. /\ Transition(i, to).pc = "check" /\ Transition(i, to).issue = i
        /\ Transition(i, to).row = issues[i]
    BY DEF Idle
  <2>3. op'[w] = Transition(i, to)
    BY <2>1, MovedTo
  <2>. QED
    BY <2>1, <2>2, <2>3, SameReads DEF Fits
<1>4. ASSUME NEW i \in Issues, CloseIssue(w, i) PROVE Fits(w)'
  <2>1. /\ Exists(i) /\ ~IsTerminal(issues[i].status) /\ UNCHANGED <<issues, directory>>
        /\ Move(w, Close(i))
    BY <1>4 DEF CloseIssue, Begin, tables
  <2>2. Close(i).pc = "save" /\ Close(i).issue = i
    BY DEF Idle
  <2>3. op'[w] = Close(i)
    BY <2>1, MovedTo
  <2>. QED
    BY <2>1, <2>2, <2>3, SameReads DEF Fits, IsTerminal
<1>5. ASSUME NEW i \in Issues, StartRun(w, i) PROVE Fits(w)'
  <2>1. Move(w, Run(i))
    BY <1>5 DEF StartRun, Begin
  <2>2. op'[w] = Run(i) /\ Run(i).pc = "run"
    BY <2>1, MovedTo DEF Idle
  <2>. QED
    BY <2>2, FreeFits, FreeParts
<1>6. ASSUME op[w] = Idle, UNCHANGED op PROVE Fits(w)'
  BY <1>6 DEF Fits, FreePCs, Idle
<1>. QED
  BY <1>1, <1>2, <1>3, <1>4, <1>5, <1>6
  DEF Request, DeleteIssue, DeleteStatus, UpsertStatus

LEMMA StepFits ==
  ASSUME TypeOK, NEW w \in Workers, Fits(w), Step(w)
  PROVE  Fits(w)'
<1>. PICK i, row : i = op[w].issue /\ row = op[w].row
  OBVIOUS
<1>1. op[w] \in Ops
  BY TypeParts DEF OpsTyped
<1>2. CASE InsertIssue(w)
  <2>1. ASSUME NEW j, Move(w, [op[w] EXCEPT !.issue = j, !.pc = "reread"]) PROVE Fits(w)'
    <3>1. op'[w] = [op[w] EXCEPT !.issue = j, !.pc = "reread"]
      BY <2>1, MovedTo
    <3>. QED
      BY <1>1, <3>1, FreeFits, FreeParts DEF Ops
  <2>. QED
    BY <1>2, <2>1, IdleFits DEF InsertIssue
<1>3. CASE ReadAncestor(w)
  <2>1. ASSUME NEW next, NEW pc \in {"save", "climb"},
               Move(w, [op[w] EXCEPT !.walk = next, !.pc = pc])
        PROVE  Fits(w)'
    <3>1. op'[w] = [op[w] EXCEPT !.walk = next, !.pc = pc]
      BY <2>1, MovedTo
    <3>2. op'[w].pc = pc /\ op'[w].issue = i /\ op'[w].row = row
      BY <1>1, <3>1 DEF Ops
    <3>3. op[w].pc = "climb" /\ UNCHANGED <<issues, directory>>
      BY <1>3 DEF ReadAncestor, At, tables
    <3>4. Exists(i) /\ row.status = issues[i].status
      BY <3>3 DEF Fits, FreePCs
    <3>. QED
      BY <3>2, <3>3, <3>4, SameReads DEF Fits
  <2>. QED
    BY <1>3, <2>1, IdleFits DEF ReadAncestor
<1>4. CASE SaveRow(w)
  BY <1>4, GotoFree, IdleFits DEF SaveRow, FreePCs
<1>5. CASE ReadBack(w)
  <2>1. ASSUME NEW pc \in {"list", "assigned"}, Exists(i),
               Move(w, [op[w] EXCEPT !.row = issues[i], !.pc = pc])
        PROVE  Fits(w)'
    <3>1. op'[w] = [op[w] EXCEPT !.row = issues[i], !.pc = pc]
      BY <2>1, MovedTo
    <3>2. op'[w].pc = pc /\ op'[w].issue = i /\ op'[w].row = issues[i]
      BY <1>1, <3>1 DEF Ops
    <3>3. UNCHANGED <<issues, directory>>
      BY <1>5 DEF ReadBack, tables
    <3>. QED
      BY <2>1, <3>2, <3>3, SameReads DEF Fits, FreePCs
  <2>. QED
    BY <1>5, <2>1, IdleFits DEF ReadBack
<1>5a. CASE AskAssignee(w) \/ AskAboutStatus(w)
  BY <1>5a, IdleFits DEF AskAssignee, AskAboutStatus
<1>6. CASE CheckTransition(w)
  <2>1. CASE TransitionIn(row.status, op[w].to)
    <3>1. op'[w] = [op[w] EXCEPT !.row.status = op[w].to, !.pc = "save"]
      BY <1>6, <2>1, MovedTo DEF CheckTransition
    <3>2. op'[w].pc = "save" /\ op'[w].issue = i /\ op'[w].row.status = op[w].to
      BY <1>1, <3>1 DEF Ops, Row
    <3>3. op[w].pc = "check" /\ UNCHANGED <<issues, directory>>
      BY <1>6 DEF CheckTransition, At, tables
    <3>4. Exists(i) /\ row = issues[i]
      BY <3>3 DEF Fits, FreePCs
    <3>. QED
      BY <2>1, <3>2, <3>3, <3>4, SameReads DEF Fits
  <2>2. CASE ~TransitionIn(row.status, op[w].to)
    BY <1>6, <2>2, IdleFits DEF CheckTransition
  <2>. QED
    BY <2>1, <2>2
<1>7. CASE ListSiblings(w)
  <2>1. CASE row.parent # NoIssue /\ IsTerminal(row.status)
    <3>1. op'[w] = [op[w] EXCEPT !.seen = {issues[c].status : c \in Children(row.parent)},
                                 !.pc = "judge"]
      BY <1>7, <2>1, MovedTo DEF ListSiblings
    <3>2. /\ op'[w].pc = "judge" /\ op'[w].issue = i /\ op'[w].row = row
          /\ op'[w].seen = {issues[c].status : c \in Children(row.parent)}
      BY <1>1, <3>1 DEF Ops
    <3>3. op[w].pc = "list" /\ UNCHANGED <<issues, directory>>
      BY <1>7 DEF ListSiblings, At, tables
    <3>4. Exists(i) /\ row = issues[i]
      BY <3>3 DEF Fits, FreePCs
    <3>5. {issues'[c].status : c \in Children(row.parent)'}
            = {issues[c].status : c \in Children(row.parent)}
      BY <3>3, SameReads
    <3>. QED
      BY <2>1, <3>2, <3>3, <3>4, <3>5, SameReads DEF Fits, IsTerminal
  <2>2. CASE ~(row.parent # NoIssue /\ IsTerminal(row.status))
    BY <1>7, <2>2, GotoFree DEF ListSiblings, FreePCs
  <2>. QED
    BY <2>1, <2>2
<1>8. CASE JudgeSiblings(w)
  <2>0. op[w].pc = "judge" /\ UNCHANGED <<issues, directory>>
    BY <1>8 DEF JudgeSiblings, At, tables
  <2>1. CASE \A s \in op[w].seen : IsTerminalIn(s)
    <3>1. op'[w] = [op[w] EXCEPT !.seen = {}, !.pc = "record"]
      BY <1>8, <2>1, MovedTo DEF JudgeSiblings
    <3>2. op'[w].pc = "record" /\ op'[w].issue = i /\ op'[w].row = row
      BY <1>1, <3>1 DEF Ops
    <3>3. /\ Exists(i) /\ row = issues[i] /\ row.parent # NoIssue /\ IsTerminal(row.status)
          /\ op[w].seen = {issues[c].status : c \in Children(row.parent)}
      BY <2>0 DEF Fits, FreePCs
    <3>4. \A c \in Children(row.parent) : IsTerminalIn(issues[c].status)
      BY <2>1, <3>3
    <3>5. (Exists(i) /\ \A c \in Children(row.parent) : IsTerminalIn(issues[c].status))'
      BY <2>0, <3>3, <3>4 DEF Exists, Children, IsTerminalIn, Category
    <3>. QED
      BY <2>0, <3>2, <3>3, <3>5 DEF Fits, IsTerminal
  <2>2. CASE ~(\A s \in op[w].seen : IsTerminalIn(s))
    <3>1. op'[w] = [op[w] EXCEPT !.seen = {}, !.pc = "changed"]
      BY <1>8, <2>2, MovedTo DEF JudgeSiblings
    <3>. QED
      BY <1>1, <3>1, FreeFits, FreeParts DEF Ops
  <2>. QED
    BY <2>1, <2>2
<1>9. CASE RecordWakeup(w) \/ AskParent(w)
  BY <1>9, GotoFree, IdleFits DEF RecordWakeup, AskParent, FreePCs
<1>. QED
  BY <1>2, <1>3, <1>4, <1>5, <1>5a, <1>6, <1>7, <1>8, <1>9 DEF Step

\* One writer alone: what it holds fits, whatever is requested and whatever fails.
LEMMA FitsInit == ASSUME NEW w, Workers = {w}, Init PROVE Fits(w)
  BY DEF Init, Fits, FreePCs, Idle

LEMMA FitsNext ==
  ASSUME NEW w, Workers = {w}, TypeOK, Fits(w), [Next]_vars
  PROVE  Fits(w)'
<1>1. CASE StatementFails(w) \/ EndRun(w)
  BY <1>1, IdleFits DEF StatementFails, EndRun
<1>2. ASSUME NEW to \in Names, SetStatus(w, to) PROVE Fits(w)'
  <2>1. op[w] \in Ops /\ op[w].pc = "run"
    BY <1>2, TypeParts DEF OpsTyped, SetStatus, At
  <2>2. op'[w] = [op[w] EXCEPT !.row = [op[w].row EXCEPT !.status = to]] \/ op'[w] = op[w]
    BY <1>2, MovedTo DEF SetStatus
  <2>3. op'[w].pc = "run"
    BY <2>1, <2>2 DEF Ops
  <2>. QED
    BY <2>3, FreeFits, FreeParts
<1>3. CASE Crash
  <2>1. op'[w] = Idle
    BY <1>3 DEF Crash
  <2>. QED
    BY <2>1 DEF Fits, FreePCs, Idle
<1>4. CASE UNCHANGED vars
  BY <1>4 DEF vars, Fits, FreePCs, Exists, Children, TransitionIn, IsTerminalIn, Category
<1>. QED
  BY <1>1, <1>2, <1>3, <1>4, RequestFits, StepFits DEF Next

\* Who writes rows.
LEMMA Writers ==
  ASSUME NEW w, Workers = {w}, [Next]_vars
  PROVE  \/ UNCHANGED issues
         \/ InsertIssue(w) \/ SaveRow(w)
         \/ \E to \in Names : SetStatus(w, to)
         \/ \E i \in Issues : DeleteIssue(w, i)
<1>1. ASSUME Request(w) PROVE UNCHANGED issues \/ \E i \in Issues : DeleteIssue(w, i)
  BY <1>1
  DEF Request, CreateIssue, UpdateIssue, TransitionStatus, CloseIssue, StartRun, DeleteStatus,
      UpsertStatus, tables
<1>2. ASSUME Step(w) PROVE UNCHANGED issues \/ InsertIssue(w) \/ SaveRow(w)
  BY <1>2
  DEF Step, AskAssignee, ReadAncestor, ReadBack, CheckTransition, ListSiblings, JudgeSiblings,
      RecordWakeup, AskParent, AskAboutStatus, tables
<1>3. ASSUME StatementFails(w) \/ EndRun(w) \/ Crash PROVE UNCHANGED issues
  BY <1>3 DEF StatementFails, EndRun, Crash, tables
<1>. QED
  BY <1>1, <1>2, <1>3 DEF Next, vars

\* A row that the names and the directory call finished is written only by a
\* run whose copy is behind; all others write what the row is, or delete it.
LEMMA FinishedRow ==
  ASSUME NEW w, Workers = {w}, TypeOK, Fits(w), [Next]_vars,
         NEW i \in Issues, Exists(i), IsTerminal(issues[i].status),
         IsTerminalIn(issues[i].status)
  PROVE  \/ issues'[i].status \in {issues[i].status, "gone"}
         \/ op[w].issue = i /\ Behind(w)
<1>. issues \in [Issues -> Row] /\ op[w] \in Ops
  BY TypeParts DEF TablesTyped, OpsTyped
<1>1. CASE InsertIssue(w)
  BY <1>1 DEF InsertIssue, Exists
<1>2. CASE SaveRow(w)
  <2>1. CASE i = op[w].issue /\ issues' # issues
    <3>1. op[w].pc = "save" /\ issues'[i] = op[w].row
      BY <1>2, <2>1 DEF SaveRow, At
    <3>2. \/ op[w].row.status = issues[i].status
          \/ TransitionIn(issues[i].status, op[w].row.status)
      BY <2>1, <3>1 DEF Fits, FreePCs
    <3>3. ~TransitionIn(issues[i].status, op[w].row.status)
      BY DEF TransitionIn, IsTerminalIn, Finished, Transitions
    <3>. QED
      BY <3>1, <3>2, <3>3
  <2>. QED
    BY <1>2, <2>1 DEF SaveRow
<1>3. ASSUME NEW to \in Names, SetStatus(w, to)
      PROVE  issues'[i].status = issues[i].status \/ (op[w].issue = i /\ Behind(w))
  <2>1. CASE op[w].issue = i /\ op[w].row.status = issues[i].status
    BY <1>3, <2>1 DEF SetStatus, IsTerminal, Finished, Transitions
  <2>2. CASE op[w].issue = i /\ op[w].row.status # issues[i].status
    BY <1>3, <2>2 DEF SetStatus, Behind
  <2>. QED
    BY <1>3, <2>1, <2>2 DEF SetStatus
<1>4. ASSUME NEW j \in Issues, DeleteIssue(w, j)
      PROVE  issues'[i].status \in {issues[i].status, "gone"}
  BY <1>4 DEF DeleteIssue, NoRow
<1>. QED
  BY <1>1, <1>2, <1>3, <1>4, Writers

\* One request at a time, of any kind and with any failures: an issue that is
\* finished by its name and by the directory is never moved again, except by
\* the run of an agent whose last write could not be read back.
THEOREM FinishedIsFinal ==
  ASSUME NEW self, Workers = {self}
  PROVE  Spec => TerminalIsFinal
<1>1. ASSUME TypeOK, Fits(self), [Next]_vars,
             NEW i \in Issues, Exists(i), IsTerminal(issues[i].status),
             IsTerminalIn(issues[i].status)
      PROVE  \/ issues'[i].status \in {issues[i].status, "gone"}
             \/ \E w \in Workers : op[w].issue = i /\ Behind(w)
  <2>1. \/ issues'[i].status \in {issues[i].status, "gone"}
        \/ op[self].issue = i /\ Behind(self)
    BY <1>1, FinishedRow
  <2>. QED
    BY <2>1
<1>2. TypeOK /\ Fits(self) /\ [Next]_vars =>
        [\A i \in Issues :
           Exists(i) /\ IsTerminal(issues[i].status) /\ IsTerminalIn(issues[i].status) =>
             \/ issues'[i].status \in {issues[i].status, "gone"}
             \/ \E w \in Workers : op[w].issue = i /\ Behind(w)]_vars
  BY <1>1
<1>3. Init => Fits(self)
  BY FitsInit
<1>4. TypeOK /\ Fits(self) /\ [Next]_vars => Fits(self)'
  BY FitsNext
<1>. QED
  BY <1>2, <1>3, <1>4, BoardTypeCorrect, PTL DEF Spec, TerminalIsFinal

\* One request at a time: only a finished child wakes its parent, and only
\* when all its siblings are finished.
THEOREM EarnedWakeups ==
  ASSUME NEW w, Workers = {w}
  PROVE  Spec => WakeupsEarned
<1>1. ASSUME TypeOK, Fits(w), [Next]_vars, NEW pair \in wakeups' \ wakeups
      PROVE  /\ issues[pair[2]].parent = pair[1] /\ IsTerminal(issues[pair[2]].status)
             /\ AllFinished(pair[1])
  <2>1. RecordWakeup(w)
    <3>1. ~Request(w)
      BY <1>1
      DEF Request, CreateIssue, UpdateIssue, TransitionStatus, CloseIssue, StartRun, DeleteStatus,
          UpsertStatus, DeleteIssue, tables
    <3>2. ASSUME Step(w) PROVE RecordWakeup(w)
      BY <1>1, <3>2
      DEF Step, InsertIssue, SaveRow, AskAssignee, ReadAncestor, ReadBack, CheckTransition,
          ListSiblings, JudgeSiblings, AskParent, AskAboutStatus, tables
    <3>3. ~(StatementFails(w) \/ EndRun(w) \/ Crash \/ \E to \in Names : SetStatus(w, to))
      BY <1>1 DEF StatementFails, EndRun, Crash, SetStatus, tables
    <3>. QED
      BY <1>1, <3>1, <3>2, <3>3 DEF Next, vars
  <2>2. pair = <<op[w].row.parent, op[w].issue>> /\ op[w].pc = "record"
    BY <1>1, <2>1 DEF RecordWakeup, At
  <2>3. /\ Exists(op[w].issue) /\ op[w].row = issues[op[w].issue]
        /\ IsTerminal(op[w].row.status)
        /\ \A c \in Children(op[w].row.parent) : IsTerminalIn(issues[c].status)
    BY <1>1, <2>2 DEF Fits, FreePCs
  <2>4. op[w].issue \in Children(op[w].row.parent)
    BY <2>3 DEF Children, Exists
  <2>. QED
    BY <2>2, <2>3, <2>4 DEF AllFinished
<1>2. TypeOK /\ Fits(w) /\ [Next]_vars =>
        [\A pair \in wakeups' \ wakeups :
           issues[pair[2]].parent = pair[1] /\ IsTerminal(issues[pair[2]].status)
           /\ AllFinished(pair[1])]_vars
  BY <1>1
<1>3. Init => Fits(w)
  BY FitsInit
<1>4. TypeOK /\ Fits(w) /\ [Next]_vars => Fits(w)'
  BY FitsNext
<1>. QED
  BY <1>2, <1>3, <1>4, BoardTypeCorrect, PTL DEF Spec, WakeupsEarned

------------------------------------------------------------------------------
(* Any number of workers that create issues and move them: the wakeup of a *)
(* parent is never lost between them.                                      *)

OnlyMoves == Requests \subseteq {"create", "transition"} /\ Faults = FALSE

MovePCs == {"check", "save", "list", "judge", "record", "tell", "changed"}

Builtin == \A n \in Names : directory[n] = "none"
Rooted == \A i \in Issues : Exists(i) => Attached(issues[i])

\* A copy is as good as the row in what moves leave alone.
Mover(w) ==
  LET i == op[w].issue
      row == op[w].row
  IN
  /\ op[w].pc \notin {"climb", "run"}
  /\ op[w].pc \in MovePCs => op[w].req = "transition"
  /\ op[w].req = "transition" => ~op[w].reassigned
  /\ op[w].pc = "insert" => ~IsTerminal(row.status) /\ op[w].req # "transition"
  /\ op[w].pc \notin {"idle", "insert"} =>
       /\ Exists(i)
       /\ row.parent = issues[i].parent /\ row.assignee = issues[i].assignee

\* What LastChildWakes promises of parent p.
Told(p) ==
  /\ \E c \in Issues : <<p, c>> \in wakeups
  /\ issues[p].assignee = "nobody" \/ <<p, "wakeup">> \in asked

\* Worker w, on its way, will find the children of p finished and wake it.
Will(w, p) ==
  /\ op[w].req = "transition"
  /\ op[w].issue \in Children(p)
  /\ \/ op[w].pc = "reread"
     \/ op[w].pc = "list" /\ IsTerminal(op[w].row.status)
     \/ op[w].pc = "judge" /\ \A s \in op[w].seen : IsTerminalIn(s)
     \/ op[w].pc = "record"
     \/ op[w].pc = "tell" /\ <<p, op[w].issue>> \in wakeups

WakeupComing(p) ==
  Exists(p) /\ AllFinished(p) => Told(p) \/ \E w \in Workers : Will(w, p)

Watched ==
  /\ Builtin /\ Rooted
  /\ \A w \in Workers : Mover(w)
  /\ \A p \in Issues : WakeupComing(p)

LEMMA BuiltinCategory == ASSUME Builtin, NEW s \in Names PROVE Category(s) = s
  BY DEF Builtin, Category

\* A worker whose variables stay as they are.
LEMMA OtherMoves ==
  ASSUME NEW v, op'[v] = op[v], Mover(v),
         \A i \in Issues : Exists(i) =>
           /\ Exists(i)'
           /\ issues'[i].parent = issues[i].parent /\ issues'[i].assignee = issues[i].assignee
  PROVE  Mover(v)'
<1>1. Exists(op[v].issue) => op[v].issue \in Issues
  BY DEF Exists
<1>. QED
  BY <1>1 DEF Mover, IsTerminal

LEMMA OtherWill ==
  ASSUME NEW v, NEW p, op'[v] = op[v], UNCHANGED directory, wakeups \subseteq wakeups',
         op[v].issue \in Children(p) => op[v].issue \in Children(p)',
         Will(v, p)
  PROVE  Will(v, p)'
  BY DEF Will, IsTerminal, IsTerminalIn, Category

LEMMA ToldStays ==
  ASSUME NEW p, issues'[p].assignee = issues[p].assignee, wakeups \subseteq wakeups',
         asked \subseteq asked', Told(p)
  PROVE  Told(p)'
  BY DEF Told

\* A statement that writes no row: the worker keeps its promise, or its
\* promise is kept.
LEMMA ReadingKeeps ==
  ASSUME Watched, NEW w \in Workers,
         \A v \in Workers \ {w} : op'[v] = op[v],
         UNCHANGED <<issues, directory>>, wakeups \subseteq wakeups', asked \subseteq asked',
         Mover(w)',
         \A p \in Issues : Exists(p) /\ AllFinished(p) /\ Will(w, p) => Will(w, p)' \/ Told(p)'
  PROVE  Watched'
<1>1. (Builtin /\ Rooted)'
  BY DEF Watched, Builtin, Rooted, Attached, Exists
<1>2. ASSUME NEW v \in Workers PROVE Mover(v)'
  <2>1. CASE v # w
    BY <2>1, OtherMoves, SameReads DEF Watched
  <2>. QED
    BY <2>1
<1>3. ASSUME NEW p \in Issues PROVE WakeupComing(p)'
  <2>. SUFFICES ASSUME Exists(p), AllFinished(p)
                PROVE  Told(p)' \/ \E v \in Workers : Will(v, p)'
    BY SameReads DEF WakeupComing
  <2>1. CASE Told(p)
    BY <2>1, ToldStays
  <2>2. ASSUME NEW v \in Workers, Will(v, p) PROVE Told(p)' \/ \E u \in Workers : Will(u, p)'
    <3>1. CASE v = w
      BY <2>2, <3>1
    <3>2. CASE v # w
      <4>1. Children(p)' = Children(p)
        BY SameReads
      <4>2. Will(v, p)'
        BY <2>2, <3>2, <4>1, OtherWill
      <4>. QED
        BY <4>2
    <3>. QED
      BY <3>1, <3>2
  <2>. QED
    BY <2>1, <2>2 DEF Watched, WakeupComing
<1>. QED
  BY <1>1, <1>2, <1>3 DEF Watched

\* A worker that promises nothing ends, or goes on.
LEMMA NoPromise ==
  ASSUME Watched, NEW w \in Workers,
         \A v \in Workers \ {w} : op'[v] = op[v],
         UNCHANGED <<issues, directory>>, wakeups \subseteq wakeups', asked \subseteq asked',
         Mover(w)', \A p \in Issues : Exists(p) /\ AllFinished(p) => ~Will(w, p)
  PROVE  Watched'
  BY ReadingKeeps

LEMMA IdleMoves == ASSUME TypeOK, NEW w \in Workers, Done(w) PROVE Mover(w)'
<1>1. op'[w] = Idle
  BY MovedTo DEF Done
<1>. QED
  BY <1>1 DEF Mover, MovePCs, Idle

LEMMA CopyMoves ==
  ASSUME TypeOK, NEW w \in Workers, NEW o, Move(w, o), UNCHANGED issues,
         o.pc \notin {"climb", "run", "insert"},
         o.pc \in MovePCs => o.req = "transition", o.req = "transition" => ~o.reassigned,
         Exists(o.issue), o.row.parent = issues[o.issue].parent,
         o.row.assignee = issues[o.issue].assignee
  PROVE  Mover(w)' /\ op'[w] = o
<1>1. op'[w] = o
  BY MovedTo
<1>2. Exists(o.issue)'
  BY DEF Exists
<1>. QED
  BY <1>1, <1>2 DEF Mover

\* What a worker in the middle of a move holds.
LEMMA InMove ==
  ASSUME TypeOK, Watched, NEW w \in Workers
  PROVE  /\ op[w] \in Ops /\ issues \in [Issues -> Row]
         /\ op[w].pc \notin {"climb", "run"}
         /\ op[w].pc \in MovePCs => op[w].req = "transition"
         /\ op[w].req = "transition" => ~op[w].reassigned
         /\ op[w].pc \notin {"idle", "insert"} =>
              /\ Exists(op[w].issue)
              /\ op[w].row.parent = issues[op[w].issue].parent
              /\ op[w].row.assignee = issues[op[w].issue].assignee
  BY TypeParts DEF TablesTyped, OpsTyped, Watched, Mover

LEMMA CreateKeepsWatch ==
  ASSUME TypeOK, Watched, NEW w \in Workers, NEW p, NEW a, CreateIssue(w, p, a)
  PROVE  Watched'
<1>. DEFINE o(s) == [Idle EXCEPT !.pc = "insert", !.req = "create",
                                 !.row = [status |-> s, parent |-> p, assignee |-> a],
                                 !.reassigned = (a # "nobody")]
<1>1. PICK s \in DefaultStatuses : Move(w, o(s))
  BY DEF CreateIssue, Begin
<1>2. s = "todo"
  <2>1. \A n \in Names : Category(n) = n
    BY BuiltinCategory DEF Watched
  <2>. QED
    BY <2>1, NamesAssumption DEF DefaultStatuses
<1>3. op'[w] = o(s) /\ \A v \in Workers \ {w} : op'[v] = op[v]
  BY <1>1, MovedTo
<1>4. o(s).pc = "insert" /\ o(s).req = "create" /\ o(s).row.status = s
  BY DEF Idle
<1>. HIDE DEF o
<1>5. Mover(w)'
  BY <1>2, <1>3, <1>4 DEF Mover, MovePCs, IsTerminal, Finished
<1>6. op[w] = Idle /\ UNCHANGED tables
  BY DEF CreateIssue, Begin
<1>7. \A i : ~Will(w, i)
  BY <1>6 DEF Will, Idle
<1>. QED
  BY <1>3, <1>5, <1>6, <1>7, NoPromise DEF tables

LEMMA TransitionKeepsWatch ==
  ASSUME TypeOK, Watched, NEW w \in Workers, NEW i \in Issues, NEW to,
         TransitionStatus(w, i, to)
  PROVE  Watched'
<1>. DEFINE o == [Idle EXCEPT !.pc = "check", !.req = "transition", !.issue = i,
                              !.row = issues[i], !.to = to]
<1>1. Move(w, o) /\ Exists(i) /\ op[w] = Idle /\ UNCHANGED tables
  BY DEF TransitionStatus, Begin
<1>2. o.pc = "check" /\ o.req = "transition" /\ ~o.reassigned /\ o.issue = i /\ o.row = issues[i]
  BY DEF Idle
<1>. HIDE DEF o
<1>3. Mover(w)'
  BY <1>1, <1>2, CopyMoves DEF tables
<1>4. \A v \in Workers \ {w} : op'[v] = op[v]
  BY <1>1, MovedTo
<1>5. \A p : ~Will(w, p)
  BY <1>1 DEF Will, Idle
<1>. QED
  BY <1>1, <1>3, <1>4, <1>5, NoPromise DEF tables

\* A new child is not finished, and a new issue has no children.
LEMMA InsertKeepsWatch ==
  ASSUME TypeOK, Watched, NEW w \in Workers, InsertIssue(w)
  PROVE  Watched'
<1>. DEFINE row == op[w].row
<1>1. op[w] \in Ops /\ op[w].pc = "insert" /\ issues \in [Issues -> Row]
  BY InMove DEF InsertIssue, At
<1>2. ~IsTerminal(row.status) /\ op[w].req # "transition" /\ row.status \in Names
  BY <1>1, TypeParts DEF Watched, Mover, OpsTyped, OpTyped
<1>3. CASE Done(w) /\ UNCHANGED issues
  <2>1. \A v \in Workers \ {w} : op'[v] = op[v]
    BY <1>3, MovedTo DEF Done
  <2>2. \A p : ~Will(w, p)
    BY <1>1 DEF Will
  <2>. QED
    BY <1>3, <2>1, <2>2, IdleMoves, NoPromise DEF InsertIssue
<1>4. ASSUME NEW i \in Issues, Attached(row), issues[i].status = "none",
             issues' = [issues EXCEPT ![i] = row],
             Move(w, [op[w] EXCEPT !.issue = i, !.pc = "reread"])
      PROVE  Watched'
  <2>1. /\ op'[w] = [op[w] EXCEPT !.issue = i, !.pc = "reread"]
        /\ \A v \in Workers \ {w} : op'[v] = op[v]
    BY <1>4, MovedTo
  <2>2. /\ op'[w].pc = "reread" /\ op'[w].issue = i /\ op'[w].row = row
        /\ op'[w].req = op[w].req
    BY <1>1, <2>1 DEF Ops
  <2>3. /\ issues'[i] = row /\ Exists(i)' /\ ~Exists(i)
        /\ \A j \in Issues \ {i} : issues'[j] = issues[j] /\ (Exists(j)' <=> Exists(j))
        /\ UNCHANGED <<directory, wakeups, asked>>
    BY <1>1, <1>2, <1>4, NamesAssumption DEF Exists, Categories, InsertIssue
  <2>4. Builtin'
    BY <2>3 DEF Watched, Builtin
  <2>5. Rooted'
    <3>1. ASSUME NEW j \in Issues, Exists(j)' PROVE Attached(issues[j])'
      BY <1>4, <2>3, <3>1 DEF Watched, Rooted, Attached, Exists
    <3>. QED
      BY <3>1 DEF Rooted
  <2>6. ASSUME NEW v \in Workers PROVE Mover(v)'
    <3>1. CASE v # w
      BY <2>1, <2>3, <3>1, OtherMoves DEF Watched
    <3>2. CASE v = w
      BY <1>2, <2>2, <2>3, <3>2 DEF Mover, MovePCs
    <3>. QED
      BY <3>1, <3>2
  <2>7. ASSUME NEW p \in Issues PROVE WakeupComing(p)'
    <3>. SUFFICES ASSUME Exists(p)', AllFinished(p)'
                  PROVE  Told(p)' \/ \E v \in Workers : Will(v, p)'
      BY DEF WakeupComing
    <3>1. p # i
      <4>1. \A c \in Issues : Exists(c)' => issues'[c].parent # i
        BY <1>4, <2>3, IssuesAssumption DEF Watched, Rooted, Attached
      <4>. QED
        BY <4>1 DEF AllFinished, Children
    <3>2. row.parent # p
      <4>1. ~IsTerminalIn(issues[i].status)'
        BY <1>2, <2>3, <2>4, BuiltinCategory DEF IsTerminalIn, IsTerminal, Builtin, Category
      <4>2. row.parent = p => i \in Children(p)'
        BY <2>3 DEF Children
      <4>. QED
        BY <4>1, <4>2 DEF AllFinished
    <3>3. Children(p)' = Children(p)
      BY <2>3, <3>2 DEF Children
    <3>4. AllFinished(p)
      <4>1. ASSUME NEW c \in Children(p) PROVE IsTerminalIn(issues[c].status)
        <5>1. c \in Issues \ {i} /\ c \in Children(p)'
          BY <2>3, <3>3 DEF Children
        <5>2. IsTerminalIn(issues[c].status)'
          BY <5>1 DEF AllFinished
        <5>. QED
          BY <2>3, <5>1, <5>2 DEF IsTerminalIn, Category
      <4>. QED
        BY <3>3, <4>1 DEF AllFinished
    <3>5. Told(p) \/ \E v \in Workers \ {w} : Will(v, p)
      BY <1>1, <2>3, <3>1, <3>4 DEF Watched, WakeupComing, Will
    <3>6. Told(p) => Told(p)'
      BY <2>3, <3>1, ToldStays
    <3>7. \A v \in Workers \ {w} : Will(v, p) => Will(v, p)'
      BY <2>1, <2>3, <3>3, OtherWill
    <3>. QED
      BY <3>5, <3>6, <3>7
  <2>. QED
    BY <2>4, <2>5, <2>6, <2>7 DEF Watched
<1>. QED
  BY <1>3, <1>4 DEF InsertIssue

\* A move writes what it read, except for the status; if it finishes the last
\* child, it is the one that will find that out.
LEMMA SaveKeepsWatch ==
  ASSUME TypeOK, Watched, NEW w \in Workers, SaveRow(w)
  PROVE  Watched'
<1>. DEFINE i == op[w].issue
            row == op[w].row
<1>1. op[w] \in Ops /\ op[w].pc = "save" /\ issues \in [Issues -> Row]
  BY InMove DEF SaveRow, At
<1>2. /\ op[w].req = "transition" /\ ~op[w].reassigned /\ Exists(i)
      /\ row.parent = issues[i].parent /\ row.assignee = issues[i].assignee
      /\ row.status \in Names
  BY <1>1, InMove, TypeParts DEF MovePCs, OpsTyped, OpTyped
<1>3. CASE Done(w) /\ UNCHANGED issues
  <2>1. \A v \in Workers \ {w} : op'[v] = op[v]
    BY <1>3, MovedTo DEF Done
  <2>2. \A p : ~Will(w, p)
    BY <1>1 DEF Will
  <2>. QED
    BY <1>3, <2>1, <2>2, IdleMoves, NoPromise DEF SaveRow
<1>4. CASE issues' = [issues EXCEPT ![i] = row] /\ Goto(w, "reread")
  <2>1. /\ op'[w] = [op[w] EXCEPT !.pc = "reread"]
        /\ \A v \in Workers \ {w} : op'[v] = op[v]
    BY <1>4, MovedTo DEF Goto
  <2>2. /\ op'[w].pc = "reread" /\ op'[w].issue = i /\ op'[w].row = row
        /\ op'[w].req = "transition" /\ ~op'[w].reassigned
    BY <1>1, <1>2, <2>1 DEF Ops
  <2>3. /\ i \in Issues /\ issues'[i] = row
        /\ \A j \in Issues \ {i} : issues'[j] = issues[j]
        /\ \A j \in Issues : issues'[j].parent = issues[j].parent
                             /\ issues'[j].assignee = issues[j].assignee
        /\ \A j : Exists(j)' <=> Exists(j)
        /\ UNCHANGED <<directory, wakeups, asked>>
    BY <1>1, <1>2, <1>4, NamesAssumption DEF Exists, Categories, SaveRow
  <2>4. (Builtin /\ Rooted)'
    BY <2>3 DEF Watched, Builtin, Rooted, Attached, Exists
  <2>5. ASSUME NEW v \in Workers PROVE Mover(v)'
    <3>1. CASE v # w
      BY <2>1, <2>3, <3>1, OtherMoves DEF Watched
    <3>2. CASE v = w
      BY <1>2, <2>2, <2>3, <3>2 DEF Mover, MovePCs
    <3>. QED
      BY <3>1, <3>2
  <2>6. ASSUME NEW p \in Issues PROVE WakeupComing(p)'
    <3>. SUFFICES ASSUME Exists(p)', AllFinished(p)'
                  PROVE  Told(p)' \/ \E v \in Workers : Will(v, p)'
      BY DEF WakeupComing
    <3>1. Children(p)' = Children(p)
      BY <2>3 DEF Children
    <3>2. CASE i \in Children(p)
      <4>1. Will(w, p)'
        BY <2>2, <3>1, <3>2 DEF Will
      <4>. QED
        BY <4>1
    <3>3. CASE i \notin Children(p)
      <4>1. AllFinished(p)
        <5>1. ASSUME NEW c \in Children(p) PROVE IsTerminalIn(issues[c].status)
          <6>1. issues'[c] = issues[c] /\ c \in Children(p)'
            BY <2>3, <3>1, <3>3 DEF Children
          <6>2. IsTerminalIn(issues[c].status)'
            BY <6>1 DEF AllFinished
          <6>. QED
            BY <2>3, <6>1, <6>2 DEF IsTerminalIn, Category
        <5>. QED
          BY <3>1, <5>1 DEF AllFinished
      <4>2. Told(p) \/ \E v \in Workers \ {w} : Will(v, p)
        BY <1>1, <2>3, <4>1 DEF Watched, WakeupComing, Will
      <4>3. Told(p) => Told(p)'
        BY <2>3, ToldStays
      <4>4. \A v \in Workers \ {w} : Will(v, p) => Will(v, p)'
        BY <2>1, <2>3, <3>1, OtherWill
      <4>. QED
        BY <4>2, <4>3, <4>4
    <3>. QED
      BY <3>2, <3>3
  <2>. QED
    BY <2>4, <2>5, <2>6 DEF Watched
<1>. QED
  BY <1>3, <1>4 DEF SaveRow

\* The statements of a move after the row is written.
LEMMA JudgeKeepsWatch ==
  ASSUME TypeOK, Watched, NEW w \in Workers,
         ReadBack(w) \/ ListSiblings(w) \/ JudgeSiblings(w)
  PROVE  Watched'
<1>. DEFINE i == op[w].issue
            row == op[w].row
<1>1. UNCHANGED tables
  BY DEF ReadBack, ListSiblings, JudgeSiblings
<1>2. op[w] \in Ops /\ issues \in [Issues -> Row] /\ Exists(i) /\ i \in Issues
  BY InMove DEF ReadBack, ListSiblings, JudgeSiblings, At, Exists
<1>3. row.parent = issues[i].parent /\ row.assignee = issues[i].assignee
  BY InMove DEF ReadBack, ListSiblings, JudgeSiblings, At
<1>4. CASE Done(w) /\ op[w].req # "transition"
  <2>1. \A v \in Workers \ {w} : op'[v] = op[v]
    BY <1>4, MovedTo DEF Done
  <2>2. \A p : ~Will(w, p)
    BY <1>4 DEF Will
  <2>. QED
    BY <1>1, <1>4, <2>1, <2>2, IdleMoves, NoPromise DEF tables
<1>5. ASSUME NEW o, Move(w, o), o.issue = i, o.req = op[w].req,
             o.reassigned = op[w].reassigned, o.row \in {row, issues[i]},
             o.pc \in {"list", "assigned", "judge", "record", "changed"},
             o.pc # "assigned" => op[w].req = "transition",
             \A p \in Issues : Exists(p) /\ AllFinished(p) /\ Will(w, p) => Will(w, p)'
      PROVE  Watched'
  <2>1. Mover(w)' /\ \A v \in Workers \ {w} : op'[v] = op[v]
    BY <1>1, <1>2, <1>3, <1>5, InMove, CopyMoves, MovedTo DEF MovePCs, tables
  <2>. QED
    BY <1>1, <1>5, <2>1, ReadingKeeps DEF tables
<1>6. CASE ReadBack(w)
  <2>1. CASE op[w].req = "transition" /\ Move(w, [op[w] EXCEPT !.row = issues[i], !.pc = "list"])
    <3>. DEFINE o == [op[w] EXCEPT !.row = issues[i], !.pc = "list"]
    <3>1. /\ o.issue = i /\ o.req = "transition" /\ o.row = issues[i] /\ o.pc = "list"
          /\ o.reassigned = op[w].reassigned
      BY <1>2, <2>1 DEF Ops
    <3>2. Move(w, o)
      BY <2>1
    <3>. HIDE DEF o
    <3>3. op'[w] = o
      BY <3>2, MovedTo
    <3>4. ASSUME NEW p \in Issues, Exists(p), AllFinished(p), Will(w, p) PROVE Will(w, p)'
      <4>1. i \in Children(p) /\ IsTerminalIn(issues[i].status)
        BY <3>4 DEF Will, AllFinished
      <4>2. issues[i].status \in Names
        BY <1>2, ExistsFacts, TypeParts
      <4>3. IsTerminal(issues[i].status)
        BY <4>1, <4>2, BuiltinCategory DEF IsTerminalIn, IsTerminal, Watched
      <4>4. i \in Children(p)'
        BY <1>1, <4>1, SameReads DEF tables
      <4>. QED
        BY <3>1, <3>3, <4>3, <4>4 DEF Will, IsTerminal
    <3>. QED
      BY <1>5, <2>1, <3>1, <3>2, <3>4
  <2>2. CASE op[w].req # "transition"
             /\ Move(w, [op[w] EXCEPT !.row = issues[i], !.pc = "assigned"])
    <3>. DEFINE o == [op[w] EXCEPT !.row = issues[i], !.pc = "assigned"]
    <3>1. /\ o.issue = i /\ o.req = op[w].req /\ o.row = issues[i] /\ o.pc = "assigned"
          /\ o.reassigned = op[w].reassigned
      BY <1>2 DEF Ops
    <3>. HIDE DEF o
    <3>. QED
      BY <1>5, <2>2, <3>1 DEF Will, o
  <2>. QED
    BY <1>2, <1>4, <1>6, <2>1, <2>2, InMove DEF ReadBack
<1>7. CASE ListSiblings(w)
  <2>1. op[w].pc = "list"
    BY <1>7 DEF ListSiblings, At
  <2>2. CASE row.parent # NoIssue /\ IsTerminal(row.status)
    <3>. DEFINE o == [op[w] EXCEPT !.seen = {issues[c].status : c \in Children(row.parent)},
                                   !.pc = "judge"]
    <3>1. /\ o.issue = i /\ o.req = op[w].req /\ o.row = row /\ o.pc = "judge"
          /\ o.reassigned = op[w].reassigned
          /\ o.seen = {issues[c].status : c \in Children(row.parent)}
      BY <1>2 DEF Ops
    <3>2. Move(w, o)
      BY <1>7, <2>2 DEF ListSiblings
    <3>. HIDE DEF o
    <3>3. op'[w] = o
      BY <3>2, MovedTo
    <3>4. ASSUME NEW p \in Issues, Exists(p), AllFinished(p), Will(w, p) PROVE Will(w, p)'
      <4>1. i \in Children(p) /\ row.parent = p
        BY <1>3, <3>4 DEF Will, Children
      <4>2. \A s \in o.seen : IsTerminalIn(s)
        BY <3>1, <3>4, <4>1 DEF AllFinished
      <4>3. \A s \in op'[w].seen : IsTerminalIn(s)'
        BY <1>1, <3>3, <4>2 DEF tables, IsTerminalIn, Category
      <4>4. i \in Children(p)'
        BY <1>1, <4>1, SameReads DEF tables
      <4>. QED
        BY <3>1, <3>3, <3>4, <4>3, <4>4 DEF Will
    <3>. QED
      BY <1>5, <2>1, <3>1, <3>2, <3>4, InMove DEF MovePCs
  <2>3. CASE ~(row.parent # NoIssue /\ IsTerminal(row.status))
    <3>. DEFINE o == [op[w] EXCEPT !.pc = "changed"]
    <3>1. /\ o.issue = i /\ o.req = op[w].req /\ o.row = row /\ o.pc = "changed"
          /\ o.reassigned = op[w].reassigned
      BY <1>2 DEF Ops
    <3>2. Move(w, o)
      BY <1>7, <2>3 DEF ListSiblings, Goto
    <3>. HIDE DEF o
    <3>3. \A p \in Issues : ~Will(w, p)
      BY <1>3, <2>1, <2>3, IssuesAssumption DEF Will, Children
    <3>. QED
      BY <1>5, <2>1, <3>1, <3>2, <3>3, InMove DEF MovePCs
  <2>. QED
    BY <2>2, <2>3
<1>8. CASE JudgeSiblings(w)
  <2>1. op[w].pc = "judge"
    BY <1>8 DEF JudgeSiblings, At
  <2>2. ASSUME NEW pc \in {"record", "changed"}, Move(w, [op[w] EXCEPT !.seen = {}, !.pc = pc]),
               pc = "changed" => ~(\A s \in op[w].seen : IsTerminalIn(s))
        PROVE  Watched'
    <3>. DEFINE o == [op[w] EXCEPT !.seen = {}, !.pc = pc]
    <3>1. /\ o.issue = i /\ o.req = op[w].req /\ o.row = row /\ o.pc = pc
          /\ o.reassigned = op[w].reassigned
      BY <1>2 DEF Ops
    <3>. HIDE DEF o
    <3>2. Move(w, o)
      BY <2>2 DEF o
    <3>3. op'[w] = o
      BY <3>2, MovedTo
    <3>4. ASSUME NEW p \in Issues, Will(w, p) PROVE Will(w, p)'
      <4>1. pc = "record" /\ i \in Children(p) /\ op[w].req = "transition"
        BY <2>1, <2>2, <3>4 DEF Will
      <4>2. i \in Children(p)'
        BY <1>1, <4>1, SameReads DEF tables
      <4>. QED
        BY <3>1, <3>3, <4>1, <4>2 DEF Will
    <3>. QED
      BY <1>5, <2>1, <2>2, <3>1, <3>2, <3>4, InMove DEF MovePCs
  <2>. QED
    BY <1>8, <2>2 DEF JudgeSiblings
<1>. QED
  BY <1>6, <1>7, <1>8

LEMMA CheckKeepsWatch ==
  ASSUME TypeOK, Watched, NEW w \in Workers, CheckTransition(w)
  PROVE  Watched'
<1>1. op[w].pc = "check" /\ UNCHANGED tables
  BY DEF CheckTransition, At
<1>2. \A p : ~Will(w, p)
  BY <1>1 DEF Will
<1>3. CASE Done(w)
  <2>1. \A v \in Workers \ {w} : op'[v] = op[v]
    BY <1>3, MovedTo DEF Done
  <2>. QED
    BY <1>1, <1>2, <1>3, <2>1, IdleMoves, NoPromise DEF tables
<1>4. CASE Move(w, [op[w] EXCEPT !.row.status = op[w].to, !.pc = "save"])
  <2>. DEFINE o == [op[w] EXCEPT !.row.status = op[w].to, !.pc = "save"]
  <2>1. /\ o.issue = op[w].issue /\ o.req = op[w].req /\ o.pc = "save"
        /\ o.row.parent = op[w].row.parent /\ o.row.assignee = op[w].row.assignee
        /\ o.reassigned = op[w].reassigned
    BY InMove DEF Ops, Row
  <2>2. Move(w, o)
    BY <1>4
  <2>. HIDE DEF o
  <2>3. Mover(w)'
    BY <1>1, <2>1, <2>2, InMove, CopyMoves DEF MovePCs, tables
  <2>4. \A v \in Workers \ {w} : op'[v] = op[v]
    BY <2>2, MovedTo
  <2>. QED
    BY <1>1, <1>2, <2>3, <2>4, NoPromise DEF tables
<1>. QED
  BY <1>3, <1>4 DEF CheckTransition

LEMMA AskGrows == ASSUME NEW i, NEW a, NEW call, Ask(i, a, call) PROVE asked \subseteq asked'
  BY DEF Ask

\* The wakeup is recorded, and then the assignee of the parent asked.
LEMMA RecordKeepsWatch ==
  ASSUME TypeOK, Watched, NEW w \in Workers, RecordWakeup(w) \/ AskParent(w)
  PROVE  Watched'
<1>. DEFINE i == op[w].issue
            row == op[w].row
<1>1. /\ op[w] \in Ops /\ i \in Issues /\ op[w].pc \in MovePCs
      /\ row.parent = issues[i].parent /\ Exists(i)
  BY InMove DEF RecordWakeup, AskParent, At, Exists, MovePCs
<1>2. UNCHANGED <<issues, directory>> /\ wakeups \subseteq wakeups' /\ asked \subseteq asked'
  BY AskGrows DEF RecordWakeup, AskParent
<1>3. \A p : Will(w, p) => row.parent = p /\ i \in Children(p)
  BY <1>1 DEF Will, Children
<1>4. CASE Done(w) /\ ~Exists(row.parent)
  <2>1. \A v \in Workers \ {w} : op'[v] = op[v]
    BY <1>4, MovedTo DEF Done
  <2>2. \A p \in Issues : Exists(p) => ~Will(w, p)
    BY <1>3, <1>4
  <2>. QED
    BY <1>2, <1>4, <2>1, <2>2, IdleMoves, NoPromise
<1>5. ASSUME NEW pc \in {"tell", "changed"}, Goto(w, pc),
             \A p \in Issues : Will(w, p) => Told(p)' \/ (pc = "tell" /\ <<p, i>> \in wakeups')
      PROVE  Watched'
  <2>. DEFINE o == [op[w] EXCEPT !.pc = pc]
  <2>1. /\ o.issue = i /\ o.req = op[w].req /\ o.pc = pc /\ o.row = row
        /\ o.reassigned = op[w].reassigned
    BY <1>1 DEF Ops
  <2>2. Move(w, o)
    BY <1>5 DEF Goto
  <2>. HIDE DEF o
  <2>3. Mover(w)' /\ op'[w] = o
    BY <1>1, <1>2, <2>1, <2>2, InMove, CopyMoves DEF MovePCs
  <2>4. \A v \in Workers \ {w} : op'[v] = op[v]
    BY <2>2, MovedTo
  <2>5. ASSUME NEW p \in Issues, Will(w, p) PROVE Will(w, p)' \/ Told(p)'
    <3>1. i \in Children(p)' /\ op[w].req = "transition"
      BY <1>2, <1>3, <2>5, SameReads DEF Will
    <3>. QED
      BY <1>5, <2>1, <2>3, <2>5, <3>1 DEF Will
  <2>. QED
    BY <1>2, <2>3, <2>4, <2>5, ReadingKeeps
<1>6. CASE RecordWakeup(w)
  <2>1. CASE wakeups' = wakeups \union {<<row.parent, i>>} /\ Goto(w, "tell")
    BY <1>3, <1>5, <2>1
  <2>2. CASE Done(w) /\ ~(Exists(row.parent) /\ Exists(i))
    BY <1>1, <1>4, <2>2
  <2>. QED
    BY <1>6, <2>1, <2>2 DEF RecordWakeup
<1>7. CASE AskParent(w)
  <2>1. CASE Exists(row.parent) /\ Ask(row.parent, issues[row.parent].assignee, "wakeup")
             /\ Goto(w, "changed")
    <3>1. op[w].pc = "tell" /\ UNCHANGED wakeups
      BY <1>7 DEF AskParent, At
    <3>2. ASSUME NEW p \in Issues, Will(w, p) PROVE Told(p)'
      <4>1. p = row.parent /\ <<p, i>> \in wakeups'
        BY <1>3, <3>1, <3>2 DEF Will
      <4>2. issues[p].assignee \in People
        BY TypeParts DEF TablesTyped, Row
      <4>3. issues'[p].assignee = "nobody" \/ <<p, "wakeup">> \in asked'
        BY <1>2, <2>1, <4>1, <4>2 DEF Ask, People
      <4>. QED
        BY <1>1, <4>1, <4>3 DEF Told
    <3>. QED
      BY <1>5, <2>1, <3>2
  <2>2. CASE Done(w) /\ ~Exists(row.parent)
    BY <1>4, <2>2
  <2>. QED
    BY <1>7, <2>1, <2>2 DEF AskParent
<1>. QED
  BY <1>6, <1>7

LEMMA AskKeepsWatch ==
  ASSUME TypeOK, Watched, NEW w \in Workers, AskAssignee(w) \/ AskAboutStatus(w)
  PROVE  Watched'
<1>1. /\ op[w].pc \in {"assigned", "changed"} /\ Done(w)
      /\ UNCHANGED <<issues, directory>> /\ wakeups \subseteq wakeups' /\ asked \subseteq asked'
  BY AskGrows DEF AskAssignee, AskAboutStatus, At
<1>2. \A p : ~Will(w, p)
  BY <1>1 DEF Will
<1>3. \A v \in Workers \ {w} : op'[v] = op[v]
  BY <1>1, MovedTo DEF Done
<1>. QED
  BY <1>1, <1>2, <1>3, IdleMoves, NoPromise

\* Any number of workers that create issues and move them, while no statement
\* fails: when the last child of an issue is finished, some child's wakeup is
\* recorded and the issue's assignee asked, or the worker that finished the
\* last child is still on its way there.
THEOREM LastChildAlwaysWakes ==
  ASSUME OnlyMoves
  PROVE  Spec => []LastChildWakes
<1>1. Init => Watched
  <2>. SUFFICES ASSUME Init PROVE Watched
    OBVIOUS
  <2>1. \A i : ~Exists(i)
    BY DEF Init, Exists, NoRow
  <2>2. \A w \in Workers : Mover(w)
    BY DEF Init, Mover, MovePCs, Idle
  <2>. QED
    BY <2>1, <2>2 DEF Init, Watched, Builtin, Rooted, WakeupComing
<1>2. TypeOK /\ Watched /\ [Next]_vars => Watched'
  <2>. SUFFICES ASSUME TypeOK, Watched, [Next]_vars PROVE Watched'
    OBVIOUS
  <2>1. ASSUME NEW w \in Workers, Request(w) PROVE Watched'
    <3>1. ASSUME NEW i, NEW a, NEW moved \in BOOLEAN, NEW p, UpdateIssue(w, i, a, moved, p)
          PROVE  FALSE
      BY <3>1 DEF UpdateIssue, Begin, OnlyMoves, Idle
    <3>2. ASSUME NEW i, CloseIssue(w, i) \/ StartRun(w, i) PROVE FALSE
      BY <3>2 DEF CloseIssue, StartRun, Begin, OnlyMoves, Idle
    <3>3. ASSUME NEW i, DeleteIssue(w, i) PROVE FALSE
      BY <3>3 DEF DeleteIssue, OnlyMoves
    <3>4. ASSUME NEW n, DeleteStatus(w, n) \/ \E c \in Categories : UpsertStatus(w, n, c)
          PROVE  FALSE
      BY <3>4 DEF DeleteStatus, UpsertStatus, OnlyMoves
    <3>. QED
      BY <2>1, <3>1, <3>2, <3>3, <3>4, CreateKeepsWatch, TransitionKeepsWatch DEF Request
  <2>2. ASSUME NEW w \in Workers, Step(w) PROVE Watched'
    <3>1. ~ReadAncestor(w)
      BY InMove DEF ReadAncestor, At
    <3>. QED
      BY <2>2, <3>1, InsertKeepsWatch, SaveKeepsWatch, JudgeKeepsWatch, CheckKeepsWatch,
         RecordKeepsWatch, AskKeepsWatch
      DEF Step
  <2>3. ASSUME NEW w \in Workers,
               StatementFails(w) \/ EndRun(w) \/ \E to \in Names : SetStatus(w, to)
        PROVE  FALSE
    BY <2>3, InMove DEF StatementFails, EndRun, SetStatus, At, OnlyMoves
  <2>4. ~Crash
    BY DEF Crash, OnlyMoves
  <2>5. CASE UNCHANGED vars
    BY <2>5
    DEF vars, Watched, Builtin, Rooted, Attached, Mover, WakeupComing, Told, Will, AllFinished,
        Children, Exists, IsTerminalIn, Category, IsTerminal
  <2>. QED
    BY <2>1, <2>2, <2>3, <2>4, <2>5 DEF Next
<1>3. Watched => LastChildWakes
  <2>1. ASSUME NEW w \in Workers, NEW p, Will(w, p) PROVE Deciding(w, p)
    BY <2>1 DEF Will, Deciding
  <2>. QED
    BY <2>1 DEF Watched, WakeupComing, Told, LastChildWakes
<1>. QED
  BY <1>1, <1>2, <1>3, BoardTypeCorrect, PTL DEF Spec

==============================================================================
