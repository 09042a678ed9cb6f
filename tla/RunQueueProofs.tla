--------------------------- MODULE RunQueueProofs ----------------------------
(***************************************************************************)
(* The run queue keeps its promises for any number of servers, local       *)
(* runtimes, agents, issues and runs, and any number of failures.          *)
(*                                                                         *)
(* What makes them inductive is what a claimer knows about the run it      *)
(* holds (Holding), that no two claimers hold the same run (Apart), and    *)
(* that a claim in progress has nothing older of its agent before it       *)
(* (OldestHeld).                                                           *)
(***************************************************************************)
EXTENDS RunQueue, TLAPS

HeldStatus(c) ==
  CASE claimers[c].pc = "claim" -> {"queued"}
    [] claimers[c].pc = "execute" -> {"running", "gone"}
    [] claimers[c].pc = "finish" -> {"running", "gone"}
    [] claimers[c].pc = "tell" -> {claimers[c].outcome, "gone"}
    [] OTHER -> RunStatuses

Busy(c) == claimers[c].pc # "idle"

Holding ==
  \A c \in Claimers : Busy(c) =>
    /\ runs[claimers[c].run].status \in HeldStatus(c)
    /\ Eligible(c, claimers[c].run)

Apart ==
  \A c, d \in Claimers :
    c # d /\ Busy(c) /\ Busy(d) => claimers[c].run # claimers[d].run

OldestHeld ==
  \A c \in Claimers, q \in DOMAIN runs :
    /\ claimers[c].pc = "claim" /\ q < claimers[c].run
    /\ runs[q].agent = runs[claimers[c].run].agent /\ Orderly(runs[q].agent)
    => ~Queued(q)

IInv == TypeOK /\ Holding /\ Apart /\ OldestHeld /\ InOrder /\ ToldTruly

------------------------------------------------------------------------------
(* Steps of the tables.                                                    *)

\* A step that leaves every run where it is, with its agent and issue.
SameRows ==
  /\ runs' \in Seq(RunRows)
  /\ DOMAIN runs \subseteq DOMAIN runs'
  /\ \A r \in DOMAIN runs :
       runs'[r].agent = runs[r].agent /\ runs'[r].issue = runs[r].issue

\* Changing the status of one run.
LEMMA StatusChanges ==
  ASSUME runs \in Seq(RunRows), NEW r \in DOMAIN runs, NEW s \in RunStatuses,
         SetStatus(r, s)
  PROVE  /\ SameRows /\ DOMAIN runs' = DOMAIN runs
         /\ runs'[r].status = s
         /\ \A q \in DOMAIN runs : q # r => runs'[q] = runs[q]
<1>1. /\ Len(runs) \in Nat /\ DOMAIN runs = 1..Len(runs)
      /\ \A q \in DOMAIN runs : runs[q] \in RunRows
  OBVIOUS
<1> DEFINE new == [runs[r] EXCEPT !.status = s]
<1>2. new \in RunRows /\ new.status = s /\ new.agent = runs[r].agent /\ new.issue = runs[r].issue
  BY <1>1 DEF RunRows
<1>3. runs' = [runs EXCEPT ![r] = new]
  BY DEF SetStatus
<1> HIDE DEF new
<1>4. runs' \in Seq(RunRows) /\ DOMAIN runs' = DOMAIN runs
  BY <1>2, <1>3
<1>5. runs'[r] = new /\ \A q \in DOMAIN runs : q # r => runs'[q] = runs[q]
  BY <1>1, <1>3
<1> QED BY <1>2, <1>4, <1>5 DEF SameRows

\* Deleting runs with their agent or issue.
LEMMA Cascades ==
  ASSUME runs \in Seq(RunRows), NEW dead \in SUBSET (DOMAIN runs), Cascade(dead)
  PROVE  /\ SameRows /\ DOMAIN runs' = DOMAIN runs
         /\ \A q \in DOMAIN runs : IF q \in dead THEN runs'[q].status = "gone"
                                                 ELSE runs'[q] = runs[q]
<1>1. /\ Len(runs) \in Nat /\ DOMAIN runs = 1..Len(runs)
      /\ \A q \in DOMAIN runs : runs[q] \in RunRows
  OBVIOUS
<1>2. \A q \in DOMAIN runs : LET n == [runs[q] EXCEPT !.status = "gone"] IN
        n \in RunRows /\ n.status = "gone" /\ n.agent = runs[q].agent /\ n.issue = runs[q].issue
  BY <1>1 DEF RunRows, RunStatuses
<1>3. /\ DOMAIN runs' = 1..Len(runs)
      /\ \A q \in DOMAIN runs :
           runs'[q] = IF q \in dead THEN [runs[q] EXCEPT !.status = "gone"] ELSE runs[q]
  BY <1>1 DEF Cascade
<1>4. \A q \in DOMAIN runs : runs'[q] \in RunRows
  BY <1>1, <1>2, <1>3
<1>5. runs' \in [1..Len(runs) -> RunRows]
  <2>1. runs' = [q \in 1..Len(runs) |-> runs'[q]]
    BY <1>1, <1>3 DEF Cascade
  <2> QED BY <2>1, <1>1, <1>4
<1>6. runs' \in Seq(RunRows)
  BY <1>1, <1>5, SMT
<1> QED BY <1>1, <1>2, <1>3, <1>6 DEF SameRows

\* A new run comes last.
LEMMA RunAdded ==
  ASSUME runs \in Seq(RunRows), NEW a \in Agents, NEW i \in Issues,
         runs' = Append(runs, [agent |-> a, issue |-> i, status |-> "queued"])
  PROVE  /\ SameRows
         /\ \A q \in DOMAIN runs' \ DOMAIN runs : q = Len(runs) + 1
         /\ \A q \in DOMAIN runs : runs'[q] = runs[q]
         /\ runs'[Len(runs) + 1].status = "queued"
<1>1. Len(runs) \in Nat /\ DOMAIN runs = 1..Len(runs)
  OBVIOUS
<1> DEFINE new == [agent |-> a, issue |-> i, status |-> "queued"]
<1>2. new \in RunRows /\ new.status = "queued"
  BY DEF RunRows, RunStatuses
<1>3. runs' = Append(runs, new)
  OBVIOUS
<1> HIDE DEF new
<1>4. /\ runs' \in Seq(RunRows) /\ DOMAIN runs' = 1..(Len(runs) + 1)
      /\ \A q \in DOMAIN runs : runs'[q] = runs[q]
      /\ runs'[Len(runs) + 1] = new
  BY <1>1, <1>2, <1>3
<1> QED BY <1>1, <1>2, <1>4 DEF SameRows

------------------------------------------------------------------------------
(* Types.                                                                  *)

ClaimerRecs == [pc : PCs, run : Nat, outcome : Outcomes]

\* A step of claimer c to a position with a run of the table, or to rest.
Moves(c) ==
  \E o \in ClaimerRecs :
    /\ claimers' = [claimers EXCEPT ![c] = o]
    /\ IF o.pc = "idle" THEN o.run = 0 ELSE o.run \in DOMAIN runs

LEMMA Moved ==
  ASSUME TypeOK, NEW c \in Claimers, Moves(c), SameRows
  PROVE  /\ claimers' \in [Claimers -> ClaimerRecs]
         /\ (\A d \in Claimers : IF claimers[d].pc = "idle" THEN claimers[d].run = 0
                                   ELSE claimers[d].run \in DOMAIN runs)'
         /\ \A d \in Claimers : d # c => claimers'[d] = claimers[d]
<1>1. PICK o \in ClaimerRecs :
        /\ claimers' = [claimers EXCEPT ![c] = o]
        /\ IF o.pc = "idle" THEN o.run = 0 ELSE o.run \in DOMAIN runs
  BY DEF Moves
<1>2. claimers \in [Claimers -> ClaimerRecs]
  BY DEF TypeOK, ClaimerRecs
<1>3. claimers' \in [Claimers -> ClaimerRecs] /\ claimers'[c] = o
      /\ \A d \in Claimers : d # c => claimers'[d] = claimers[d]
  BY <1>1, <1>2
<1> QED BY <1>1, <1>3 DEF SameRows, TypeOK

\* What Goto and Rest do to the one claimer.
LEMMA Goes ==
  ASSUME TypeOK, NEW c \in Claimers, Busy(c), NEW pc \in PCs \ {"idle"}, Goto(c, pc)
  PROVE  /\ Moves(c) /\ claimers'[c].pc = pc
         /\ claimers'[c].run = claimers[c].run
         /\ claimers'[c].outcome = claimers[c].outcome
<1> DEFINE o == [claimers[c] EXCEPT !.pc = pc]
<1>1. claimers[c] \in ClaimerRecs /\ claimers[c].run \in DOMAIN runs
  BY DEF TypeOK, ClaimerRecs, Busy
<1>2. /\ o \in ClaimerRecs /\ o.pc = pc /\ o.run = claimers[c].run
      /\ o.outcome = claimers[c].outcome
  BY <1>1 DEF ClaimerRecs
<1>3. claimers' = [claimers EXCEPT ![c] = o]
  BY DEF Goto
<1> HIDE DEF o
<1> QED BY <1>1, <1>2, <1>3 DEF Moves, TypeOK

LEMMA Rests ==
  ASSUME TypeOK, NEW c \in Claimers, Rest(c)
  PROVE  Moves(c) /\ claimers'[c] = Idle
<1>1. Idle \in ClaimerRecs /\ Idle.pc = "idle" /\ Idle.run = 0
  BY DEF Idle, ClaimerRecs, PCs, Outcomes
<1> QED BY <1>1 DEF Moves, Rest, TypeOK

\* Taking a run of the table up.
LEMMA Takes ==
  ASSUME TypeOK, NEW c \in Claimers, NEW r \in DOMAIN runs,
         claimers' = [claimers EXCEPT ![c] = [pc |-> "claim", run |-> r, outcome |-> "done"]]
  PROVE  Moves(c) /\ claimers'[c].pc = "claim" /\ claimers'[c].run = r
<1> DEFINE o == [pc |-> "claim", run |-> r, outcome |-> "done"]
<1>1. r \in Nat
  BY DEF TypeOK
<1>2. o \in ClaimerRecs /\ o.pc = "claim" /\ o.run = r
  BY <1>1 DEF ClaimerRecs, PCs, Outcomes
<1>3. claimers' = [claimers EXCEPT ![c] = o]
  OBVIOUS
<1> HIDE DEF o
<1> QED BY <1>2, <1>3 DEF Moves, TypeOK

LEMMA Ends ==
  ASSUME TypeOK, NEW c \in Claimers, ExecutionEnds(c)
  PROVE  Moves(c) /\ claimers'[c].pc = "finish" /\ claimers'[c].run = claimers[c].run
<1>1. PICK w \in Outcomes :
        claimers' = [claimers EXCEPT ![c] = [@ EXCEPT !.pc = "finish", !.outcome = w]]
  BY DEF ExecutionEnds
<1> DEFINE o == [claimers[c] EXCEPT !.pc = "finish", !.outcome = w]
<1>2. claimers[c] \in ClaimerRecs /\ claimers[c].run \in DOMAIN runs
  BY DEF TypeOK, ClaimerRecs, ExecutionEnds
<1>3. o \in ClaimerRecs /\ o.pc = "finish" /\ o.run = claimers[c].run
  BY <1>2 DEF ClaimerRecs, PCs
<1>4. claimers' = [claimers EXCEPT ![c] = o]
  BY <1>1
<1> HIDE DEF o
<1> QED BY <1>2, <1>3, <1>4 DEF Moves, TypeOK

\* The part of TypeOK that concerns neither claimers nor runs.
LEMMA TypeByParts ==
  ASSUME TypeOK, SameRows,
         agents' \in [Agents -> {"new", "live", "gone"}], issues' \subseteq Issues,
         pinned' \subseteq DOMAIN runs, faults' \in Nat,
         told' \subseteq [run : DOMAIN runs, outcome : Outcomes],
         claimers' \in [Claimers -> ClaimerRecs],
         (\A d \in Claimers : IF claimers[d].pc = "idle" THEN claimers[d].run = 0
                                ELSE claimers[d].run \in DOMAIN runs)'
  PROVE  TypeOK'
<1>1. DOMAIN runs \subseteq DOMAIN runs'
  BY DEF SameRows
<1>2. pinned' \subseteq DOMAIN runs'
  BY <1>1
<1>3. told' \subseteq [run : DOMAIN runs', outcome : Outcomes]
  BY <1>1
<1>4. claimers' \in [Claimers -> [pc : PCs, run : Nat, outcome : Outcomes]]
  BY DEF ClaimerRecs
<1>5. runs' \in Seq(RunRows)
  BY DEF SameRows
<1> QED BY <1>2, <1>3, <1>4, <1>5 DEF TypeOK

------------------------------------------------------------------------------
(* Steps around the queue: agents, issues, new runs.                       *)

\* Deletions mark runs that nobody is about to start.
LEMMA DeletionStep ==
  ASSUME IInv, NEW dead \in SUBSET (DOMAIN runs), Cascade(dead),
         \A r \in dead : ~Locked(r), UNCHANGED <<claimers, told>>
  PROVE  /\ SameRows /\ DOMAIN runs' = DOMAIN runs
         /\ Holding' /\ Apart' /\ OldestHeld' /\ InOrder' /\ ToldTruly'
<1>1. /\ SameRows /\ DOMAIN runs' = DOMAIN runs
      /\ \A q \in DOMAIN runs : IF q \in dead THEN runs'[q].status = "gone"
                                              ELSE runs'[q] = runs[q]
  BY Cascades DEF IInv, TypeOK
<1>2. Holding'
  <2> SUFFICES ASSUME NEW c \in Claimers, Busy(c)
               PROVE  /\ runs'[claimers[c].run].status \in HeldStatus(c)
                      /\ Eligible(c, claimers[c].run)'
    BY DEF Holding, HeldStatus, Busy
  <2>1. claimers[c].run \in DOMAIN runs /\ claimers[c].pc \in PCs
    BY DEF IInv, TypeOK, Busy
  <2>2. runs[claimers[c].run].status \in HeldStatus(c) /\ Eligible(c, claimers[c].run)
    BY DEF IInv, Holding
  <2>3. Eligible(c, claimers[c].run)'
    BY <1>1, <2>1, <2>2 DEF Eligible, SameRows
  <2>4. CASE claimers[c].run \in dead
    <3>1. claimers[c].pc # "claim"
      BY <2>4 DEF Locked
    <3> QED BY <1>1, <2>1, <2>3, <2>4, <3>1 DEF HeldStatus, PCs, Busy
  <2>5. CASE claimers[c].run \notin dead
    BY <1>1, <2>1, <2>2, <2>3, <2>5
  <2> QED BY <2>4, <2>5
<1>3. Apart'
  BY DEF IInv, Apart, Busy
<1>4. OldestHeld'
  <2> SUFFICES ASSUME NEW c \in Claimers, NEW q \in DOMAIN runs,
                      claimers[c].pc = "claim", q < claimers[c].run,
                      runs'[q].agent = runs'[claimers[c].run].agent,
                      Orderly(runs'[q].agent)
               PROVE  runs'[q].status # "queued"
    BY <1>1 DEF OldestHeld, Queued, Orderly
  <2>1. claimers[c].run \in DOMAIN runs
    BY DEF IInv, TypeOK
  <2>2. ~Queued(q)
    BY <1>1, <2>1 DEF IInv, OldestHeld, SameRows
  <2> QED BY <1>1, <2>2 DEF Queued
<1>5. InOrder'
  BY <1>1 DEF IInv, InOrder, SameRows, Queued, Orderly
<1>6. ToldTruly'
  BY <1>1 DEF IInv, ToldTruly, TypeOK
<1> QED BY <1>1, <1>2, <1>3, <1>4, <1>5, <1>6

LEMMA RegisterAgentStep ==
  ASSUME IInv, NEW a \in Agents, RegisterAgent(a)
  PROVE  IInv'
<1>1. TypeOK'
  BY DEF IInv, TypeOK, RegisterAgent
<1>2. UNCHANGED <<runs, claimers, told>>
  BY DEF RegisterAgent
<1> QED
  BY <1>1, <1>2 DEF IInv, Holding, HeldStatus, Busy, Eligible, Apart, OldestHeld, InOrder,
                    Orderly, Queued, ToldTruly

LEMMA DeleteAgentStep ==
  ASSUME IInv, NEW a \in Agents, DeleteAgent(a)
  PROVE  IInv'
<1> DEFINE its == {r \in DOMAIN runs : runs[r].agent = a /\ runs[r].status # "gone"}
<1>1. /\ Cascade(its) /\ (\A r \in its : ~Locked(r))
      /\ agents' = [agents EXCEPT ![a] = "gone"]
      /\ UNCHANGED <<issues, pinned, claimers, told, faults>>
  BY DEF DeleteAgent
<1>2. its \in SUBSET (DOMAIN runs)
  OBVIOUS
<1> HIDE DEF its
<1>3. /\ SameRows /\ DOMAIN runs' = DOMAIN runs
      /\ Holding' /\ Apart' /\ OldestHeld' /\ InOrder' /\ ToldTruly'
  BY <1>1, <1>2, DeletionStep
<1>4. TypeOK'
  BY <1>1, <1>3 DEF IInv, TypeOK, SameRows
<1> QED BY <1>3, <1>4 DEF IInv

LEMMA DeleteIssueStep ==
  ASSUME IInv, NEW i \in Issues, DeleteIssue(i)
  PROVE  IInv'
<1> DEFINE its == {r \in DOMAIN runs : runs[r].issue = i}
<1>1. /\ Cascade(its) /\ (\A r \in its : ~Locked(r))
      /\ issues' = issues \ {i} /\ pinned' = pinned \ its
      /\ UNCHANGED <<agents, claimers, told, faults>>
  BY DEF DeleteIssue
<1>2. its \in SUBSET (DOMAIN runs)
  OBVIOUS
<1> HIDE DEF its
<1>3. /\ SameRows /\ DOMAIN runs' = DOMAIN runs
      /\ Holding' /\ Apart' /\ OldestHeld' /\ InOrder' /\ ToldTruly'
  BY <1>1, <1>2, DeletionStep
<1>4. TypeOK'
  BY <1>1, <1>3 DEF IInv, TypeOK, SameRows
<1> QED BY <1>3, <1>4 DEF IInv

\* A new run is younger than all others and nobody holds it.
LEMMA EnqueueStep ==
  ASSUME IInv, NEW a \in Agents, NEW i \in Issues, Enqueue(a, i)
  PROVE  IInv'
<1>1. /\ runs' = Append(runs, [agent |-> a, issue |-> i, status |-> "queued"])
      /\ UNCHANGED <<agents, issues, pinned, claimers, told, faults>>
  BY DEF Enqueue
<1>2. /\ SameRows
      /\ \A q \in DOMAIN runs' \ DOMAIN runs : q = Len(runs) + 1
      /\ \A q \in DOMAIN runs : runs'[q] = runs[q]
      /\ runs'[Len(runs) + 1].status = "queued"
  BY <1>1, RunAdded DEF IInv, TypeOK
<1>3. Len(runs) \in Nat /\ DOMAIN runs = 1..Len(runs)
  BY DEF IInv, TypeOK
<1>4. \A c \in Claimers : Busy(c) => claimers[c].run \in DOMAIN runs
  BY DEF IInv, TypeOK, Busy
<1>5. TypeOK'
  BY <1>1, <1>2, TypeByParts DEF IInv, TypeOK, ClaimerRecs, SameRows
<1>6. Holding'
  BY <1>1, <1>2, <1>4 DEF IInv, Holding, HeldStatus, Busy, Eligible
<1>7. Apart'
  BY <1>1 DEF IInv, Apart, Busy
<1>8. OldestHeld'
  <2> SUFFICES ASSUME NEW c \in Claimers, NEW q \in DOMAIN runs',
                      claimers[c].pc = "claim", q < claimers[c].run,
                      runs'[q].agent = runs'[claimers[c].run].agent,
                      Orderly(runs'[q].agent)
               PROVE  runs'[q].status # "queued"
    BY <1>1 DEF OldestHeld, Queued, Orderly
  <2>1. claimers[c].run \in DOMAIN runs
    BY <1>4 DEF Busy
  <2>2. q \in DOMAIN runs
    BY <1>2, <1>3, <2>1
  <2> QED BY <1>2, <2>1, <2>2 DEF IInv, OldestHeld, Queued
<1>9. InOrder'
  <2> SUFFICES ASSUME NEW q \in DOMAIN runs', NEW r \in DOMAIN runs',
                      q < r, runs'[q].status = "queued", runs'[q].agent = runs'[r].agent,
                      Orderly(runs'[r].agent)
               PROVE  runs'[r].status \in {"queued", "gone"}
    BY DEF InOrder, Queued, Orderly
  <2>1. CASE r \in DOMAIN runs
    <3>1. q \in DOMAIN runs
      BY <1>2, <1>3, <2>1
    <3> QED BY <1>2, <2>1, <3>1 DEF IInv, InOrder, Queued
  <2>2. CASE r \notin DOMAIN runs
    BY <1>2, <2>2
  <2> QED BY <2>1, <2>2
<1>10. ToldTruly'
  BY <1>1, <1>2 DEF IInv, TypeOK, ToldTruly
<1> QED BY <1>5, <1>6, <1>7, <1>8, <1>9, <1>10 DEF IInv

------------------------------------------------------------------------------
(* Steps of a claimer.                                                     *)

\* No queued run of the same agent, if its runs are started in order, is older.
FirstOfAgent(r) ==
  Orderly(runs[r].agent) =>
    \A q \in DOMAIN runs : q < r /\ runs[q].agent = runs[r].agent => ~Queued(q)

\* A claimer that touches one run only, which no other claimer holds: a run is
\* started only when it is the first of its agent, and held only as it is.
LEMMA ClaimerStep ==
  ASSUME IInv, NEW c \in Claimers, Moves(c), NEW r \in DOMAIN runs,
         SameRows, DOMAIN runs' = DOMAIN runs,
         \A q \in DOMAIN runs : q # r => runs'[q] = runs[q],
         \A d \in Claimers : d # c /\ Busy(d) => claimers[d].run # r,
         Queued(r)' => Queued(r),
         runs'[r].status \notin {"queued", "gone"}
           => runs[r].status \notin {"queued", "gone"} \/ FirstOfAgent(r),
         Busy(c)' => /\ claimers'[c].run = r
                     /\ runs'[r].status \in HeldStatus(c)'
                     /\ Eligible(c, r),
         claimers'[c].pc = "claim" => FirstOfAgent(r)
  PROVE  Holding' /\ Apart' /\ OldestHeld' /\ InOrder'
<1>1. \A d \in Claimers : d # c => claimers'[d] = claimers[d]
  BY Moved DEF IInv
<1>2. \A d \in Claimers : Busy(d) => claimers[d].run \in DOMAIN runs
  BY DEF IInv, TypeOK, Busy
<1>3. \A q \in DOMAIN runs : Queued(q)' => Queued(q)
  BY DEF Queued
<1>4. Holding'
  <2> SUFFICES ASSUME NEW d \in Claimers, Busy(d)'
               PROVE  /\ runs'[claimers'[d].run].status \in HeldStatus(d)'
                      /\ Eligible(d, claimers[d].run)'
    BY DEF Holding
  <2>1. CASE d = c
    BY <2>1 DEF Eligible, SameRows
  <2>2. CASE d # c
    <3>1. claimers'[d] = claimers[d] /\ Busy(d)
      BY <1>1, <2>2 DEF Busy
    <3>2. claimers[d].run \in DOMAIN runs /\ claimers[d].run # r
      BY <1>2, <2>2, <3>1
    <3>3. runs'[claimers[d].run] = runs[claimers[d].run]
      BY <3>2
    <3>4. runs[claimers[d].run].status \in HeldStatus(d) /\ Eligible(d, claimers[d].run)
      BY <3>1 DEF IInv, Holding
    <3> QED BY <3>1, <3>2, <3>3, <3>4 DEF HeldStatus, Eligible
  <2> QED BY <2>1, <2>2
<1>5. Apart'
  BY <1>1 DEF IInv, Apart, Busy
<1>6. OldestHeld'
  <2> SUFFICES ASSUME NEW d \in Claimers, NEW q \in DOMAIN runs,
                      claimers'[d].pc = "claim", q < claimers'[d].run,
                      runs'[q].agent = runs'[claimers'[d].run].agent,
                      Orderly(runs'[q].agent)
               PROVE  ~Queued(q)'
    BY DEF OldestHeld, Orderly
  <2>1. CASE d = c
    <3>1. claimers'[c].run = r /\ FirstOfAgent(r)
      BY <2>1 DEF Busy
    <3>2. runs[q].agent = runs[r].agent /\ Orderly(runs[r].agent)
      BY <2>1, <3>1 DEF SameRows
    <3> QED BY <1>3, <2>1, <3>1, <3>2 DEF FirstOfAgent
  <2>2. CASE d # c
    <3>1. claimers'[d] = claimers[d] /\ claimers[d].run \in DOMAIN runs
      BY <1>1, <1>2, <2>2 DEF Busy
    <3>2. runs[q].agent = runs[claimers[d].run].agent /\ Orderly(runs[q].agent)
      BY <3>1 DEF SameRows
    <3> QED BY <1>3, <3>1, <3>2 DEF IInv, OldestHeld
  <2> QED BY <2>1, <2>2
<1>7. InOrder'
  <2> SUFFICES ASSUME NEW q \in DOMAIN runs, NEW s \in DOMAIN runs,
                      q < s, Queued(q)', runs'[q].agent = runs'[s].agent,
                      Orderly(runs'[s].agent)
               PROVE  runs'[s].status \in {"queued", "gone"}
    BY DEF InOrder, Orderly
  <2>1. Queued(q) /\ runs[q].agent = runs[s].agent /\ Orderly(runs[s].agent)
    BY <1>3 DEF SameRows
  <2>2. runs[s].status \in {"queued", "gone"}
    BY <2>1 DEF IInv, InOrder
  <2>3. s = r => ~FirstOfAgent(r)
    BY <2>1 DEF FirstOfAgent
  <2> QED BY <2>2, <2>3
<1> QED BY <1>4, <1>5, <1>6, <1>7

\* The rest of the invariant when only one run, one claimer and the failures
\* change.
LEMMA ClaimerTypes ==
  ASSUME IInv, NEW c \in Claimers, Moves(c), SameRows, UNCHANGED <<agents, issues, pinned>>,
         faults' \in Nat, told' \subseteq [run : DOMAIN runs, outcome : Outcomes]
  PROVE  TypeOK'
BY Moved, TypeByParts DEF IInv, TypeOK

LEMMA FaultCounts == ASSUME TypeOK, Fault PROVE faults' \in Nat
BY DEF TypeOK, Fault

\* What a busy claimer knows of its run.
LEMMA Held ==
  ASSUME IInv, NEW c \in Claimers, Busy(c)
  PROVE  /\ claimers[c].run \in DOMAIN runs
         /\ runs[claimers[c].run].status \in HeldStatus(c)
         /\ Eligible(c, claimers[c].run)
         /\ \A d \in Claimers : d # c /\ Busy(d) => claimers[d].run # claimers[c].run
         /\ claimers[c].pc = "claim" => FirstOfAgent(claimers[c].run)
BY DEF IInv, TypeOK, Holding, Apart, OldestHeld, FirstOfAgent, Busy

\* Locking picks the first run of an agent that is served in order.
LEMMA LockOldestStep ==
  ASSUME IInv, NEW c \in Claimers, LockOldest(c)
  PROVE  IInv'
<1>1. PICK r \in Claimable(c) :
        /\ \A q \in Claimable(c) : r <= q
        /\ claimers' = [claimers EXCEPT ![c] = [pc |-> "claim", run |-> r, outcome |-> "done"]]
  BY DEF LockOldest
<1>2. /\ claimers[c] = Idle
      /\ UNCHANGED <<agents, issues, runs, pinned, told, faults>>
  BY DEF LockOldest
<1>3. /\ r \in DOMAIN runs /\ Queued(r) /\ Eligible(c, r) /\ ~Locked(r)
      /\ c \in Servers => ~AgentLocked(runs[r].agent)
  BY DEF Claimable
<1>4. Moves(c) /\ claimers'[c].pc = "claim" /\ claimers'[c].run = r
  BY <1>1, <1>3, Takes DEF IInv
<1>5. SameRows /\ DOMAIN runs' = DOMAIN runs
  BY <1>2 DEF IInv, TypeOK, SameRows
<1>6. \A d \in Claimers : d # c /\ Busy(d) => claimers[d].run # r
  <2> SUFFICES ASSUME NEW d \in Claimers, Busy(d), claimers[d].run = r
               PROVE  FALSE
    OBVIOUS
  <2>1. runs[r].status \in HeldStatus(d) /\ claimers[d].pc \in PCs
    BY DEF IInv, Holding, TypeOK
  <2>2. claimers[d].pc # "claim" /\ runs[r].status = "queued"
    BY <1>3 DEF Locked, Queued
  <2>3. claimers[d].outcome \in Outcomes
    BY DEF IInv, TypeOK
  <2> QED BY <2>1, <2>2, <2>3 DEF HeldStatus, PCs, Busy, Outcomes
<1>7. FirstOfAgent(r)
  <2> SUFFICES ASSUME NEW q \in DOMAIN runs, Orderly(runs[r].agent),
                      q < r, runs[q].agent = runs[r].agent, Queued(q)
               PROVE  FALSE
    BY DEF FirstOfAgent
  <2>1. Eligible(c, q)
    BY <1>3 DEF Eligible
  <2>2. q \notin Claimable(c)
    BY <1>1, <1>3 DEF IInv, TypeOK
  <2>3. PICK d \in Claimers : claimers[d].pc = "claim" /\ claimers[d].run = q
    BY <1>3, <2>1, <2>2 DEF Claimable, Locked
  <2>4. Eligible(d, q) /\ d # c
    BY <1>2, <2>3 DEF IInv, Holding, Busy, Idle
  <2>5. CASE c \in Servers
    <3>1. d \notin Servers
      BY <1>3, <2>3, <2>5 DEF AgentLocked
    <3> QED BY <2>1, <2>4, <2>5, <3>1 DEF Eligible, Local, Claimers
  <2>6. CASE c \notin Servers
    BY <2>1, <2>4, <2>6 DEF Eligible, Local, Claimers, Orderly
  <2> QED BY <2>5, <2>6
<1>8. Holding' /\ Apart' /\ OldestHeld' /\ InOrder'
  <2>1. runs'[r].status \in HeldStatus(c)'
    BY <1>2, <1>3, <1>4 DEF HeldStatus, Queued
  <2> QED BY <1>2, <1>3, <1>4, <1>5, <1>6, <1>7, <2>1, ClaimerStep DEF Queued
<1>9. TypeOK'
  BY <1>2, <1>4, <1>5, ClaimerTypes DEF IInv, TypeOK
<1>10. ToldTruly'
  BY <1>2 DEF IInv, ToldTruly
<1> QED BY <1>8, <1>9, <1>10 DEF IInv

\* Claiming turns the queued run that is held into a running one.
LEMMA StartStep ==
  ASSUME IInv, NEW c \in Claimers, claimers[c].pc = "claim", Moves(c),
         SetStatus(claimers[c].run, "running"),
         UNCHANGED <<agents, issues, pinned, told>>, faults' \in Nat,
         Busy(c)' => /\ claimers'[c].run = claimers[c].run
                     /\ claimers'[c].pc = "execute"
  PROVE  IInv'
<1> DEFINE r == claimers[c].run
<1>1. /\ r \in DOMAIN runs /\ runs[r].status = "queued" /\ Eligible(c, r) /\ FirstOfAgent(r)
      /\ \A d \in Claimers : d # c /\ Busy(d) => claimers[d].run # r
  BY Held DEF HeldStatus, Busy
<1>2. /\ SameRows /\ DOMAIN runs' = DOMAIN runs /\ runs'[r].status = "running"
      /\ \A q \in DOMAIN runs : q # r => runs'[q] = runs[q]
  BY <1>1, StatusChanges DEF IInv, TypeOK, RunStatuses
<1>3. Busy(c)' => runs'[r].status \in HeldStatus(c)'
  BY <1>2 DEF HeldStatus
<1>4. claimers'[c].pc # "claim"
  BY DEF Busy
<1> HIDE DEF r
<1>5. Holding' /\ Apart' /\ OldestHeld' /\ InOrder'
  BY <1>1, <1>2, <1>3, <1>4, ClaimerStep DEF Queued, r
<1>6. TypeOK'
  BY <1>2, ClaimerTypes DEF IInv, TypeOK
<1>7. ToldTruly'
  BY <1>1, <1>2 DEF IInv, TypeOK, ToldTruly, Outcomes
<1> QED BY <1>5, <1>6, <1>7 DEF IInv

\* A busy claimer goes on, or stops, and the tables stay.
LEMMA QuietStep ==
  ASSUME IInv, NEW c \in Claimers, Busy(c), Moves(c),
         UNCHANGED <<agents, issues, runs, pinned>>, faults' \in Nat,
         told' \subseteq [run : DOMAIN runs, outcome : Outcomes], ToldTruly',
         Busy(c)' => /\ claimers'[c].run = claimers[c].run
                     /\ runs[claimers[c].run].status \in HeldStatus(c)'
                     /\ claimers'[c].pc # "claim"
  PROVE  IInv'
<1> DEFINE r == claimers[c].run
<1>1. /\ r \in DOMAIN runs /\ Eligible(c, r)
      /\ \A d \in Claimers : d # c /\ Busy(d) => claimers[d].run # r
  BY Held
<1>2. SameRows /\ DOMAIN runs' = DOMAIN runs
  BY DEF IInv, TypeOK, SameRows
<1>3. Busy(c)' => runs'[r].status \in HeldStatus(c)'
  OBVIOUS
<1>4. claimers'[c].pc # "claim"
  BY DEF Busy
<1> HIDE DEF r
<1>5. Holding' /\ Apart' /\ OldestHeld' /\ InOrder'
  BY <1>1, <1>2, <1>3, <1>4, ClaimerStep DEF Queued, r
<1>6. TypeOK'
  BY <1>2, ClaimerTypes
<1> QED BY <1>5, <1>6 DEF IInv

\* A claimer that rests knows nothing any more.
LEMMA RestStep ==
  ASSUME IInv, NEW c \in Claimers, Busy(c), Rest(c), faults' \in Nat,
         UNCHANGED <<agents, issues, runs, pinned, told>>
  PROVE  IInv'
<1>1. Moves(c) /\ ~Busy(c)'
  BY Rests DEF IInv, Idle, Busy
<1>2. ToldTruly' /\ told' \subseteq [run : DOMAIN runs, outcome : Outcomes]
  BY DEF IInv, TypeOK, ToldTruly
<1> QED BY <1>1, <1>2, QuietStep

LEMMA CommitClaimStep ==
  ASSUME IInv, NEW c \in Claimers, CommitClaim(c)
  PROVE  IInv'
<1>1. /\ claimers[c].pc = "claim" /\ SetStatus(claimers[c].run, "running") /\ Goto(c, "execute")
      /\ UNCHANGED <<agents, issues, pinned, told, faults>>
  BY DEF CommitClaim
<1>2. Moves(c) /\ claimers'[c].pc = "execute" /\ claimers'[c].run = claimers[c].run
  BY <1>1, Goes DEF IInv, PCs, Busy
<1>3. faults' \in Nat
  BY <1>1 DEF IInv, TypeOK
<1> QED BY <1>1, <1>2, <1>3, StartStep

LEMMA ClaimFailsStep ==
  ASSUME IInv, NEW c \in Claimers, ClaimFails(c)
  PROVE  IInv'
<1>1. /\ claimers[c].pc = "claim" /\ Rest(c) /\ Fault
      /\ UNCHANGED <<agents, issues, pinned, told>>
  BY DEF ClaimFails
<1>2. Moves(c) /\ ~Busy(c)' /\ faults' \in Nat
  BY <1>1, Rests, FaultCounts DEF IInv, Idle, Busy
<1>3. CASE UNCHANGED runs
  BY <1>1, <1>2, <1>3, RestStep DEF Busy
<1>4. CASE SetStatus(claimers[c].run, "running")
  BY <1>1, <1>2, <1>4, StartStep
<1> QED BY <1>3, <1>4 DEF ClaimFails

LEMMA PinRunStep ==
  ASSUME IInv, NEW c \in Claimers, PinRun(c)
  PROVE  IInv'
<1>1. /\ claimers[c].pc = "execute" /\ pinned' = pinned \union {claimers[c].run}
      /\ UNCHANGED <<agents, issues, runs, claimers, told, faults>>
  BY DEF PinRun
<1>2. claimers[c].run \in DOMAIN runs
  BY <1>1 DEF IInv, TypeOK
<1>3. TypeOK'
  BY <1>1, <1>2 DEF IInv, TypeOK
<1> QED
  BY <1>1, <1>3 DEF IInv, Holding, HeldStatus, Busy, Eligible, Apart, OldestHeld, InOrder,
                    Orderly, Queued, ToldTruly

LEMMA ExecutionEndsStep ==
  ASSUME IInv, NEW c \in Claimers, ExecutionEnds(c)
  PROVE  IInv'
<1>1. /\ claimers[c].pc = "execute"
      /\ UNCHANGED <<agents, issues, runs, pinned, told, faults>>
  BY DEF ExecutionEnds
<1>2. Moves(c) /\ claimers'[c].pc = "finish" /\ claimers'[c].run = claimers[c].run
  BY Ends DEF IInv
<1>3. runs[claimers[c].run].status \in {"running", "gone"}
  BY <1>1, Held DEF HeldStatus, Busy
<1>4. runs[claimers[c].run].status \in HeldStatus(c)'
  BY <1>2, <1>3 DEF HeldStatus
<1>5. /\ ToldTruly' /\ told' \subseteq [run : DOMAIN runs, outcome : Outcomes]
      /\ faults' \in Nat
  BY <1>1 DEF IInv, TypeOK, ToldTruly
<1> QED BY <1>1, <1>2, <1>4, <1>5, QuietStep DEF Busy

LEMMA FinishRunStep ==
  ASSUME IInv, NEW c \in Claimers, FinishRun(c)
  PROVE  IInv'
<1> DEFINE r == claimers[c].run
           o == claimers[c].outcome
<1>1. /\ claimers[c].pc = "finish"
      /\ UNCHANGED <<agents, issues, pinned, told, faults>>
  BY DEF FinishRun
<1>2. faults' \in Nat /\ o \in Outcomes
  BY <1>1 DEF IInv, TypeOK
<1>3. CASE runs[r].status # "running"
  BY <1>1, <1>2, <1>3, RestStep DEF FinishRun, Busy
<1>4. CASE runs[r].status = "running"
  <2>1. SetStatus(r, o)
    BY <1>4 DEF FinishRun
  <2>2. /\ r \in DOMAIN runs /\ Eligible(c, r)
        /\ \A d \in Claimers : d # c /\ Busy(d) => claimers[d].run # r
    BY <1>1, Held DEF Busy
  <2>3. /\ SameRows /\ DOMAIN runs' = DOMAIN runs /\ runs'[r].status = o
        /\ \A q \in DOMAIN runs : q # r => runs'[q] = runs[q]
    BY <1>2, <2>1, <2>2, StatusChanges DEF IInv, TypeOK, RunStatuses, Outcomes
  <2>4. /\ Moves(c) /\ claimers'[c].pc # "claim"
        /\ Busy(c)' => /\ claimers'[c].run = r /\ claimers'[c].outcome = o
                       /\ claimers'[c].pc = "tell"
    <3>1. CASE c \in Servers
      <4>1. Goto(c, "tell")
        BY <1>4, <3>1 DEF FinishRun
      <4> QED BY <1>1, <4>1, Goes DEF IInv, PCs, Busy
    <3>2. CASE c \notin Servers
      <4>1. Rest(c)
        BY <1>4, <3>2 DEF FinishRun
      <4> QED BY <4>1, Rests DEF IInv, Idle, Busy
    <3> QED BY <3>1, <3>2
  <2>5. Busy(c)' => runs'[r].status \in HeldStatus(c)'
    BY <2>3, <2>4 DEF HeldStatus
  <2>6. runs'[r].status # "queued"
    BY <1>2, <2>3 DEF Outcomes
  <2>7. runs[r].status \notin {"queued", "gone"}
    BY <1>4
  <2> HIDE DEF r, o
  <2>8. Holding' /\ Apart' /\ OldestHeld' /\ InOrder'
    BY <2>2, <2>3, <2>4, <2>5, <2>6, <2>7, ClaimerStep DEF Queued, r
  <2>9. TypeOK'
    BY <1>1, <1>2, <2>3, <2>4, ClaimerTypes DEF IInv, TypeOK
  <2>10. ToldTruly'
    BY <1>1, <1>4, <2>3 DEF IInv, TypeOK, ToldTruly, Outcomes
  <2> QED BY <2>8, <2>9, <2>10 DEF IInv
<1> QED BY <1>3, <1>4

LEMMA TellAssigneeStep ==
  ASSUME IInv, NEW c \in Claimers, TellAssignee(c)
  PROVE  IInv'
<1> DEFINE t == [run |-> claimers[c].run, outcome |-> claimers[c].outcome]
<1>1. /\ claimers[c].pc = "tell" /\ Rest(c)
      /\ told' = told \/ told' = told \union {t}
      /\ UNCHANGED <<agents, issues, runs, pinned, faults>>
  BY DEF TellAssignee
<1>2. /\ claimers[c].run \in DOMAIN runs /\ claimers[c].outcome \in Outcomes
      /\ runs[claimers[c].run].status \in {claimers[c].outcome, "gone"}
  BY <1>1, Held DEF HeldStatus, Busy, IInv, TypeOK
<1>3. /\ t \in [run : DOMAIN runs, outcome : Outcomes]
      /\ runs[t.run].status \in {t.outcome, "gone"}
  BY <1>2
<1> HIDE DEF t
<1>4. told' \subseteq [run : DOMAIN runs, outcome : Outcomes] /\ ToldTruly' /\ faults' \in Nat
  BY <1>1, <1>3 DEF IInv, TypeOK, ToldTruly
<1>5. Moves(c) /\ ~Busy(c)'
  BY <1>1, Rests DEF IInv, Idle, Busy
<1> QED BY <1>1, <1>4, <1>5, QuietStep DEF Busy

LEMMA StopStep ==
  ASSUME IInv, NEW c \in Claimers, Stop(c)
  PROVE  IInv'
<1>1. faults' \in Nat
  BY FaultCounts DEF IInv, Stop
<1> QED BY <1>1, RestStep DEF Stop, Busy

------------------------------------------------------------------------------
(* The theorems.                                                           *)

LEMMA InitOK == Init => IInv
<1> SUFFICES ASSUME Init PROVE IInv
  OBVIOUS
<1>1. runs \in Seq(RunRows) /\ DOMAIN runs = {}
  BY DEF Init
<1>2. \A c \in Claimers : claimers[c] = Idle
  BY DEF Init
<1>3. TypeOK
  BY <1>1, <1>2 DEF Init, TypeOK, Idle, PCs, Outcomes
<1> QED
  BY <1>1, <1>2, <1>3 DEF Init, IInv, Holding, Busy, Idle, Apart, OldestHeld, InOrder, ToldTruly

LEMMA NextOK == IInv /\ [Next]_vars => IInv'
<1> SUFFICES ASSUME IInv, [Next]_vars PROVE IInv'
  OBVIOUS
<1>1. CASE \E a \in Agents : RegisterAgent(a) \/ DeleteAgent(a)
  BY <1>1, RegisterAgentStep, DeleteAgentStep
<1>2. CASE \E i \in Issues : DeleteIssue(i)
  BY <1>2, DeleteIssueStep
<1>3. CASE \E a \in Agents, i \in Issues : Enqueue(a, i)
  BY <1>3, EnqueueStep
<1>4. CASE \E c \in Claimers : Step(c)
  BY <1>4, LockOldestStep, CommitClaimStep, ExecutionEndsStep, FinishRunStep, TellAssigneeStep
     DEF Step
<1>5. CASE \E c \in Claimers : PinRun(c) \/ ClaimFails(c) \/ Stop(c)
  BY <1>5, PinRunStep, ClaimFailsStep, StopStep
<1>6. CASE UNCHANGED vars
  <2>1. UNCHANGED <<agents, issues, runs, pinned, claimers, told, faults>>
    BY <1>6 DEF vars
  <2>2. TypeOK'
    BY <2>1 DEF IInv, TypeOK
  <2> QED
    BY <2>1, <2>2 DEF IInv, Holding, HeldStatus, Busy, Eligible, Apart, OldestHeld, InOrder,
                      Orderly, Queued, ToldTruly
<1> QED BY <1>1, <1>2, <1>3, <1>4, <1>5, <1>6 DEF Next

\* All that claimers rely on holds in every reachable state.
THEOREM QueueInvariance == Spec => []IInv
BY InitOK, NextOK, PTL DEF Spec

\* Tables and claimers keep their shape (agents, runs, claimers).
THEOREM QueueTypeCorrect == Spec => []TypeOK
<1>1. IInv => TypeOK
  BY DEF IInv
<1> QED BY <1>1, QueueInvariance, PTL

\* A run is worked on by one process at most, server or local runtime, and as
\* long as it exists it is marked running meanwhile.
THEOREM OneRuntimePerRun == Spec => []Exclusive
<1>1. IInv => Exclusive
  <2> SUFFICES ASSUME IInv, NEW c \in Claimers, claimers[c].pc \in {"execute", "finish"}
               PROVE  /\ runs[claimers[c].run].status \in {"running", "gone"}
                      /\ \A d \in Claimers \ {c} : claimers[d].run # claimers[c].run
    BY DEF Exclusive
  <2>1. Busy(c)
    BY DEF Busy
  <2>2. runs[claimers[c].run].status \in {"running", "gone"} /\ claimers[c].run \in DOMAIN runs
    BY <2>1, Held DEF HeldStatus
  <2>3. \A d \in Claimers : ~Busy(d) => claimers[d].run = 0
    BY DEF IInv, TypeOK, Busy
  <2>4. claimers[c].run # 0
    BY <2>2 DEF IInv, TypeOK
  <2> QED BY <2>1, <2>2, <2>3, <2>4, Held
<1> QED BY <1>1, QueueInvariance, PTL

\* The runs of an agent start in the order they were queued, whatever the
\* number of servers that claim them.
THEOREM StartedInOrder == Spec => []InOrder
<1>1. IInv => InOrder
  BY DEF IInv
<1> QED BY <1>1, QueueInvariance, PTL

\* Notifications of finished runs tell the outcome on record.
THEOREM EndsToldTruly == Spec => []ToldTruly
<1>1. IInv => ToldTruly
  BY DEF IInv
<1> QED BY <1>1, QueueInvariance, PTL

------------------------------------------------------------------------------
(* The queue implements QueuePromise.  Of the steps, a claim that succeeds *)
(* starts a run in its turn (OldestHeld), and a notice is the first of its *)
(* run, because whoever is busy with a run has not told of it (Untold).    *)

Untold ==
  \A c \in Claimers, t \in told : Busy(c) => t.run # claimers[c].run

\* A step that tells nobody and in which no claimer takes up a run.
TakesNothing ==
  /\ UNCHANGED told
  /\ \A d \in Claimers : Busy(d)' => Busy(d) /\ claimers'[d].run = claimers[d].run

LEMMA ClaimersKeep ==
  ASSUME IInv, NEW c \in Claimers, Step(c) \/ PinRun(c) \/ ClaimFails(c) \/ Stop(c),
         ~LockOldest(c), ~TellAssignee(c)
  PROVE  TakesNothing
<1>1. \A o : claimers' = [claimers EXCEPT ![c] = o] =>
        claimers'[c] = o /\ \A d \in Claimers : d # c => claimers'[d] = claimers[d]
  BY DEF IInv, TypeOK
<1>2. claimers[c] \in [pc : PCs, run : Nat, outcome : Outcomes]
  BY DEF IInv, TypeOK
<1>3. ASSUME Rest(c), UNCHANGED told PROVE TakesNothing
  BY <1>1, <1>3 DEF Rest, TakesNothing, Busy, Idle
<1>4. ASSUME Busy(c), NEW pc \in PCs, Goto(c, pc), UNCHANGED told PROVE TakesNothing
  BY <1>1, <1>2, <1>4 DEF Goto, TakesNothing, Busy
<1>5. CASE CommitClaim(c)
  BY <1>4, <1>5 DEF CommitClaim, Busy, PCs
<1>6. CASE ExecutionEnds(c)
  <2>1. claimers'[c].run = claimers[c].run
    BY <1>6, Ends DEF IInv
  <2>2. \A d \in Claimers : d # c => claimers'[d] = claimers[d]
    BY <1>1, <1>6 DEF ExecutionEnds
  <2> QED BY <1>6, <2>1, <2>2 DEF ExecutionEnds, TakesNothing, Busy
<1>7. CASE FinishRun(c)
  <2>1. Goto(c, "tell") \/ Rest(c)
    BY <1>7 DEF FinishRun
  <2> QED BY <1>3, <1>4, <1>7, <2>1 DEF FinishRun, Busy, PCs
<1>8. CASE PinRun(c)
  BY <1>8 DEF PinRun, TakesNothing, Busy
<1>9. CASE ClaimFails(c) \/ Stop(c)
  BY <1>3, <1>9 DEF ClaimFails, Stop
<1> QED BY <1>5, <1>6, <1>7, <1>8, <1>9 DEF Step

LEMMA UntoldNext ==
  ASSUME IInv, Untold, [Next]_vars
  PROVE  Untold'
<1>1. CASE TakesNothing
  BY <1>1 DEF Untold, TakesNothing
<1>2. ASSUME NEW c \in Claimers, LockOldest(c) PROVE Untold'
  <2>1. PICK r \in DOMAIN runs :
          /\ Queued(r)
          /\ claimers' = [claimers EXCEPT ![c] = [pc |-> "claim", run |-> r, outcome |-> "done"]]
    BY <1>2 DEF LockOldest, Claimable
  <2>2. /\ claimers'[c].run = r
        /\ \A d \in Claimers : d # c => claimers'[d] = claimers[d]
    BY <2>1 DEF IInv, TypeOK
  <2>3. \A t \in told : t.run # r
    BY <2>1 DEF IInv, TypeOK, ToldTruly, Queued, Outcomes
  <2> QED BY <1>2, <2>2, <2>3 DEF LockOldest, Untold, Busy
<1>3. ASSUME NEW c \in Claimers, TellAssignee(c) PROVE Untold'
  <2>1. claimers'[c] = Idle /\ \A d \in Claimers : d # c => claimers'[d] = claimers[d]
    BY <1>3 DEF TellAssignee, Rest, IInv, TypeOK
  <2>2. \A t \in told' : t \in told \/ t.run = claimers[c].run
    BY <1>3 DEF TellAssignee
  <2>3. \A d \in Claimers : d # c /\ Busy(d) => claimers[d].run # claimers[c].run
    BY <1>3, Held DEF TellAssignee, Busy
  <2> QED BY <2>1, <2>2, <2>3 DEF Untold, Busy, Idle
<1>4. CASE \E c \in Claimers : Step(c) \/ PinRun(c) \/ ClaimFails(c) \/ Stop(c)
  BY <1>1, <1>2, <1>3, <1>4, ClaimersKeep
<1>5. CASE UNCHANGED <<claimers, told>>
  BY <1>5 DEF Untold, Busy
<1> QED
  BY <1>4, <1>5 DEF Next, vars, RegisterAgent, DeleteAgent, DeleteIssue, Enqueue

\* A queued run that a claim holds is started in its turn.
LEMMA PromiseStart ==
  ASSUME IInv, NEW c \in Claimers, claimers[c].pc = "claim",
         SetStatus(claimers[c].run, "running"), UNCHANGED told
  PROVE  Promise!Next
<1> DEFINE r == claimers[c].run
<1>1. r \in DOMAIN runs /\ runs[r].status = "queued" /\ FirstOfAgent(r)
  BY Held DEF HeldStatus, Busy
<1>2. Promise!Start(r)
  BY <1>1 DEF Promise!Start, Promise!Mark, SetStatus, FirstOfAgent, Queued
<1> QED BY <1>1, <1>2 DEF Promise!Next

\* Marking as deleted what is deleted already changes nothing.
LEMMA PromiseDelete ==
  ASSUME IInv, NEW its \in SUBSET (DOMAIN runs),
         Cascade({r \in its : runs[r].status # "gone"}) \/ Cascade(its), UNCHANGED told
  PROVE  Promise!Delete(its)
<1>1. \A r \in DOMAIN runs : runs[r] \in RunRows
  BY DEF IInv, TypeOK
<1>2. \A r \in DOMAIN runs : runs[r].status = "gone" => [runs[r] EXCEPT !.status = "gone"] = runs[r]
  BY <1>1 DEF RunRows
<1> QED BY <1>2 DEF Cascade, Promise!Delete

LEMMA PromiseFinish ==
  ASSUME IInv, NEW c \in Claimers, FinishRun(c)
  PROVE  Promise!Next \/ UNCHANGED <<runs, told>>
<1> DEFINE r == claimers[c].run
           o == claimers[c].outcome
<1>1. r \in DOMAIN runs /\ o \in {"done", "failed"} /\ UNCHANGED told
  BY Held DEF FinishRun, Busy, IInv, TypeOK, Outcomes
<1>2. CASE runs[r].status = "running"
  <2>1. Promise!End(r, o)
    BY <1>1, <1>2 DEF FinishRun, SetStatus, Promise!End, Promise!Mark
  <2> QED BY <1>1, <2>1 DEF Promise!Next
<1>3. CASE runs[r].status # "running"
  BY <1>1, <1>3 DEF FinishRun
<1> QED BY <1>2, <1>3

LEMMA PromiseTell ==
  ASSUME IInv, Untold, NEW c \in Claimers, TellAssignee(c)
  PROVE  Promise!Next \/ UNCHANGED <<runs, told>>
<1> DEFINE r == claimers[c].run
           o == claimers[c].outcome
<1>1. /\ r \in DOMAIN runs /\ o \in {"done", "failed"} /\ UNCHANGED runs
      /\ runs[r].status \in {o, "gone"}
  BY Held DEF TellAssignee, Busy, IInv, TypeOK, Outcomes, HeldStatus
<1>2. \A t \in told : t.run # r
  BY DEF TellAssignee, Untold, Busy
<1>3. CASE told' = told \union {[run |-> r, outcome |-> o]}
  <2>1. Promise!Tell(r, o)
    BY <1>1, <1>2, <1>3 DEF Promise!Tell
  <2> QED BY <1>1, <2>1 DEF Promise!Next
<1> QED BY <1>1, <1>3 DEF TellAssignee

LEMMA PromiseStep ==
  ASSUME IInv, Untold, [Next]_vars
  PROVE  Promise!Next \/ UNCHANGED <<runs, told>>
<1>1. ASSUME NEW a \in Agents, DeleteAgent(a) PROVE Promise!Next
  <2> DEFINE its == {r \in DOMAIN runs : runs[r].agent = a}
  <2>1. {r \in its : runs[r].status # "gone"}
          = {r \in DOMAIN runs : runs[r].agent = a /\ runs[r].status # "gone"}
    OBVIOUS
  <2>2. Promise!Delete(its)
    BY <1>1, <2>1, PromiseDelete DEF DeleteAgent
  <2> QED BY <2>2 DEF Promise!Next
<1>2. ASSUME NEW i \in Issues, DeleteIssue(i) PROVE Promise!Next
  <2> DEFINE its == {r \in DOMAIN runs : runs[r].issue = i}
  <2>1. Promise!Delete(its)
    BY <1>2, PromiseDelete DEF DeleteIssue
  <2> QED BY <2>1 DEF Promise!Next
<1>3. ASSUME NEW a \in Agents, NEW i \in Issues, Enqueue(a, i) PROVE Promise!Next
  BY <1>3 DEF Enqueue, Promise!Insert, Promise!Next
<1>4. ASSUME NEW c \in Claimers, Step(c) \/ PinRun(c) \/ ClaimFails(c) \/ Stop(c)
      PROVE  Promise!Next \/ UNCHANGED <<runs, told>>
  <2>1. CASE CommitClaim(c)
    BY <2>1, PromiseStart DEF CommitClaim
  <2>2. CASE ClaimFails(c)
    BY <2>2, PromiseStart DEF ClaimFails
  <2>3. CASE LockOldest(c) \/ ExecutionEnds(c) \/ PinRun(c) \/ Stop(c)
    BY <2>3 DEF LockOldest, ExecutionEnds, PinRun, Stop
  <2> QED BY <1>4, <2>1, <2>2, <2>3, PromiseFinish, PromiseTell DEF Step
<1>5. CASE (\E a \in Agents : RegisterAgent(a)) \/ UNCHANGED vars
  BY <1>5 DEF RegisterAgent, vars
<1> QED BY <1>1, <1>2, <1>3, <1>4, <1>5 DEF Next

\* Whatever claimers, requests and failures do, readers of table runs see each
\* run started once and in its turn, ended once, and told of once and truly.
THEOREM QueueKeepsPromise == Spec => KeepsPromise
<1>1. Init => Untold /\ Promise!Init
  BY DEF Init, Untold, Promise!Init
<1>2. IInv /\ Untold /\ [Next]_vars => [Promise!Next]_(Promise!vars)
  BY PromiseStep DEF Promise!vars
<1> QED
  BY <1>1, <1>2, UntoldNext, QueueInvariance, PTL DEF Spec, KeepsPromise, Promise!Spec

==============================================================================
