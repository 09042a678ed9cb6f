---------------------------- MODULE SquadsProofs -----------------------------
(***************************************************************************)
(* The tables of agents, squads and assignees agree, agents hear of what   *)
(* they are assigned, and leaders get onto their rosters, for any number   *)
(* of users, squads and requests.                                          *)
(*                                                                         *)
(* The argument for AgentHears: what an edit writes back it read when it   *)
(* held, and it keeps holding (Heard), because an agent comes into being   *)
(* before its identifier is known and never again after it is deleted; a   *)
(* request that reads another assignee back than it wrote is remembered.   *)
(* LeaderEnlisted is inductive on top of that: who becomes leader has a    *)
(* request that puts the user on the roster (Seating), and only removals   *)
(* take anyone off.                                                        *)
(***************************************************************************)
EXTENDS Squads, TLAPS

Heard(x, i) ==
  x \in agents => <<x, i>> \in runs \union overtaken \/ mishaps > 0 \/ \E h \in Handlers : Starting(op[h], x, i)

\* What the local variables of a request say of the tables.
Sound(o, us, kn) ==
  /\ o.pc = "agent" => o.target \in Agents \intersect us /\ o.target \notin kn
  /\ o.pc = "drop" => o.target \in Agents
  /\ o.pc \in {"enlist", "lead", "roster", "remove"} => o.squad \in Squads /\ o.target \in Users
  /\ o.pc \in {"check", "save", "readback", "trigger", "enqueue"} =>
       /\ o.issue \in Issues /\ o.seen \in us \union {NoUser}
       /\ o.seen \in Agents => o.seen \in kn
       /\ o.target \in Agents => o.target \in kn
  /\ o.pc \in {"readback", "trigger", "enqueue"} => o.target \in us \union {NoUser}

Apart == \A g, h \in Handlers :
           op[g].pc = "agent" /\ op[h].pc = "agent" /\ op[g].target = op[h].target => g = h

IInv ==
  /\ TypeOK /\ RowsRefer /\ Apart
  /\ agents \subseteq known /\ known \subseteq users
  /\ \A h \in Handlers : Sound(op[h], users, known)
  /\ \A i \in Issues : assignees[i] \in Agents => assignees[i] \in known
  /\ \A i \in Issues : Heard(assignees[i], i)
  /\ \A h \in Handlers : op[h].pc \in {"check", "save"} => Heard(op[h].seen, op[h].issue)

LEMMA IdleSound ==
  ASSUME NEW us, NEW kn
  PROVE  /\ Idle \in Ops /\ Sound(Idle, us, kn) /\ Idle.pc = "idle"
         /\ \A x, i : ~Starting(Idle, x, i)
  BY DEF Idle, Ops, Sound, Starting, Assignee

LEMMA InitOK ==
  ASSUME Init
  PROVE  IInv
<1>1. TypeOK
  BY IdleSound, BoundsAssumption DEF Init, TypeOK, Users, Assignee
<1>2. RowsRefer /\ \A i \in Issues : assignees[i] \notin Agents
  BY PeopleAssumption DEF Init, RowsRefer, Users
<1>3. \A h \in Handlers : Sound(op[h], users, known) /\ op[h].pc = "idle"
  BY IdleSound DEF Init
<1>4. \A x, i : Heard(x, i)
  BY DEF Init, Heard
<1> QED
  BY <1>1, <1>2, <1>3, <1>4 DEF Init, IInv, Apart

------------------------------------------------------------------------------
(* Steps.                                                                  *)

LEMMA HeardStays ==
  ASSUME IInv, TypeOK', NEW h \in Handlers, NEW o \in Ops, Move(h, o),
         agents' \intersect known \subseteq agents,
         \A r \in runs : r[1] \in agents' => r \in runs',
         overtaken \subseteq overtaken', mishaps' >= mishaps,
         \A x, i : Starting(op[h], x, i) =>
           \/ Starting(o, x, i) \/ x \notin agents'
           \/ <<x, i>> \in runs' \union overtaken' \/ mishaps' > 0
  PROVE  \A x, i : (x \in Agents => x \in known) /\ Heard(x, i) => Heard(x, i)'
<1> SUFFICES ASSUME NEW x, NEW i, x \in Agents => x \in known, Heard(x, i), x \in agents',
                    ~(<<x, i>> \in runs' \union overtaken'), ~(mishaps' > 0)
             PROVE  \E g \in Handlers : Starting(op'[g], x, i)
  BY DEF Heard
<1>1. op'[h] = o /\ \A g \in Handlers \ {h} : op'[g] = op[g]
  BY DEF Move, IInv, TypeOK
<1>2. x \in agents
  BY DEF TypeOK
<1>3. ~(<<x, i>> \in runs \union overtaken) /\ ~(mishaps > 0)
  <2>1. <<x, i>>[1] = x
    OBVIOUS
  <2>2. mishaps \in Nat /\ mishaps' \in Nat
    BY BoundsAssumption DEF IInv, TypeOK
  <2> QED
    BY <2>1, <2>2
<1>4. PICK g \in Handlers : Starting(op[g], x, i)
  BY <1>2, <1>3 DEF Heard
<1>5. Starting(op'[g], x, i)
  BY <1>1, <1>4
<1> QED
  BY <1>5

\* What a step of handler h has to show, if o is what it does next.
LEMMA StepOK ==
  ASSUME IInv, TypeOK', RowsRefer', NEW h \in Handlers, NEW o \in Ops, Move(h, o),
         users \subseteq users', known \subseteq known', known' \subseteq users',
         agents' \subseteq known', agents' \intersect known \subseteq agents,
         \A x \in known' \ known : op[h].pc = "agent" /\ op[h].target = x,
         \A r \in runs : r[1] \in agents' => r \in runs',
         overtaken \subseteq overtaken', mishaps' >= mishaps,
         \A x, i : Starting(op[h], x, i) =>
           \/ Starting(o, x, i) \/ x \notin agents'
           \/ <<x, i>> \in runs' \union overtaken' \/ mishaps' > 0,
         Sound(o, users', known'),
         o.pc = "agent" => known' = known /\ o.target \notin users,
         o.pc \in {"check", "save"} => Heard(o.seen, o.issue) /\ (o.seen \in Agents => o.seen \in known),
         \A i \in Issues :
           \/ assignees'[i] = assignees[i]
           \/ /\ assignees'[i] \in Agents => assignees'[i] \in known
              /\ Heard(assignees'[i], i) \/ Starting(o, assignees'[i], i)
  PROVE  IInv'
<1>1. op' = [op EXCEPT ![h] = o] /\ op'[h] = o /\ \A g \in Handlers \ {h} : op'[g] = op[g]
  BY DEF Move, IInv, TypeOK
<1>2. \A x, i : (x \in Agents => x \in known) /\ Heard(x, i) => Heard(x, i)'
  BY HeardStays
<1>3. ASSUME NEW g \in Handlers
      PROVE  Sound(op'[g], users', known')
  <2>1. CASE g = h
    BY <1>1, <2>1
  <2>2. CASE g # h
    <3>1. Sound(op[g], users, known) /\ op'[g] = op[g]
      BY <1>1, <2>2 DEF IInv
    <3>2. op[g].pc = "agent" => op[g].target \notin known'
      BY <2>2, <3>1 DEF IInv, Apart, Sound
    <3> QED
      BY <3>1, <3>2 DEF Sound
  <2> QED
    BY <2>1, <2>2
<1>4. Apart'
  <2>1. \A g \in Handlers : op[g].pc = "agent" => op[g].target \in users
    BY DEF IInv, Sound
  <2> QED
    BY <1>1, <2>1 DEF IInv, Apart
<1>5. \A i \in Issues : assignees'[i] \in Agents => assignees'[i] \in known'
  BY DEF IInv
<1>6. ASSUME NEW i \in Issues
      PROVE  Heard(assignees[i], i)'
  <2>1. CASE assignees'[i] = assignees[i]
    BY <1>2, <2>1 DEF IInv, Heard
  <2>2. CASE Starting(o, assignees'[i], i)
    BY <1>1, <2>2 DEF Heard
  <2>3. CASE Heard(assignees'[i], i) /\ (assignees'[i] \in Agents => assignees'[i] \in known)
    BY <1>2, <2>3 DEF Heard
  <2> QED
    BY <2>1, <2>2, <2>3
<1>7. ASSUME NEW g \in Handlers, op'[g].pc \in {"check", "save"}
      PROVE  Heard(op[g].seen, op[g].issue)'
  <2>1. CASE g = h
    <3>1. Heard(o.seen, o.issue)'
      BY <1>1, <1>2, <1>7, <2>1
    <3> QED
      BY <1>1, <2>1, <3>1 DEF Heard
  <2>2. CASE g # h
    <3>1. op'[g] = op[g] /\ Sound(op[g], users, known) /\ Heard(op[g].seen, op[g].issue)
      BY <1>1, <1>7, <2>2 DEF IInv
    <3>2. op[g].seen \in Agents => op[g].seen \in known
      BY <1>7, <3>1 DEF Sound
    <3> QED
      BY <1>2, <3>1, <3>2 DEF Heard
  <2> QED
    BY <2>1, <2>2
<1> QED
  BY <1>3, <1>4, <1>5, <1>6, <1>7 DEF IInv

\* A step that touches neither agents nor issues.
LEMMA QuietOK ==
  ASSUME IInv, TypeOK', RowsRefer', NEW h \in Handlers, NEW o \in Ops, Move(h, o),
         UNCHANGED <<users, agents, known, assignees, runs, overtaken>>, mishaps' >= mishaps,
         \A x, i : Starting(op[h], x, i) => Starting(o, x, i) \/ x \notin agents \/ mishaps' > 0,
         Sound(o, users, known), o.pc # "agent",
         o.pc \in {"check", "save"} => Heard(o.seen, o.issue) /\ (o.seen \in Agents => o.seen \in known)
  PROVE  IInv'
<1>1. /\ users' = users /\ agents' = agents /\ known' = known /\ assignees' = assignees /\ runs' = runs
      /\ overtaken' = overtaken /\ agents \subseteq known /\ known \subseteq users
  BY DEF IInv
<1>2. \A i \in Issues : assignees'[i] = assignees[i]
  BY <1>1
<1>3. Sound(o, users', known')
  BY <1>1
<1> QED
  BY <1>1, <1>2, <1>3, StepOK

\* A step that only reads the tables.
LEMMA ReadOK ==
  ASSUME IInv, NEW h \in Handlers, NEW o \in Ops, Move(h, o), UNCHANGED <<tables, history,
                                                                          mishaps>>,
         sent' \in 0 .. MaxRequests,
         \A x, i : Starting(op[h], x, i) => Starting(o, x, i),
         Sound(o, users, known), o.pc # "agent",
         o.pc \in {"check", "save"} => Heard(o.seen, o.issue) /\ (o.seen \in Agents => o.seen \in known)
  PROVE  IInv'
<1>1. TypeOK'
  BY DEF IInv, TypeOK, Move, tables, history
<1>2. RowsRefer'
  BY DEF IInv, RowsRefer, tables, IsSquad
<1>3. mishaps' >= mishaps /\ UNCHANGED <<users, agents, known, assignees, runs, overtaken>>
  BY BoundsAssumption DEF IInv, TypeOK, tables, history
<1> QED
  BY <1>1, <1>2, <1>3, QuietOK

LEMMA BeginOK ==
  ASSUME IInv, NEW h \in Handlers, NEW req, Begin(h, req)
  PROVE  /\ sent' \in 0 .. MaxRequests /\ op[h] = Idle
         /\ \A x, i : ~Starting(op[h], x, i)
<1>1. sent \in Nat /\ MaxRequests \in Nat
  BY BoundsAssumption DEF IInv, TypeOK
<1> QED
  BY <1>1, IdleSound DEF IInv, TypeOK, Begin

\* Those whose identifiers are known are users.
LEMMA People ==
  ASSUME IInv
  PROVE  /\ \A u : Person(u) => u \in Users
         /\ NoUser \notin Agents
  BY PeopleAssumption DEF IInv, TypeOK, Person, Users

------------------------------------------------------------------------------
(* Agents.                                                                 *)

LEMMA CreateAgentOK ==
  ASSUME IInv, NEW h \in Handlers, NEW a \in Agents, CreateAgent(h, a)
  PROVE  IInv'
<1> DEFINE o == [Idle EXCEPT !.pc = "agent", !.target = a]
<1>1. /\ Begin(h, "agent") /\ a \notin users /\ users' = users \union {a} /\ Move(h, o)
      /\ UNCHANGED <<agents, known, leaders, formed, rosters, assignees, runs, wrote, told,
                     overtaken, unseated, mishaps>>
  BY DEF CreateAgent, history
<1>2. o \in Ops /\ o.pc = "agent" /\ o.target = a
  BY IdleSound DEF Idle, Ops, Assignee, Users
<1>3. sent' \in 0 .. MaxRequests /\ \A x, i : ~Starting(op[h], x, i)
  BY <1>1, BeginOK
<1>4. TypeOK'
  BY <1>1, <1>2, <1>3 DEF IInv, TypeOK, Move, Users
<1>5. RowsRefer'
  BY <1>1 DEF IInv, RowsRefer, IsSquad
<1>6. a \notin known /\ Sound(o, users', known')
  BY <1>1, <1>2 DEF Sound, IInv
<1>7. mishaps' >= mishaps
  BY <1>1, BoundsAssumption DEF IInv, TypeOK
<1>8. \A i \in Issues : assignees'[i] = assignees[i]
  BY <1>1
<1>9. /\ users \subseteq users' /\ known' = known /\ known' \subseteq users' /\ agents' = agents
      /\ runs' = runs /\ agents' \subseteq known'
  BY <1>1 DEF IInv
<1> HIDE DEF o
<1> QED
  BY <1>1, <1>2, <1>3, <1>4, <1>5, <1>6, <1>7, <1>8, <1>9, StepOK

LEMMA InsertAgentOK ==
  ASSUME IInv, NEW h \in Handlers, InsertAgent(h)
  PROVE  IInv'
<1> DEFINE a == op[h].target
<1>1. /\ op[h].pc = "agent" /\ agents' = agents \union {a} /\ known' = known \union {a}
      /\ Move(h, Idle)
      /\ UNCHANGED <<users, leaders, formed, rosters, assignees, runs, wrote, told, overtaken,
                     unseated, sent, mishaps>>
  BY DEF InsertAgent, At, history
<1>2. a \in Agents /\ a \in users /\ a \notin known
  BY <1>1 DEF IInv, Sound
<1>3. TypeOK'
  BY <1>1, <1>2, IdleSound DEF IInv, TypeOK, Move
<1>4. RowsRefer'
  BY <1>1 DEF IInv, RowsRefer, IsSquad
<1>5. \A i \in Issues : assignees'[i] = assignees[i]
  BY <1>1
<1>6. mishaps' >= mishaps
  BY <1>1, BoundsAssumption DEF IInv, TypeOK
<1>7. /\ users' = users /\ known \subseteq known' /\ known' \subseteq users' /\ agents' \subseteq known'
      /\ agents' \intersect known \subseteq agents /\ runs' = runs
      /\ \A x, i : ~Starting(op[h], x, i)
      /\ \A x \in known' \ known : x = a
  BY <1>1, <1>2 DEF IInv, Starting
<1> QED
  BY <1>1, <1>3, <1>4, <1>5, <1>6, <1>7, IdleSound, StepOK

LEMMA DeleteAgentOK ==
  ASSUME IInv, NEW h \in Handlers, NEW a \in Agents, DeleteAgent(h, a)
  PROVE  IInv'
<1> DEFINE o == [Idle EXCEPT !.pc = "drop", !.target = a]
<1>1. Begin(h, "drop") /\ Move(h, o) /\ UNCHANGED <<tables, history, mishaps>>
  BY DEF DeleteAgent
<1>2. o \in Ops /\ o.pc = "drop" /\ o.target = a
  BY IdleSound DEF Idle, Ops, Assignee, Users
<1>3. Sound(o, users, known)
  BY <1>2 DEF Sound
<1> HIDE DEF o
<1> QED
  BY <1>1, <1>2, <1>3, BeginOK, ReadOK

LEMMA DropAgentOK ==
  ASSUME IInv, NEW h \in Handlers, DropAgent(h)
  PROVE  IInv'
<1> DEFINE a == op[h].target
           mine == {r \in runs : r[1] = a}
<1>1. /\ op[h].pc = "drop" /\ Move(h, Idle)
      /\ UNCHANGED <<users, known, leaders, formed, rosters, assignees, wrote, told, overtaken,
                     unseated, sent, mishaps>>
      /\ \/ mine \intersect wrote = {} /\ agents' = agents \ {a} /\ runs' = runs \ mine
         \/ agents' = agents /\ runs' = runs
  BY DEF DropAgent, At, history
<1>2. TypeOK'
  BY <1>1, IdleSound DEF IInv, TypeOK, Move
<1>3. RowsRefer'
  BY <1>1 DEF IInv, RowsRefer, IsSquad
<1>4. mishaps' >= mishaps /\ agents' \subseteq agents /\ \A r \in runs : r[1] \in agents' => r \in runs'
  BY <1>1, BoundsAssumption DEF IInv, TypeOK
<1>5. \A i \in Issues : assignees'[i] = assignees[i]
  BY <1>1
<1>6. /\ users' = users /\ known' = known /\ known' \subseteq users' /\ agents' \subseteq known'
      /\ \A x, i : ~Starting(op[h], x, i)
  BY <1>1, <1>4 DEF IInv, Starting
<1> QED
  BY <1>1, <1>2, <1>3, <1>4, <1>5, <1>6, IdleSound, StepOK

------------------------------------------------------------------------------
(* Squads.                                                                 *)

LEMMA CreateSquadOK ==
  ASSUME IInv, NEW h \in Handlers, NEW u \in Users, CreateSquad(h, u)
  PROVE  IInv'
<1> DEFINE o == [Idle EXCEPT !.pc = "enlist", !.squad = formed', !.target = u]
<1>1. /\ Begin(h, "squad") /\ Move(h, o) /\ formed < MaxSquads /\ formed' = formed + 1
      /\ leaders' = [leaders EXCEPT ![formed'] = u]
      /\ UNCHANGED <<users, agents, known, rosters, assignees, runs, wrote, told, overtaken,
                     unseated, mishaps>>
  BY DEF CreateSquad, history
<1>2. formed' \in Squads /\ formed' \in 0 .. MaxSquads
  BY <1>1, BoundsAssumption DEF IInv, TypeOK, Squads
<1>3. o \in Ops /\ o.pc = "enlist" /\ o.target = u /\ o.squad = formed'
  BY <1>2, IdleSound DEF Idle, Ops, Assignee
<1>4. sent' \in 0 .. MaxRequests /\ \A x, i : ~Starting(op[h], x, i)
  BY <1>1, BeginOK
<1> HIDE DEF o
<1>5. TypeOK'
  BY <1>1, <1>2, <1>3, <1>4 DEF IInv, TypeOK, Move
<1>6. RowsRefer'
  BY <1>1, <1>2, PeopleAssumption DEF IInv, TypeOK, RowsRefer, IsSquad
<1>7. Sound(o, users, known)
  BY <1>2, <1>3 DEF Sound
<1>8. mishaps' >= mishaps
  BY <1>1, BoundsAssumption DEF IInv, TypeOK
<1> QED
  BY <1>1, <1>3, <1>4, <1>5, <1>6, <1>7, <1>8, QuietOK

LEMMA AddSquadMemberOK ==
  ASSUME IInv, NEW h \in Handlers, AddSquadMember(h)
  PROVE  IInv'
<1>1. /\ op[h].pc = "enlist" /\ Move(h, Idle)
      /\ UNCHANGED <<users, agents, known, leaders, formed, assignees, runs, wrote, told,
                     overtaken, unseated, sent, mishaps>>
  BY DEF AddSquadMember, At, history
<1>2. op[h].squad \in Squads /\ op[h].target \in Users
  BY <1>1 DEF IInv, Sound
<1>3. \/ rosters' = rosters
      \/ IsSquad(op[h].squad) /\ rosters' = [rosters EXCEPT ![op[h].squad] = @ \union {op[h].target}]
  BY DEF AddSquadMember
<1>4. TypeOK'
  BY <1>1, <1>2, <1>3, IdleSound DEF IInv, TypeOK, Move
<1>5. RowsRefer'
  BY <1>1, <1>2, <1>3 DEF IInv, TypeOK, RowsRefer, IsSquad
<1>6. mishaps' >= mishaps /\ \A x, i : ~Starting(op[h], x, i)
  BY <1>1, BoundsAssumption DEF IInv, TypeOK, Starting
<1> QED
  BY <1>1, <1>4, <1>5, <1>6, IdleSound, QuietOK

LEMMA SetLeaderOK ==
  ASSUME IInv, NEW h \in Handlers, NEW s \in Squads, NEW u \in Users,
         SetLeader(h, s, u) \/ AddMember(h, s, u) \/ RemoveMember(h, s, u)
  PROVE  IInv'
<1>1. PICK o : /\ Move(h, o) /\ UNCHANGED <<tables, history, mishaps>>
               /\ \/ o = [Idle EXCEPT !.pc = "lead", !.squad = s, !.target = u]
                  \/ o = [Idle EXCEPT !.pc = "enlist", !.squad = s, !.target = u]
                  \/ o = [Idle EXCEPT !.pc = "remove", !.squad = s, !.target = u]
  BY DEF SetLeader, AddMember, RemoveMember
<1>2. PICK req : Begin(h, req)
  BY DEF SetLeader, AddMember, RemoveMember
<1>3. o \in Ops /\ o.pc \in {"lead", "enlist", "remove"} /\ o.squad = s /\ o.target = u
  BY <1>1, IdleSound DEF Idle, Ops, Assignee
<1>4. Sound(o, users, known)
  BY <1>3 DEF Sound
<1> QED
  BY <1>1, <1>2, <1>3, <1>4, BeginOK, ReadOK

LEMMA SetSquadLeaderOK ==
  ASSUME IInv, NEW h \in Handlers, SetSquadLeader(h)
  PROVE  IInv'
<1> DEFINE o == op[h]
<1>1. /\ o.pc = "lead" /\ o \in Ops /\ o.squad \in Squads /\ o.target \in Users
      /\ UNCHANGED <<users, agents, known, formed, rosters, assignees, runs, wrote, told, overtaken,
                     sent, mishaps>>
  BY DEF SetSquadLeader, At, IInv, TypeOK, Sound
<1>2. mishaps' >= mishaps /\ \A x, i : ~Starting(o, x, i)
  BY <1>1, BoundsAssumption DEF IInv, TypeOK, Starting
<1>3. CASE IsSquad(o.squad) /\ leaders' = [leaders EXCEPT ![o.squad] = o.target]
           /\ unseated' = unseated \ {o.squad} /\ Move(h, [o EXCEPT !.pc = "roster"])
  <2> DEFINE p == [o EXCEPT !.pc = "roster"]
  <2>1. p \in Ops /\ p.pc = "roster" /\ p.squad = o.squad /\ p.target = o.target
    BY <1>1 DEF Ops
  <2>2. Move(h, p)
    BY <1>3
  <2> HIDE DEF p
  <2>3. TypeOK'
    BY <1>1, <1>3, <2>1, <2>2 DEF IInv, TypeOK, Move
  <2>4. RowsRefer'
    BY <1>1, <1>3, PeopleAssumption DEF IInv, TypeOK, RowsRefer, IsSquad
  <2>5. Sound(p, users, known)
    BY <1>1, <2>1 DEF Sound
  <2> QED
    BY <1>1, <1>2, <2>1, <2>2, <2>3, <2>4, <2>5, QuietOK
<1>4. CASE Move(h, Idle) /\ UNCHANGED <<leaders, unseated>>
  <2>1. UNCHANGED <<tables, history, mishaps>> /\ sent' \in 0 .. MaxRequests
    BY <1>1, <1>4 DEF tables, history, IInv, TypeOK
  <2> QED
    BY <1>2, <1>4, <2>1, IdleSound, ReadOK
<1> QED
  BY <1>3, <1>4 DEF SetSquadLeader

LEMMA ListSquadMembersOK ==
  ASSUME IInv, NEW h \in Handlers, ListSquadMembers(h)
  PROVE  IInv'
<1> DEFINE o == op[h]
<1>1. PICK p : /\ Move(h, p) /\ UNCHANGED <<tables, history, sent, mishaps>>
               /\ p \in {Idle, [o EXCEPT !.pc = "enlist"]}
  BY DEF ListSquadMembers
<1>2. /\ o.pc = "roster" /\ o \in Ops /\ o.squad \in Squads /\ o.target \in Users
      /\ sent \in 0 .. MaxRequests
  BY DEF ListSquadMembers, At, IInv, TypeOK, Sound
<1>3. CASE p = Idle
  BY <1>1, <1>2, <1>3, IdleSound, ReadOK DEF Starting
<1>4. CASE p # Idle
  <2>1. p \in Ops /\ p.pc = "enlist" /\ p.squad = o.squad /\ p.target = o.target
    BY <1>1, <1>2, <1>4 DEF Ops
  <2>2. Sound(p, users, known) /\ \A x, i : ~Starting(o, x, i)
    BY <1>2, <2>1 DEF Sound, Starting
  <2> QED
    BY <1>1, <1>2, <2>1, <2>2, ReadOK
<1> QED
  BY <1>3, <1>4

LEMMA RemoveSquadMemberOK ==
  ASSUME IInv, NEW h \in Handlers, RemoveSquadMember(h)
  PROVE  IInv'
<1>1. /\ op[h].pc = "remove" /\ Move(h, Idle)
      /\ rosters' = [rosters EXCEPT ![op[h].squad] = @ \ {op[h].target}]
      /\ UNCHANGED <<users, agents, known, leaders, formed, assignees, runs, wrote, told, overtaken,
                     sent, mishaps>>
      /\ unseated' \subseteq unseated \union {op[h].squad}
  BY DEF RemoveSquadMember, At
<1>2. op[h].squad \in Squads
  BY <1>1 DEF IInv, Sound
<1>3. TypeOK'
  BY <1>1, <1>2, IdleSound DEF IInv, TypeOK, Move
<1>4. RowsRefer'
  BY <1>1, <1>2 DEF IInv, TypeOK, RowsRefer, IsSquad
<1>5. mishaps' >= mishaps /\ \A x, i : ~Starting(op[h], x, i)
  BY <1>1, BoundsAssumption DEF IInv, TypeOK, Starting
<1> QED
  BY <1>1, <1>3, <1>4, <1>5, IdleSound, QuietOK

\* Statements that leave every request where it is.
LEMMA StillOK ==
  ASSUME IInv, TypeOK', RowsRefer',
         UNCHANGED <<users, agents, known, assignees, runs, overtaken, op, mishaps>>
  PROVE  IInv'
  BY DEF IInv, Apart, Heard

LEMMA DeleteSquadOK ==
  ASSUME IInv, NEW h \in Handlers, NEW s \in Squads, DeleteSquad(h, s)
  PROVE  IInv'
<1>1. sent' \in 0 .. MaxRequests
  BY BeginOK DEF DeleteSquad
<1>2. TypeOK'
  BY <1>1 DEF DeleteSquad, history, IInv, TypeOK
<1>3. RowsRefer'
  BY DEF DeleteSquad, IInv, TypeOK, RowsRefer, IsSquad
<1> QED
  BY <1>2, <1>3, StillOK DEF DeleteSquad, history

LEMMA WriteArtifactOK ==
  ASSUME IInv, NEW r \in Agents \X Issues, WriteArtifact(r)
  PROVE  IInv'
<1>1. TypeOK'
  BY DEF WriteArtifact, history, IInv, TypeOK
<1>2. RowsRefer'
  BY DEF WriteArtifact, IInv, RowsRefer, IsSquad
<1> QED
  BY <1>1, <1>2, StillOK DEF WriteArtifact, history

------------------------------------------------------------------------------
(* The assignee of an issue.                                               *)

LEMMA UpdateIssueOK ==
  ASSUME IInv, NEW h \in Handlers, NEW u \in Humans, NEW i \in Issues, NEW x \in Assignee,
         NEW patch \in BOOLEAN, UpdateIssue(h, u, i, x, patch)
  PROVE  IInv'
<1>1. PICK pc \in {"check", "save"} :
        /\ Move(h, [Idle EXCEPT !.pc = pc, !.issue = i, !.target = x, !.seen = assignees[i],
                                !.patch = patch])
        /\ UNCHANGED <<tables, history, mishaps>> /\ Begin(h, "edit")
        /\ x \in Agents => x \in known
  BY People DEF UpdateIssue
<1> DEFINE o == [Idle EXCEPT !.pc = pc, !.issue = i, !.target = x, !.seen = assignees[i],
                             !.patch = patch]
<1>2. assignees[i] \in Assignee /\ assignees[i] \in users \union {NoUser}
  BY DEF IInv, TypeOK, RowsRefer
<1>3. o \in Ops /\ o.pc = pc /\ o.issue = i /\ o.target = x /\ o.seen = assignees[i]
  BY <1>2, IdleSound DEF Idle, Ops
<1>4. Move(h, o)
  BY <1>1
<1> HIDE DEF o
<1>5. (o.seen \in Agents => o.seen \in known) /\ Heard(o.seen, o.issue)
  BY <1>3 DEF IInv
<1>6. Sound(o, users, known)
  BY <1>1, <1>2, <1>3, <1>5 DEF Sound
<1> QED
  BY <1>1, <1>3, <1>4, <1>5, <1>6, BeginOK, ReadOK

LEMMA ValidateAssigneeOK ==
  ASSUME IInv, NEW h \in Handlers, ValidateAssignee(h)
  PROVE  IInv'
<1> DEFINE o == op[h]
<1>1. PICK p : /\ Move(h, p) /\ UNCHANGED <<tables, history, sent, mishaps>>
               /\ p \in {Idle, [o EXCEPT !.pc = "save"]}
  BY DEF ValidateAssignee
<1>2. /\ o.pc = "check" /\ o \in Ops /\ sent \in 0 .. MaxRequests /\ Sound(o, users, known)
      /\ Heard(o.seen, o.issue)
  BY DEF ValidateAssignee, At, IInv, TypeOK
<1>3. \A x, i : ~Starting(o, x, i)
  BY <1>2 DEF Starting
<1>4. CASE p = Idle
  BY <1>1, <1>2, <1>3, <1>4, IdleSound, ReadOK
<1>5. CASE p # Idle
  <2>1. /\ p \in Ops /\ p.pc = "save" /\ p.target = o.target /\ p.issue = o.issue /\ p.seen = o.seen
    BY <1>1, <1>2, <1>5 DEF Ops
  <2>2. Sound(p, users, known) /\ (p.seen \in Agents => p.seen \in known)
    BY <1>2, <2>1 DEF Sound
  <2> QED
    BY <1>1, <1>2, <1>3, <2>1, <2>2, ReadOK
<1> QED
  BY <1>4, <1>5

LEMMA SaveIssueOK ==
  ASSUME IInv, NEW h \in Handlers, SaveIssue(h)
  PROVE  IInv'
<1> DEFINE o == op[h]
           x == IF o.patch THEN o.target ELSE o.seen
<1>1. /\ o.pc = "save" /\ o \in Ops /\ Sound(o, users, known) /\ Heard(o.seen, o.issue)
      /\ UNCHANGED <<users, agents, known, leaders, formed, rosters, runs, wrote, told,
                     overtaken, unseated, sent, mishaps>>
  BY DEF SaveIssue, At, IInv, TypeOK, history
<1>2. mishaps' >= mishaps /\ \A y, i : ~Starting(o, y, i)
  BY <1>1, BoundsAssumption DEF IInv, TypeOK, Starting
<1>3. CASE Move(h, Idle) /\ UNCHANGED assignees
  <2>1. UNCHANGED <<tables, history, mishaps>> /\ sent' \in 0 .. MaxRequests
    BY <1>1, <1>3 DEF tables, history, IInv, TypeOK
  <2> QED
    BY <1>2, <1>3, <2>1, IdleSound, ReadOK
<1>4. CASE /\ x \in users \union {NoUser}
           /\ assignees' = [assignees EXCEPT ![o.issue] = x]
           /\ Move(h, IF o.patch /\ x \notin {NoUser, o.seen} THEN [o EXCEPT !.pc = "readback"] ELSE Idle)
  <2>1. o.issue \in Issues /\ (x \in Agents => x \in known)
    BY <1>1 DEF Sound
  <2>2. x \in Assignee
    BY <1>4 DEF IInv, TypeOK, Assignee
  <2>3. PICK p \in Ops :
          /\ Move(h, p) /\ Sound(p, users, known) /\ p.pc \in {"idle", "readback"}
          /\ Starting(p, x, o.issue) \/ x = NoUser \/ x = o.seen
    <3>1. CASE o.patch /\ x \notin {NoUser, o.seen}
      <4> DEFINE q == [o EXCEPT !.pc = "readback"]
      <4>1. /\ q \in Ops /\ q.pc = "readback" /\ q.target = x /\ q.issue = o.issue /\ q.seen = o.seen
            /\ Move(h, q)
        BY <1>1, <1>4, <3>1 DEF Ops
      <4> HIDE DEF q
      <4>2. Sound(q, users, known) /\ Starting(q, x, o.issue)
        BY <1>1, <1>4, <2>1, <3>1, <4>1 DEF Sound, Starting
      <4> QED
        BY <4>1, <4>2
    <3>2. CASE ~(o.patch /\ x \notin {NoUser, o.seen})
      <4>1. x = NoUser \/ x = o.seen
        BY <1>1, <3>2 DEF Ops
      <4> QED
        BY <1>4, <3>2, <4>1, IdleSound
    <3> QED
      BY <3>1, <3>2
  <2> HIDE DEF x
  <2>4. TypeOK'
    BY <1>1, <1>4, <2>1, <2>2, <2>3 DEF IInv, TypeOK, Move
  <2>5. RowsRefer'
    BY <1>1, <1>4, <2>1 DEF IInv, TypeOK, RowsRefer, IsSquad
  <2>6. Heard(x, o.issue) \/ Starting(p, x, o.issue)
    <3>1. CASE x = NoUser
      BY <3>1, People DEF Heard, IInv, TypeOK
    <3> QED
      BY <1>1, <2>3, <3>1
  <2>7. ASSUME NEW i \in Issues
        PROVE  \/ assignees'[i] = assignees[i]
               \/ /\ assignees'[i] \in Agents => assignees'[i] \in known
                  /\ Heard(assignees'[i], i) \/ Starting(p, assignees'[i], i)
    <3>1. CASE i = o.issue
      <4>1. assignees'[i] = x
        BY <1>4, <2>1, <3>1 DEF IInv, TypeOK
      <4> QED
        BY <2>1, <2>6, <3>1, <4>1
    <3>2. CASE i # o.issue
      BY <1>4, <3>2 DEF IInv, TypeOK
    <3> QED
      BY <3>1, <3>2
  <2>8. /\ users' = users /\ agents' = agents /\ known' = known /\ runs' = runs
        /\ overtaken' = overtaken /\ agents \subseteq known /\ known \subseteq users
    BY <1>1 DEF IInv
  <2> QED
    BY <1>2, <2>3, <2>4, <2>5, <2>7, <2>8, StepOK
<1> QED
  BY <1>3, <1>4 DEF SaveIssue

LEMMA ReadBackOK ==
  ASSUME IInv, NEW h \in Handlers, ReadBack(h)
  PROVE  IInv'
<1> DEFINE o == op[h]
           x == assignees[o.issue]
           p == [o EXCEPT !.pc = "trigger", !.target = x]
<1>1. /\ o.pc = "readback" /\ o \in Ops /\ Sound(o, users, known) /\ o.issue \in Issues
      /\ Move(h, p) /\ UNCHANGED <<tables, unseated, sent, mishaps>>
      /\ overtaken' = IF x # o.target /\ o.target \in Agents
                        THEN overtaken \union {<<o.target, o.issue>>} ELSE overtaken
  BY DEF ReadBack, At, IInv, TypeOK, Sound
<1>2. x \in Assignee /\ x \in users \union {NoUser} /\ (x \in Agents => x \in known)
  BY <1>1 DEF IInv, TypeOK, RowsRefer
<1>3. /\ p \in Ops /\ p.pc = "trigger" /\ p.target = x /\ p.issue = o.issue /\ p.seen = o.seen
  BY <1>1, <1>2 DEF Ops
<1> HIDE DEF p
<1>4. Sound(p, users, known)
  BY <1>1, <1>2, <1>3 DEF Sound
<1>5. /\ users' = users /\ agents' = agents /\ known' = known /\ runs' = runs
      /\ agents \subseteq known /\ known \subseteq users /\ agents \subseteq Agents
      /\ \A i \in Issues : assignees'[i] = assignees[i]
  BY <1>1 DEF tables, IInv, TypeOK
<1>6. mishaps' >= mishaps /\ overtaken \subseteq overtaken'
  BY <1>1, BoundsAssumption DEF IInv, TypeOK
<1>7. \A y, i : Starting(o, y, i) => Starting(p, y, i) \/ y \notin agents \/ <<y, i>> \in overtaken'
  BY <1>1, <1>3, <1>5 DEF Starting
<1>8. TypeOK'
  BY <1>1, <1>3 DEF IInv, TypeOK, Move, tables
<1>9. RowsRefer'
  BY <1>1 DEF IInv, RowsRefer, IsSquad, tables
<1> QED
  BY <1>1, <1>3, <1>4, <1>5, <1>6, <1>7, <1>8, <1>9, StepOK

LEMMA OnIssueAssignedOK ==
  ASSUME IInv, NEW h \in Handlers, OnIssueAssigned(h) \/ MistakeAgent(h)
  PROVE  IInv'
<1> DEFINE o == op[h]
<1>1. /\ o.pc = "trigger" /\ o \in Ops /\ Sound(o, users, known) /\ o.issue \in Issues
      /\ o.target \in Assignee
      /\ UNCHANGED <<users, agents, known, leaders, formed, rosters, assignees, runs, wrote,
                     overtaken, unseated, sent>>
  BY DEF OnIssueAssigned, MistakeAgent, At, IInv, TypeOK, Sound, Ops, history
<1>2. PICK p : Move(h, p) /\ p \in {Idle, [o EXCEPT !.pc = "enqueue"]}
  BY DEF OnIssueAssigned, MistakeAgent
<1>3. told' \in SUBSET (Assignee \X Issues) /\ mishaps \in Nat
      /\ mishaps' \in 0 .. MaxMishaps /\ mishaps' >= mishaps
  BY <1>1, BoundsAssumption DEF OnIssueAssigned, MistakeAgent, Notify, IInv, TypeOK
<1>4. p = Idle => o.target \notin agents \/ mishaps' > 0
  <2>1. o.pc = "trigger" /\ [o EXCEPT !.pc = "enqueue"].pc = "enqueue" /\ Idle.pc = "idle"
    BY <1>1, IdleSound DEF Ops
  <2>2. op'[h] = p
    BY <1>2 DEF Move, IInv, TypeOK
  <2>3. CASE MistakeAgent(h)
    BY <1>3, <2>3 DEF MistakeAgent
  <2>4. CASE OnIssueAssigned(h) /\ o.target \in agents
    <3>1. op'[h] = [o EXCEPT !.pc = "enqueue"]
      BY <2>4 DEF OnIssueAssigned, Move, IInv, TypeOK
    <3> QED
      BY <2>1, <2>2, <3>1
  <2> QED
    BY <2>3, <2>4
<1>5. /\ p \in Ops /\ Sound(p, users, known) /\ p.pc \in {"idle", "enqueue"}
      /\ \A x, i : Starting(o, x, i) => Starting(p, x, i) \/ x \notin agents \/ mishaps' > 0
  <2>1. CASE p = Idle
    BY <1>1, <1>4, <2>1, IdleSound DEF Starting
  <2>2. CASE p = [o EXCEPT !.pc = "enqueue"]
    <3>1. p \in Ops /\ p.pc = "enqueue" /\ p.target = o.target /\ p.issue = o.issue /\ p.seen = o.seen
      BY <1>1, <2>2 DEF Ops
    <3> QED
      BY <1>1, <3>1 DEF Sound, Starting
  <2> QED
    BY <1>2, <2>1, <2>2
<1>6. TypeOK'
  BY <1>1, <1>2, <1>3, <1>5 DEF IInv, TypeOK, Move
<1>7. RowsRefer'
  BY <1>1 DEF IInv, RowsRefer, IsSquad
<1> QED
  BY <1>1, <1>2, <1>3, <1>5, <1>6, <1>7, QuietOK

LEMMA CreateRunOK ==
  ASSUME IInv, NEW h \in Handlers, CreateRun(h)
  PROVE  IInv'
<1> DEFINE o == op[h]
<1>1. /\ o.pc = "enqueue" /\ o \in Ops /\ o.issue \in Issues /\ Move(h, Idle)
      /\ UNCHANGED <<users, agents, known, leaders, formed, rosters, assignees, wrote, told,
                     overtaken, unseated, sent, mishaps>>
  BY DEF CreateRun, At, IInv, TypeOK, Sound, history
<1>2. /\ runs \subseteq runs'
      /\ o.target \in agents => <<o.target, o.issue>> \in runs'
      /\ \A r \in runs' : r \in runs \/ (r = <<o.target, o.issue>> /\ o.target \in agents)
  BY DEF CreateRun
<1>3. agents \subseteq Agents
  BY DEF IInv, TypeOK
<1>4. runs' \subseteq Agents \X Issues
  BY <1>1, <1>2, <1>3 DEF IInv, TypeOK
<1>5. TypeOK'
  BY <1>1, <1>4, IdleSound DEF IInv, TypeOK, Move
<1>6. \A r \in runs' : r[1] \in agents
  BY <1>2 DEF IInv, RowsRefer
<1>7. RowsRefer'
  BY <1>1, <1>2, <1>6 DEF IInv, RowsRefer, IsSquad
<1>8. mishaps' >= mishaps
  BY <1>1, BoundsAssumption DEF IInv, TypeOK
<1>9. /\ users' = users /\ agents' = agents /\ known' = known /\ overtaken' = overtaken
      /\ agents \subseteq known /\ known \subseteq users
      /\ \A i \in Issues : assignees'[i] = assignees[i]
      /\ \A r \in runs : r \in runs'
  BY <1>1, <1>2 DEF IInv
<1>10. \A x, i : Starting(op[h], x, i) => x \notin agents' \/ <<x, i>> \in runs'
  BY <1>1, <1>2 DEF Starting
<1> QED
  BY <1>1, <1>5, <1>7, <1>8, <1>9, <1>10, IdleSound, StepOK

LEMMA FailOK ==
  ASSUME IInv, NEW h \in Handlers, Fail(h)
  PROVE  IInv'
<1>1. Move(h, Idle) /\ mishaps < MaxMishaps /\ mishaps' = mishaps + 1 /\ UNCHANGED <<tables,
                                                                                     history, sent>>
  BY DEF Fail
<1>2. mishaps \in Nat /\ mishaps' \in 0 .. MaxMishaps /\ mishaps' > 0 /\ mishaps' >= mishaps
  BY <1>1, BoundsAssumption DEF IInv, TypeOK
<1>3. TypeOK'
  BY <1>1, <1>2, IdleSound DEF IInv, TypeOK, Move, tables, history
<1>4. RowsRefer' /\ UNCHANGED <<users, agents, known, assignees, runs, overtaken>>
  BY <1>1 DEF IInv, RowsRefer, IsSquad, tables, history
<1> QED
  BY <1>1, <1>2, <1>3, <1>4, IdleSound, QuietOK

------------------------------------------------------------------------------
(* The theorems.                                                           *)

LEMMA NextOK ==
  ASSUME IInv, [Next]_vars
  PROVE  IInv'
<1>1. ASSUME NEW h \in Handlers, Request(h)
      PROVE  IInv'
  BY <1>1, CreateAgentOK, DeleteAgentOK, CreateSquadOK, SetLeaderOK, DeleteSquadOK, UpdateIssueOK
     DEF Request
<1>2. ASSUME NEW h \in Handlers, Step(h)
      PROVE  IInv'
  BY <1>2, InsertAgentOK, DropAgentOK, AddSquadMemberOK, SetSquadLeaderOK, ListSquadMembersOK,
     RemoveSquadMemberOK, ValidateAssigneeOK, SaveIssueOK, ReadBackOK, OnIssueAssignedOK, CreateRunOK DEF Step
<1>3. CASE UNCHANGED vars
  <2>1. TypeOK' /\ RowsRefer'
    BY <1>3 DEF vars, IInv, TypeOK, RowsRefer, IsSquad
  <2> QED
    BY <1>3, <2>1, StillOK DEF vars
<1> QED
  BY <1>1, <1>2, <1>3, OnIssueAssignedOK, FailOK, WriteArtifactOK DEF Next

\* What requests remember of people, squads and issues stays true.
THEOREM SquadsInvariance == Spec => []IInv
<1>1. Init => IInv
  BY InitOK
<1>2. IInv /\ [Next]_vars => IInv'
  BY NextOK
<1> QED
  BY <1>1, <1>2, PTL DEF Spec

\* Every row and every request in progress has its type.
THEOREM SquadsTypeCorrect == Spec => []TypeOK
<1>1. IInv => TypeOK
  BY DEF IInv
<1> QED
  BY <1>1, SquadsInvariance, PTL

\* The references between agents, runs, artifacts, squads, rosters, issues
\* and users never dangle.
THEOREM NothingDangles == Spec => []RowsRefer
<1>1. IInv => RowsRefer
  BY DEF IInv
<1> QED
  BY <1>1, SquadsInvariance, PTL

\* Unless a request fails, no issue stays assigned to an agent that was
\* never started on it, except where the request that assigned the agent
\* read back the assignee of another.
THEOREM AgentsHear == Spec => []AgentHears
<1>1. IInv => AgentHears
  BY DEF IInv, AgentHears, Heard, Starting
<1> QED
  BY <1>1, SquadsInvariance, PTL

------------------------------------------------------------------------------
(* Leaders and rosters.                                                    *)

\* A request that is about to put u on the roster of s.
Seating(o, s, u) == o.pc \in {"roster", "enlist"} /\ o.squad = s /\ o.target = u

Seated(s) ==
  \/ leaders[s] = NoUser \/ leaders[s] \in rosters[s] \/ s \in unseated \/ mishaps > 0
  \/ \E h \in Handlers : Seating(op[h], s, leaders[s])

LEMMA SeatedMeans == LeaderEnlisted <=> \A s \in Squads : Seated(s)
  BY DEF LeaderEnlisted, Seated, Seating, Living, IsSquad

\* What a step of handler h has to show of each squad.
LEMMA SeatedStep ==
  ASSUME IInv, mishaps' \in Nat, LeaderEnlisted, NEW h \in Handlers, NEW o, Move(h, o),
         mishaps' >= mishaps,
         \A s \in Squads :
           \/ leaders'[s] = NoUser \/ leaders'[s] \in rosters'[s] \/ s \in unseated' \/ mishaps' > 0
           \/ Seating(o, s, leaders'[s])
           \/ /\ leaders'[s] = leaders[s]
              /\ leaders[s] \notin rosters[s] /\ s \notin unseated
              /\ ~Seating(op[h], s, leaders[s])
  PROVE  LeaderEnlisted'
<1>1. op'[h] = o /\ \A g \in Handlers \ {h} : op'[g] = op[g]
  BY DEF Move, IInv, TypeOK
<1>2. ASSUME NEW s \in Squads
      PROVE  Seated(s)'
  <2>1. CASE \/ leaders'[s] = NoUser \/ leaders'[s] \in rosters'[s] \/ s \in unseated' \/ mishaps' > 0
             \/ Seating(o, s, leaders'[s])
    BY <1>1, <2>1 DEF Seated
  <2>2. CASE /\ leaders'[s] = leaders[s] /\ leaders[s] # NoUser /\ ~(mishaps' > 0)
             /\ leaders[s] \notin rosters[s] /\ s \notin unseated
             /\ ~Seating(op[h], s, leaders[s])
    <3>1. ~(mishaps > 0)
      BY <2>2, BoundsAssumption DEF IInv, TypeOK
    <3>2. PICK g \in Handlers : Seating(op[g], s, leaders[s])
      BY <2>2, <3>1, SeatedMeans DEF Seated
    <3>3. Seating(op'[g], s, leaders'[s])
      BY <1>1, <2>2, <3>2
    <3> QED
      BY <3>3 DEF Seated
  <2> QED
    BY <2>1, <2>2
<1> QED
  BY <1>2, SeatedMeans DEF LeaderEnlisted, Seated, Seating, Living, IsSquad

\* A step that changes neither leaders nor rosters.
LEMMA SeatedQuiet ==
  ASSUME IInv, LeaderEnlisted, NEW h \in Handlers, NEW o, Move(h, o),
         UNCHANGED <<leaders, rosters, unseated>>, mishaps' \in Nat, mishaps' >= mishaps,
         \A s \in Squads : Seating(op[h], s, leaders[s]) /\ ~(mishaps' > 0) =>
           Seating(o, s, leaders[s]) \/ leaders[s] \in rosters[s]
  PROVE  LeaderEnlisted'
  BY SeatedStep

LEMMA SeatedRequest ==
  ASSUME IInv, LeaderEnlisted, NEW h \in Handlers, Request(h)
  PROVE  LeaderEnlisted'
<1>1. op[h] = Idle /\ \A s, u : ~Seating(op[h], s, u)
  <2>1. op[h] = Idle
    BY DEF Request, CreateAgent, DeleteAgent, CreateSquad, SetLeader, AddMember, RemoveMember,
       DeleteSquad, UpdateIssue, Begin
  <2> QED
    BY <2>1, IdleSound DEF Seating
<1>2. mishaps' = mishaps /\ mishaps \in Nat
  <2>1. mishaps' = mishaps
    BY DEF Request, CreateAgent, DeleteAgent, CreateSquad, SetLeader, AddMember, RemoveMember,
       DeleteSquad, UpdateIssue
  <2> QED
    BY <2>1, BoundsAssumption DEF IInv, TypeOK
<1>3. CASE \E u \in Users : CreateSquad(h, u)
  <2>1. PICK u \in Users : CreateSquad(h, u)
    BY <1>3
  <2> DEFINE o == [Idle EXCEPT !.pc = "enlist", !.squad = formed', !.target = u]
  <2>2. /\ Move(h, o) /\ leaders' = [leaders EXCEPT ![formed'] = u]
        /\ UNCHANGED <<rosters, unseated>>
    BY <2>1 DEF CreateSquad, history
  <2>3. o.pc = "enlist" /\ o.target = u /\ o.squad = formed'
    BY DEF Idle
  <2> HIDE DEF o
  <2>4. ASSUME NEW s \in Squads
        PROVE  Seating(o, s, leaders'[s]) \/ leaders'[s] = leaders[s]
    BY <2>2, <2>3 DEF Seating, IInv, TypeOK
  <2> QED
    BY <1>1, <1>2, <2>2, <2>4, SeatedStep
<1>4. CASE \E t \in Squads : DeleteSquad(h, t)
  <2>1. PICK t \in Squads : DeleteSquad(h, t)
    BY <1>4
  <2>2. /\ leaders' = [leaders EXCEPT ![t] = NoUser] /\ rosters' = [rosters EXCEPT ![t] = {}]
        /\ UNCHANGED <<unseated, op, mishaps>>
    BY <2>1 DEF DeleteSquad, history
  <2>3. \A s \in Squads : Seated(s) => Seated(s)'
    BY <2>2 DEF Seated, IInv, TypeOK
  <2> QED
    BY <2>3, SeatedMeans DEF LeaderEnlisted, Seated, Seating, Living, IsSquad
<1>5. CASE UNCHANGED <<leaders, rosters, unseated>> /\ \E o : Move(h, o)
  BY <1>1, <1>2, <1>5, SeatedQuiet
<1> QED
  BY <1>3, <1>4, <1>5 DEF Request, CreateAgent, DeleteAgent, SetLeader, AddMember, RemoveMember,
     UpdateIssue, tables, history

LEMMA SeatedOwnStep ==
  ASSUME IInv, LeaderEnlisted, NEW h \in Handlers, Step(h) \/ MistakeAgent(h) \/ Fail(h)
  PROVE  LeaderEnlisted'
<1>1. op[h] \in Ops /\ Sound(op[h], users, known) /\ mishaps \in Nat
  BY BoundsAssumption DEF IInv, TypeOK
<1>2. CASE Fail(h)
  <2>1. mishaps' > 0 /\ mishaps' \in Nat /\ mishaps' >= mishaps /\ Move(h, Idle)
    BY <1>1, <1>2 DEF Fail
  <2> QED
    BY <2>1, SeatedStep
<1>3. CASE AddSquadMember(h)
  <2>1. /\ op[h].pc = "enlist" /\ Move(h, Idle) /\ UNCHANGED <<leaders, unseated, mishaps>>
        /\ rosters' = IF IsSquad(op[h].squad)
                        THEN [rosters EXCEPT ![op[h].squad] = @ \union {op[h].target}] ELSE rosters
    BY <1>3 DEF AddSquadMember, At, history
  <2>2. ASSUME NEW s \in Squads, leaders[s] # NoUser
        PROVE  leaders[s] \in rosters'[s] \/ (leaders[s] \notin rosters[s] /\ ~Seating(op[h], s, leaders[s]))
    <3>1. CASE s = op[h].squad
      <4>1. rosters'[s] = rosters[s] \union {op[h].target}
        BY <2>1, <2>2, <3>1 DEF IsSquad, IInv, TypeOK
      <4> QED
        BY <4>1 DEF Seating
    <3>2. CASE s # op[h].squad
      BY <2>1, <3>2 DEF Seating, IInv, TypeOK
    <3> QED
      BY <3>1, <3>2
  <2> QED
    BY <1>1, <2>1, <2>2, SeatedStep
<1>4. CASE SetSquadLeader(h)
  <2>1. CASE Move(h, Idle) /\ UNCHANGED <<leaders, unseated>>
    <3>1. UNCHANGED <<rosters, mishaps>> /\ \A s \in Squads : ~Seating(op[h], s, leaders[s])
      BY <1>4 DEF SetSquadLeader, At, Seating
    <3> QED
      BY <1>1, <2>1, <3>1, SeatedQuiet
  <2>2. CASE /\ leaders' = [leaders EXCEPT ![op[h].squad] = op[h].target]
             /\ unseated' = unseated \ {op[h].squad}
             /\ Move(h, [op[h] EXCEPT !.pc = "roster"])
    <3> DEFINE p == [op[h] EXCEPT !.pc = "roster"]
    <3>1. p.pc = "roster" /\ p.squad = op[h].squad /\ p.target = op[h].target /\ Move(h, p)
      BY <1>1, <2>2 DEF Ops
    <3> HIDE DEF p
    <3>2. UNCHANGED <<rosters, mishaps>> /\ \A s \in Squads : ~Seating(op[h], s, leaders[s])
      BY <1>4 DEF SetSquadLeader, At, Seating
    <3>3. ASSUME NEW s \in Squads
          PROVE  \/ Seating(p, s, leaders'[s])
                 \/ leaders'[s] = leaders[s] /\ (s \in unseated => s \in unseated')
      BY <2>2, <3>1 DEF Seating, IInv, TypeOK
    <3> QED
      BY <1>1, <3>1, <3>2, <3>3, SeatedStep
  <2> QED
    BY <1>4, <2>1, <2>2 DEF SetSquadLeader
<1>5. CASE ListSquadMembers(h)
  <2>1. /\ op[h].pc = "roster" /\ UNCHANGED <<leaders, rosters, unseated, mishaps>>
        /\ op[h].squad \in Squads
        /\ \/ op[h].target \in rosters[op[h].squad] /\ Move(h, Idle)
           \/ Move(h, [op[h] EXCEPT !.pc = "enlist"])
    BY <1>1, <1>5 DEF ListSquadMembers, At, tables, history, Sound
  <2>2. CASE op[h].target \in rosters[op[h].squad] /\ Move(h, Idle)
    BY <1>1, <2>1, <2>2, SeatedQuiet DEF Seating
  <2>3. CASE Move(h, [op[h] EXCEPT !.pc = "enlist"])
    <3> DEFINE p == [op[h] EXCEPT !.pc = "enlist"]
    <3>1. p.pc = "enlist" /\ p.squad = op[h].squad /\ p.target = op[h].target /\ Move(h, p)
      BY <1>1, <2>3 DEF Ops
    <3> HIDE DEF p
    <3>2. \A s \in Squads : Seating(op[h], s, leaders[s]) => Seating(p, s, leaders[s])
      BY <3>1 DEF Seating
    <3> QED
      BY <1>1, <2>1, <3>1, <3>2, SeatedQuiet
  <2> QED
    BY <2>1, <2>2, <2>3
<1>6. CASE RemoveSquadMember(h)
  <2>1. /\ op[h].pc = "remove" /\ Move(h, Idle) /\ UNCHANGED <<leaders, mishaps>>
        /\ rosters' = [rosters EXCEPT ![op[h].squad] = @ \ {op[h].target}]
        /\ unseated' = IF leaders[op[h].squad] = op[h].target
                         THEN unseated \union {op[h].squad} ELSE unseated
    BY <1>6 DEF RemoveSquadMember, At
  <2>2. ASSUME NEW s \in Squads, leaders[s] \in rosters[s], leaders[s] \notin rosters'[s]
        PROVE  s \in unseated'
    BY <2>1, <2>2 DEF IInv, TypeOK
  <2>3. unseated \subseteq unseated' /\ \A s \in Squads : ~Seating(op[h], s, leaders[s])
    BY <2>1 DEF Seating
  <2> QED
    BY <1>1, <2>1, <2>2, <2>3, SeatedStep
<1>7. CASE \/ InsertAgent(h) \/ DropAgent(h) \/ ValidateAssignee(h) \/ SaveIssue(h) \/ ReadBack(h)
           \/ OnIssueAssigned(h) \/ CreateRun(h) \/ MistakeAgent(h)
  <2>1. op[h].pc \notin {"roster", "enlist"}
    BY <1>7 DEF InsertAgent, DropAgent, ValidateAssignee, SaveIssue, ReadBack, OnIssueAssigned,
       CreateRun, MistakeAgent, At
  <2>2. UNCHANGED <<leaders, rosters, unseated>>
    BY <1>7 DEF InsertAgent, DropAgent, ValidateAssignee, SaveIssue, ReadBack, OnIssueAssigned,
       CreateRun, MistakeAgent, tables, history
  <2>3. mishaps' \in Nat /\ mishaps' >= mishaps
    BY <1>1, <1>7 DEF InsertAgent, DropAgent, ValidateAssignee, SaveIssue, ReadBack, OnIssueAssigned,
       CreateRun, MistakeAgent
  <2>4. \E o : Move(h, o)
    BY <1>7 DEF InsertAgent, DropAgent, ValidateAssignee, SaveIssue, ReadBack, OnIssueAssigned,
       CreateRun, MistakeAgent
  <2> QED
    BY <2>1, <2>2, <2>3, <2>4, SeatedQuiet DEF Seating
<1> QED
  BY <1>2, <1>3, <1>4, <1>5, <1>6, <1>7 DEF Step

\* Unless a request fails, whoever leads a squad is on its roster or about to
\* be, except where a removal decided under an earlier leader struck.
THEOREM LeadersAreEnlisted == Spec => []LeaderEnlisted
<1>1. Init => LeaderEnlisted
  BY DEF Init, LeaderEnlisted, Living, IsSquad
<1>2. IInv /\ LeaderEnlisted /\ [Next]_vars => LeaderEnlisted'
  <2> SUFFICES ASSUME IInv, LeaderEnlisted, [Next]_vars
               PROVE  LeaderEnlisted'
    OBVIOUS
  <2>1. CASE UNCHANGED vars \/ \E r \in Agents \X Issues : WriteArtifact(r)
    <3>1. UNCHANGED <<leaders, rosters, unseated, op, mishaps>>
      BY <2>1 DEF vars, WriteArtifact, history
    <3> QED
      BY <3>1 DEF LeaderEnlisted, Living, IsSquad
  <2> QED
    BY <2>1, SeatedRequest, SeatedOwnStep DEF Next
<1> QED
  BY <1>1, <1>2, SquadsInvariance, PTL DEF Spec
==============================================================================
