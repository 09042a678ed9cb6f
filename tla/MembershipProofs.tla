-------------------------- MODULE MembershipProofs ---------------------------
(***************************************************************************)
(* Invites, homes and roles are kept for any number of users and requests, *)
(* any tables and any number of failures.                                  *)
(*                                                                         *)
(* The argument: what a request remembers of rows stays true, because      *)
(* rows are never deleted and the only statement that settles an invite    *)
(* tests that it is pending (Sound); so of the requests that accept an     *)
(* invite only one gets to join.                                           *)
(***************************************************************************)
EXTENDS Membership, TLAPS

\* What the local variables of a request say of the tables.
Joins(o) == o.pc = "add" /\ o.req = "redeem"

Sound(o, mem, inv) ==
  /\ o.pc \in {"user", "workspace"} \/ (o.req \in {"register", "project"} /\ o.pc = "add") =>
       o.user \in Users /\ o.target = o.user
  /\ o.pc \in {"add", "find", "invite", "list", "count"} => o.ws \in Workspaces /\ o.target \in Users
  /\ o.pc = "user" => o.req = "register"
  /\ o.pc = "workspace" => o.req \in {"register", "project"}
  /\ o.pc \in {"find", "invite"} => o.req = "invite"
  /\ o.pc \in {"list", "count"} => o.req = "setrole"
  /\ o.pc = "project" => /\ o.req = "project" /\ o.ws \in Workspaces /\ o.user \in Users
                         /\ o.target \in Users
                         /\ mem[o.ws][o.user] # "none"
  /\ o.pc = "lead" => o.row \in Projects /\ o.target \in Users
  /\ o.pc \in {"accept", "revoke"} => o.row \in Invites /\ inv[o.row].status # "none"
  /\ o.pc = "accept" =>
       /\ o.req = "redeem" /\ o.target = o.user /\ o.user \in Users /\ o.ws \in Workspaces
       /\ inv[o.row].ws = o.ws /\ inv[o.row].email = o.user /\ inv[o.row].role = o.role
  /\ o.pc = "revoke" => o.req = "revoke"
  /\ Joins(o) => /\ o.row \in Invites
                 /\ inv[o.row] = [ws |-> o.ws, email |-> o.user, role |-> o.role,
                                      status |-> "accepted"]

RowsSound ==
  /\ \A i \in Invites : invites[i].status = "none" => invites[i].ws = 0
  /\ \A i \in Invited : invites[i].ws \in Workspaces /\ invites[i].email \in Users
  /\ \A p \in Started : projects[p].ws \in Workspaces /\ projects[p].by \in Users

Alone ==
  \A g, h \in Handlers : Joins(op[g]) /\ Joins(op[h]) /\ op[g].row = op[h].row => g = h

IInv ==
  /\ TypeOK /\ RowsSound /\ Alone /\ CreatorInside /\ EveryoneHasAHome
  /\ \A h \in Handlers : Sound(op[h], members, invites)

LEMMA InitOK ==
  ASSUME Init
  PROVE  IInv
<1>1. Idle \in Ops /\ Idle.pc = "idle" /\ Idle.req = "none"
  BY DEF Idle, Ops, Roles
<1>2. NoInvite \in Invite /\ NoProject \in Project
  BY DEF NoInvite, NoProject, Invite, Project, Roles
<1>3. TypeOK
  BY <1>1, <1>2, BoundsAssumption DEF Init, TypeOK, Token
<1>4. Invited = {} /\ Started = {} /\ \A i \in Invites : invites[i].ws = 0
  BY DEF Init, Invited, Started, NoInvite, NoProject
<1>5. \A h \in Handlers : Sound(op[h], members, invites) /\ ~Joins(op[h])
  BY <1>1 DEF Init, Sound, Joins
<1> QED
  BY <1>3, <1>4, <1>5 DEF Init, IInv, RowsSound, Alone, CreatorInside, EveryoneHasAHome

------------------------------------------------------------------------------
(* Steps.                                                                  *)

\* Memberships and invites stay, and settled invites do not change.
Grows ==
  /\ \A w \in Workspaces, u \in Users : members[w][u] # "none" => members'[w][u] # "none"
  /\ \A i \in Invites : invites[i].status # "none" =>
       /\ invites'[i].ws = invites[i].ws /\ invites'[i].email = invites[i].email
       /\ invites'[i].role = invites[i].role /\ invites'[i].status # "none"
       /\ invites[i].status = "accepted" => invites'[i] = invites[i]

LEMMA OthersSound ==
  ASSUME IInv, Grows, NEW g \in Handlers
  PROVE  Sound(op[g], members', invites')
<1>1. Sound(op[g], members, invites) /\ op[g] \in Ops
  BY DEF IInv, TypeOK
<1> DEFINE o == op[g]
<1>2. o.pc = "project" => members'[o.ws][o.user] # "none"
  BY <1>1 DEF Sound, Grows
<1>3. o.pc \in {"accept", "revoke"} => invites'[o.row].status # "none"
  BY <1>1 DEF Sound, Grows
<1>4. o.pc = "accept" => invites'[o.row].ws = o.ws /\ invites'[o.row].email = o.user
                         /\ invites'[o.row].role = o.role
  BY <1>1 DEF Sound, Grows
<1>5. Joins(o) => invites'[o.row] = invites[o.row]
  BY <1>1 DEF Sound, Grows
<1> QED
  BY <1>1, <1>2, <1>3, <1>4, <1>5 DEF Sound

Registering(o, u) == o.req = "register" /\ o.user = u /\ o.pc \in {"workspace", "add"}
Homed(u, mem) == \E w \in Workspaces : mem[w][u] # "none"

\* What a step of handler h has to show, if o is what it does next.
LEMMA StepOK ==
  ASSUME IInv, TypeOK', Grows, NEW h \in Handlers, NEW o \in Ops, Move(h, o),
         Sound(o, members', invites'),
         Joins(o) => \A g \in Handlers \ {h} : Joins(op[g]) => op[g].row # o.row,
         \A u \in users' : u \in users \/ Registering(o, u),
         \A u \in Users : Registering(op[h], u) =>
             Registering(o, u) \/ mishaps' > 0 \/ Homed(u, members'),
         mishaps' >= mishaps,
         \A i \in Invites : invites'[i].status # "none" =>
             invites[i].status # "none" \/ (invites'[i].ws \in Workspaces /\ invites'[i].email \in Users),
         \A i \in Invites : invites'[i].status = "none" => invites'[i] = invites[i],
         \A p \in Projects : \/ projects'[p] = projects[p]
                             \/ /\ projects'[p].ws \in Workspaces /\ projects'[p].by \in Users
                                /\ members'[projects'[p].ws][projects'[p].by] # "none"
  PROVE  IInv'
<1>1. op' = [op EXCEPT ![h] = o] /\ op'[h] = o /\ \A g \in Handlers \ {h} : op'[g] = op[g]
  BY DEF Move, IInv, TypeOK
<1>2. \A g \in Handlers : Sound(op'[g], members', invites')
  BY <1>1, OthersSound
<1>3. Alone'
  BY <1>1 DEF IInv, Alone
<1>4. RowsSound'
  BY DEF IInv, RowsSound, Invited, Started, Grows
<1>5. CreatorInside'
  BY <1>4 DEF IInv, RowsSound, CreatorInside, Started, Grows
<1>6. EveryoneHasAHome'
  <2> SUFFICES ASSUME NEW u \in users', ~(mishaps' > 0), ~Homed(u, members')
               PROVE  \E g \in Handlers : Registering(op'[g], u)
    BY DEF EveryoneHasAHome, Homed, Homes, Registering
  <2>1. mishaps \in Nat /\ mishaps' \in Nat /\ ~(mishaps > 0) /\ u \in Users
    BY BoundsAssumption DEF IInv, TypeOK
  <2>2. CASE u \in users
    <3>1. ~Homed(u, members)
      BY <2>1 DEF Grows, Homed
    <3>2. PICK g \in Handlers : Registering(op[g], u)
      BY <2>1, <2>2, <3>1 DEF IInv, EveryoneHasAHome, Homes, Homed, Registering
    <3>3. Registering(op'[g], u)
      BY <1>1, <2>1, <3>2
    <3> QED
      BY <3>3
  <2>3. CASE u \notin users
    BY <1>1, <2>3
  <2> QED
    BY <2>2, <2>3
<1> QED
  BY <1>2, <1>3, <1>4, <1>5, <1>6 DEF IInv

\* A step that adds no user, invite or project.
LEMMA WriteOK ==
  ASSUME IInv, TypeOK', Grows, NEW h \in Handlers, NEW o \in Ops, Move(h, o),
         UNCHANGED <<users, invites, projects, mishaps>>, Sound(o, members', invites'), ~Joins(o),
         \A u \in Users : Registering(op[h], u) => Registering(o, u) \/ Homed(u, members')
  PROVE  IInv'
<1>1. mishaps' >= mishaps
  BY BoundsAssumption DEF IInv, TypeOK
<1>2. /\ users' = users /\ invites' = invites /\ projects' = projects
  OBVIOUS
<1> QED
  BY <1>1, <1>2, StepOK

\* A step that only reads the tables.
LEMMA ReadOK ==
  ASSUME IInv, NEW h \in Handlers, NEW o \in Ops, Move(h, o), UNCHANGED <<tables, mishaps>>,
         sent' \in 0 .. MaxRequests, Sound(o, members, invites), ~Joins(o),
         \A u \in Users : Registering(op[h], u) => Registering(o, u)
  PROVE  IInv'
<1>1. TypeOK'
  BY DEF IInv, TypeOK, tables, Move
<1>2. Grows /\ members' = members /\ invites' = invites /\ users' = users /\ projects' = projects
  BY DEF tables, Grows
<1>3. mishaps' = mishaps
  BY DEF tables
<1> QED
  BY <1>1, <1>2, <1>3, WriteOK

\* The beginning of a request.
LEMMA BeginOK ==
  ASSUME IInv, NEW h \in Handlers, NEW req, Begin(h, req)
  PROVE  /\ sent' \in 0 .. MaxRequests
         /\ req \in Kinds
         /\ \A u \in Users : ~Registering(op[h], u)
         /\ Idle \in Ops
<1>1. sent \in Nat /\ MaxRequests \in Nat
  BY BoundsAssumption DEF IInv, TypeOK
<1>2. Idle \in Ops
  BY DEF Idle, Ops, Roles
<1> QED
  BY <1>1, <1>2, RequestsAssumption DEF IInv, TypeOK, Begin, Registering, Idle

LEMMA Identifiers ==
  /\ Projects \subseteq Nat /\ Invites \subseteq Nat /\ Workspaces \subseteq Nat /\ Tokens \subseteq Nat
  BY BoundsAssumption DEF Projects, Invites, Workspaces, Tokens

LEMMA RegisterOK ==
  ASSUME IInv, NEW h \in Handlers, NEW e \in Users, Register(h, e)
  PROVE  IInv'
<1> DEFINE o == [Idle EXCEPT !.pc = "user", !.req = "register", !.user = e, !.target = e,
                             !.role = "owner"]
<1>1. Begin(h, "register") /\ Move(h, o) /\ UNCHANGED <<tables, mishaps>>
  BY DEF Register
<1>2. o \in Ops /\ o.pc = "user" /\ o.req = "register" /\ o.user = e /\ o.target = e
  BY <1>1, BeginOK DEF Ops, Idle, Kinds, Roles
<1>3. Sound(o, members, invites) /\ ~Joins(o)
  BY <1>2 DEF Sound, Joins
<1> QED
  BY <1>1, <1>2, <1>3, BeginOK, ReadOK

LEMMA CreateProjectOK ==
  ASSUME IInv, NEW h \in Handlers, NEW u \in Users, NEW key \in Keys \union {NoKey},
         CreateProject(h, u, key)
  PROVE  IInv'
<1> DEFINE o == [Idle EXCEPT !.req = "project", !.user = u, !.target = u, !.role = "owner",
                             !.key = key]
<1>1. Begin(h, "project") /\ UNCHANGED <<tables, mishaps>>
  BY DEF CreateProject
<1>2. o \in Ops /\ o.req = "project" /\ o.user = u /\ o.target = u
  BY <1>1, BeginOK DEF Ops, Idle, Kinds, Roles
<1>3. ASSUME NEW w \in Homes(u), Move(h, [o EXCEPT !.pc = "project", !.ws = w])
      PROVE  IInv'
  <2> DEFINE p == [o EXCEPT !.pc = "project", !.ws = w]
  <2>1. p \in Ops /\ p.pc = "project" /\ p.req = "project" /\ p.ws = w /\ p.user = u
        /\ p.target = u
    BY <1>2 DEF Ops, Homes
  <2>2. Sound(p, members, invites) /\ ~Joins(p)
    BY <2>1 DEF Sound, Joins, Homes
  <2> QED
    BY <1>1, <1>3, <2>1, <2>2, BeginOK, ReadOK
<1>4. ASSUME Move(h, [o EXCEPT !.pc = "workspace"])
      PROVE  IInv'
  <2> DEFINE p == [o EXCEPT !.pc = "workspace"]
  <2>1. p \in Ops /\ p.pc = "workspace" /\ p.req = "project" /\ p.user = u /\ p.target = u
    BY <1>2 DEF Ops
  <2>2. Sound(p, members, invites) /\ ~Joins(p)
    BY <2>1 DEF Sound, Joins
  <2> QED
    BY <1>1, <1>4, <2>1, <2>2, BeginOK, ReadOK
<1> QED
  BY <1>3, <1>4 DEF CreateProject

LEMMA EnrolOK ==
  ASSUME IInv, NEW h \in Handlers, NEW u \in Users, NEW p \in Projects, NEW e \in Users,
         NEW role \in Roles, Enrol(h, u, p, e, role)
  PROVE  IInv'
<1> DEFINE o == [Idle EXCEPT !.pc = "lead", !.req = "enrol", !.user = u, !.target = e,
                             !.role = role, !.row = p]
<1>1. Begin(h, "enrol") /\ Move(h, o) /\ UNCHANGED <<tables, mishaps>>
  BY DEF Enrol
<1>2. o \in Ops /\ o.pc = "lead" /\ o.req = "enrol" /\ o.target = e /\ o.row = p
  BY <1>1, BeginOK, Identifiers DEF Ops, Idle, Kinds
<1>3. Sound(o, members, invites) /\ ~Joins(o)
  BY <1>2 DEF Sound, Joins
<1> QED
  BY <1>1, <1>2, <1>3, BeginOK, ReadOK

LEMMA SendInviteOK ==
  ASSUME IInv, NEW h \in Handlers, NEW u \in Users, NEW w \in Workspaces, NEW e \in Users,
         NEW role \in Roles, SendInvite(h, u, w, e, role)
  PROVE  IInv'
<1> DEFINE o == [Idle EXCEPT !.pc = "find", !.req = "invite", !.user = u, !.ws = w,
                             !.target = e, !.role = role]
<1>1. Begin(h, "invite") /\ Move(h, o) /\ UNCHANGED <<tables, mishaps>>
  BY DEF SendInvite
<1>2. o \in Ops /\ o.pc = "find" /\ o.req = "invite" /\ o.target = e /\ o.ws = w
  BY <1>1, BeginOK DEF Ops, Idle, Kinds
<1>3. Sound(o, members, invites) /\ ~Joins(o)
  BY <1>2 DEF Sound, Joins
<1> QED
  BY <1>1, <1>2, <1>3, BeginOK, ReadOK

LEMMA SetRoleOK ==
  ASSUME IInv, NEW h \in Handlers, NEW u \in Users, NEW w \in Workspaces, NEW e \in Users,
         NEW role \in Roles, SetRole(h, u, w, e, role)
  PROVE  IInv'
<1> DEFINE o == [Idle EXCEPT !.pc = "list", !.req = "setrole", !.user = u, !.ws = w,
                             !.target = e, !.role = role]
<1>1. Begin(h, "setrole") /\ Move(h, o) /\ UNCHANGED <<tables, mishaps>>
  BY DEF SetRole
<1>2. o \in Ops /\ o.pc = "list" /\ o.req = "setrole" /\ o.target = e /\ o.ws = w
  BY <1>1, BeginOK DEF Ops, Idle, Kinds
<1>3. Sound(o, members, invites) /\ ~Joins(o)
  BY <1>2 DEF Sound, Joins
<1> QED
  BY <1>1, <1>2, <1>3, BeginOK, ReadOK

LEMMA RevokeInviteOK ==
  ASSUME IInv, NEW h \in Handlers, NEW u \in Users, NEW w \in Workspaces, NEW i \in Invites,
         RevokeInvite(h, u, w, i)
  PROVE  IInv'
<1> DEFINE o == [Idle EXCEPT !.pc = "revoke", !.req = "revoke", !.user = u, !.ws = w, !.row = i]
<1>1. Begin(h, "revoke") /\ Move(h, o) /\ UNCHANGED <<tables, mishaps>> /\ invites[i].ws = w
  BY DEF RevokeInvite
<1>2. o \in Ops /\ o.pc = "revoke" /\ o.req = "revoke" /\ o.row = i
  BY <1>1, BeginOK, Identifiers DEF Ops, Idle, Kinds
<1>3. invites[i].status # "none"
  BY <1>1 DEF IInv, RowsSound, Workspaces
<1>4. Sound(o, members, invites) /\ ~Joins(o)
  BY <1>2, <1>3 DEF Sound, Joins
<1> QED
  BY <1>1, <1>2, <1>4, BeginOK, ReadOK

LEMMA RedeemOK ==
  ASSUME IInv, NEW h \in Handlers, NEW u \in Users, NEW i \in Invites, Redeem(h, u, i)
  PROVE  IInv'
<1> DEFINE o == [Idle EXCEPT !.pc = "accept", !.req = "redeem", !.user = u, !.ws = invites[i].ws,
                             !.target = u, !.role = invites[i].role, !.row = i]
<1>1. /\ Begin(h, "redeem") /\ Move(h, o) /\ UNCHANGED <<tables, mishaps>>
      /\ invites[i].status = "pending" /\ invites[i].email = u
  BY DEF Redeem
<1>2. invites[i] \in Invite /\ invites[i].ws \in Workspaces
  BY <1>1 DEF IInv, TypeOK, RowsSound, Invited
<1>3. /\ o \in Ops /\ o.pc = "accept" /\ o.req = "redeem" /\ o.row = i /\ o.user = u
      /\ o.target = u /\ o.ws = invites[i].ws /\ o.role = invites[i].role
  BY <1>1, <1>2, BeginOK, Identifiers DEF Ops, Idle, Kinds, Invite
<1>4. Sound(o, members, invites) /\ ~Joins(o)
  BY <1>1, <1>2, <1>3 DEF Sound, Joins
<1> QED
  BY <1>1, <1>3, <1>4, BeginOK, ReadOK

------------------------------------------------------------------------------
(* The statements of requests.                                             *)

LEMMA CreateUserOK ==
  ASSUME IInv, NEW h \in Handlers, CreateUser(h)
  PROVE  IInv'
<1> DEFINE o == op[h]
           p == IF o.user \in users THEN Idle ELSE [o EXCEPT !.pc = "workspace"]
<1>1. /\ o \in Ops /\ o.pc = "user" /\ o.req = "register" /\ o.user \in Users /\ o.target = o.user
      /\ Idle \in Ops
  BY DEF IInv, TypeOK, CreateUser, At, Sound, Idle, Ops, Roles
<1>2. p \in Ops /\ Move(h, p) /\ ~Joins(p)
  BY <1>1 DEF CreateUser, Ops, Idle, Joins
<1>3. TypeOK'
  BY <1>1, <1>2 DEF CreateUser, IInv, TypeOK, Move
<1>4. Sound(p, members', invites')
  BY <1>1 DEF Sound, Idle, Ops, Joins
<1>5. \A u \in users' : u \in users \/ Registering(p, u)
  BY <1>1 DEF CreateUser, Registering, Ops
<1>6. \A u \in Users : ~Registering(o, u)
  BY <1>1 DEF Registering
<1>7. Grows /\ mishaps' = mishaps /\ invites' = invites /\ projects' = projects /\ mishaps \in Nat
  BY BoundsAssumption DEF Grows, CreateUser, IInv, TypeOK
<1>8. /\ mishaps' >= mishaps
      /\ \A i \in Invites : invites'[i] = invites[i]
      /\ \A i \in Projects : projects'[i] = projects[i]
  BY <1>7
<1> HIDE DEF p
<1> QED
  BY <1>2, <1>3, <1>4, <1>5, <1>6, <1>7, <1>8, StepOK

LEMMA CreateWorkspaceOK ==
  ASSUME IInv, NEW h \in Handlers, CreateWorkspace(h)
  PROVE  IInv'
<1> DEFINE o == op[h]
<1>1. PICK w \in Workspaces : /\ creators' = [creators EXCEPT ![w] = o.user]
                              /\ Move(h, [o EXCEPT !.pc = "add", !.ws = w])
                              /\ UNCHANGED <<users, members, invites, projects, roles, tokens, sent, mishaps>>
                              /\ o.pc = "workspace"
  BY DEF CreateWorkspace, At
<1> DEFINE p == [o EXCEPT !.pc = "add", !.ws = w]
<1>2. o \in Ops /\ o.req \in {"register", "project"} /\ o.user \in Users /\ o.target = o.user
  BY <1>1 DEF IInv, TypeOK, Sound
<1>3. p \in Ops /\ p.pc = "add" /\ p.ws = w /\ p.req = o.req /\ p.user = o.user /\ p.target = o.target
  BY <1>2 DEF Ops
<1>4. Sound(p, members', invites') /\ ~Joins(p)
  BY <1>2, <1>3 DEF Sound, Joins
<1>5. TypeOK'
  BY <1>1, <1>2, <1>3 DEF IInv, TypeOK, Move
<1>6. Grows
  BY <1>1 DEF Grows, IInv, TypeOK
<1>7. \A u \in Users : Registering(o, u) => Registering(p, u)
  BY <1>3 DEF Registering
<1>8. Move(h, p) /\ UNCHANGED <<users, invites, projects, mishaps>>
  BY <1>1
<1> HIDE DEF p
<1> QED
  BY <1>3, <1>4, <1>5, <1>6, <1>7, <1>8, WriteOK

LEMMA AddMemberOK ==
  ASSUME IInv, NEW h \in Handlers, AddMember(h)
  PROVE  IInv'
<1> DEFINE o == op[h]
           p == IF o.req = "project" THEN [o EXCEPT !.pc = "project"] ELSE Idle
<1>1. /\ o \in Ops /\ o.pc = "add" /\ o.ws \in Workspaces /\ o.target \in Users
      /\ o.req \in {"register", "project"} => o.user \in Users /\ o.target = o.user
      /\ Idle \in Ops /\ o.role \in Roles
  BY DEF IInv, TypeOK, AddMember, At, Sound, Idle, Ops, Roles
<1>2. /\ members' = [members EXCEPT ![o.ws][o.target] = o.role]
      /\ Move(h, p)
      /\ UNCHANGED <<users, creators, invites, projects, roles, tokens, sent, mishaps>>
  BY DEF AddMember
<1>3. p \in Ops /\ ~Joins(p)
  BY <1>1 DEF Ops, Idle, Joins
<1>4. TypeOK'
  BY <1>1, <1>2, <1>3 DEF IInv, TypeOK, Move
<1>5. members'[o.ws][o.target] = o.role /\ o.role # "none"
  BY <1>1, <1>2 DEF IInv, TypeOK, Roles
<1>6. Grows
  BY <1>1, <1>2, <1>5 DEF Grows, IInv, TypeOK
<1>7. Sound(p, members', invites')
  BY <1>1, <1>5 DEF Sound, Idle, Ops, Joins
<1>8. \A u \in Users : Registering(o, u) => Homed(u, members')
  BY <1>1, <1>5 DEF Registering, Homed
<1> HIDE DEF p
<1> QED
  BY <1>2, <1>3, <1>4, <1>6, <1>7, <1>8, WriteOK

LEMMA TokensOK ==
  ASSUME IInv, NEW h \in Handlers, NEW u \in Users, NEW t \in Tokens,
         IssueAPIToken(h, u, t) \/ RevokeAPIToken(h, u, t)
  PROVE  IInv'
<1>1. sent' \in 0 .. MaxRequests /\ op' = op /\ mishaps' = mishaps
  BY BeginOK DEF IssueAPIToken, RevokeAPIToken
<1>2. UNCHANGED <<users, creators, members, invites, projects, roles>>
  BY DEF IssueAPIToken, RevokeAPIToken
<1>3. tokens' \in [Tokens -> Token]
  <2>1. tokens \in [Tokens -> Token]
    BY DEF IInv, TypeOK
  <2>2. CASE IssueAPIToken(h, u, t)
    BY <2>1, <2>2 DEF IssueAPIToken, Token
  <2>3. CASE RevokeAPIToken(h, u, t)
    BY <2>1, <2>3 DEF RevokeAPIToken, Token
  <2> QED
    BY <2>2, <2>3
<1>4. TypeOK'
  BY <1>1, <1>2, <1>3 DEF IInv, TypeOK
<1> QED
  BY <1>1, <1>2, <1>4 DEF IInv, RowsSound, Alone, CreatorInside, EveryoneHasAHome, Invited, Started,
     Homes

LEMMA IdleSound ==
  ASSUME NEW mem, NEW inv
  PROVE  Idle \in Ops /\ Sound(Idle, mem, inv) /\ ~Joins(Idle)
  BY DEF Idle, Ops, Roles, Sound, Joins

LEMMA InsertProjectOK ==
  ASSUME IInv, NEW h \in Handlers, InsertProject(h)
  PROVE  IInv'
<1> DEFINE o == op[h]
<1>1. /\ o \in Ops /\ o.req = "project" /\ o.ws \in Workspaces /\ o.user \in Users
      /\ members[o.ws][o.user] # "none" /\ o.target \in Users /\ o.pc = "project"
  BY DEF IInv, TypeOK, InsertProject, At, Sound, Ops
<1>2. UNCHANGED <<users, creators, invites, members, roles, tokens, sent, mishaps>>
  BY DEF InsertProject
<1>3. ASSUME Move(h, Idle), UNCHANGED projects
      PROVE  IInv'
  <2>1. TypeOK'
    BY <1>2, <1>3, IdleSound DEF IInv, TypeOK, Move
  <2>2. Grows
    BY <1>2 DEF Grows
  <2>3. \A u \in Users : ~Registering(op[h], u)
    BY <1>1 DEF Registering
  <2> QED
    BY <1>2, <1>3, <2>1, <2>2, <2>3, IdleSound, WriteOK
<1>4. ASSUME NEW p \in Projects, Fresh(p, Started),
             projects' = [projects EXCEPT ![p] = [ws |-> o.ws, key |-> o.key, by |-> o.user]],
             Move(h, [o EXCEPT !.pc = "lead", !.row = p])
      PROVE  IInv'
  <2> DEFINE q == [o EXCEPT !.pc = "lead", !.row = p]
  <2>1. q \in Ops /\ q.pc = "lead" /\ q.row = p /\ q.target = o.target /\ q.user = o.user
    BY <1>1, Identifiers DEF Ops
  <2>3. Sound(q, members', invites') /\ ~Joins(q)
    BY <1>1, <2>1 DEF Sound, Joins
  <2>4. [ws |-> o.ws, key |-> o.key, by |-> o.user] \in Project
    BY <1>1 DEF Project, Ops
  <2>5. TypeOK'
    BY <1>2, <1>4, <2>1, <2>4 DEF IInv, TypeOK, Move
  <2>6. Grows /\ mishaps' >= mishaps
    BY <1>2, BoundsAssumption DEF Grows, IInv, TypeOK
  <2>7. \A i \in Projects :
          \/ projects'[i] = projects[i]
          \/ /\ projects'[i].ws \in Workspaces /\ projects'[i].by \in Users
             /\ members'[projects'[i].ws][projects'[i].by] # "none"
    BY <1>1, <1>2, <1>4 DEF IInv, TypeOK
  <2>8. \A u \in Users : ~Registering(op[h], u)
    BY <1>1 DEF Registering
  <2>9. Move(h, q) /\ users' = users /\ invites' = invites
    BY <1>2, <1>4
  <2> HIDE DEF q
  <2> QED
    BY <2>1, <2>3, <2>5, <2>6, <2>7, <2>8, <2>9, StepOK
<1> QED
  BY <1>3, <1>4 DEF InsertProject

LEMMA AddProjectMemberOK ==
  ASSUME IInv, NEW h \in Handlers, AddProjectMember(h)
  PROVE  IInv'
<1>1. Move(h, Idle) /\ UNCHANGED <<users, creators, members, invites, projects, tokens, sent, mishaps>>
  BY DEF AddProjectMember
<1>2. /\ op[h] \in Ops /\ op[h].pc = "lead" /\ op[h].row \in Projects /\ op[h].target \in Users
  BY DEF AddProjectMember, At, IInv, TypeOK, Sound
<1>3. op[h].role \in Roles
  BY <1>2 DEF Ops
<1>4. roles' \in [Projects -> [Users -> Roles \union {"none"}]]
  BY <1>2, <1>3 DEF AddProjectMember, IInv, TypeOK
<1>5. TypeOK'
  BY <1>1, <1>4, IdleSound DEF IInv, TypeOK, Move
<1>6. Grows /\ \A u \in Users : ~Registering(op[h], u)
  BY <1>1, <1>2 DEF Grows, Registering
<1> QED
  BY <1>1, <1>5, <1>6, IdleSound, WriteOK

LEMMA FindInviteeOK ==
  ASSUME IInv, NEW h \in Handlers, FindInvitee(h)
  PROVE  IInv'
<1> DEFINE o == op[h]
           p == [o EXCEPT !.pc = IF o.target \in users THEN "add" ELSE "invite"]
<1>1. /\ o \in Ops /\ o.req = "invite" /\ o.pc = "find" /\ o.ws \in Workspaces /\ o.target \in Users
      /\ sent \in 0 .. MaxRequests
  BY DEF FindInvitee, At, IInv, TypeOK, Sound
<1>2. /\ p \in Ops /\ p.pc \in {"add", "invite"} /\ p.req = "invite"
      /\ p.ws = o.ws /\ p.target = o.target
  BY <1>1 DEF Ops
<1>3. Move(h, p) /\ UNCHANGED <<tables, sent, mishaps>>
  BY DEF FindInvitee
<1> HIDE DEF p
<1>4. Sound(p, members, invites) /\ ~Joins(p) /\ \A u \in Users : ~Registering(o, u)
  BY <1>1, <1>2 DEF Sound, Joins, Registering
<1> QED
  BY <1>1, <1>2, <1>3, <1>4, ReadOK

LEMMA FindMemberOK ==
  ASSUME IInv, NEW h \in Handlers, FindMember(h)
  PROVE  IInv'
<1> DEFINE o == op[h]
<1>1. /\ o \in Ops /\ o.req = "setrole" /\ o.pc = "list" /\ o.ws \in Workspaces /\ o.target \in Users
      /\ sent \in 0 .. MaxRequests
  BY DEF FindMember, At, IInv, TypeOK, Sound
<1>2. PICK p : /\ Move(h, p) /\ UNCHANGED <<tables, sent, mishaps>>
               /\ p \in {Idle, [o EXCEPT !.pc = "count"], [o EXCEPT !.pc = "add"]}
  BY DEF FindMember
<1>3. CASE p = Idle
  BY <1>1, <1>2, <1>3, IdleSound, ReadOK DEF Registering
<1>4. CASE p # Idle
  <2>1. /\ p \in Ops /\ p.pc \in {"count", "add"} /\ p.req = "setrole"
        /\ p.ws = o.ws /\ p.target = o.target
    BY <1>1, <1>2, <1>4 DEF Ops
  <2>2. Sound(p, members, invites) /\ ~Joins(p) /\ \A u \in Users : ~Registering(o, u)
    BY <1>1, <2>1 DEF Sound, Joins, Registering
  <2> QED
    BY <1>1, <1>2, <2>1, <2>2, ReadOK
<1> QED
  BY <1>3, <1>4

LEMMA CountOwnersOK ==
  ASSUME IInv, NEW h \in Handlers, CountOwners(h)
  PROVE  IInv'
<1> DEFINE o == op[h]
<1>1. /\ o \in Ops /\ o.req = "setrole" /\ o.pc = "count" /\ o.ws \in Workspaces /\ o.target \in Users
      /\ sent \in 0 .. MaxRequests
  BY DEF CountOwners, At, IInv, TypeOK, Sound
<1>2. PICK p : Move(h, p) /\ UNCHANGED <<tables, sent, mishaps>> /\ p \in {Idle, [o EXCEPT !.pc = "add"]}
  BY DEF CountOwners
<1>3. CASE p = Idle
  BY <1>1, <1>2, <1>3, IdleSound, ReadOK DEF Registering
<1>4. CASE p # Idle
  <2>1. p \in Ops /\ p.pc = "add" /\ p.req = "setrole" /\ p.ws = o.ws /\ p.target = o.target
    BY <1>1, <1>2, <1>4 DEF Ops
  <2>2. Sound(p, members, invites) /\ ~Joins(p) /\ \A u \in Users : ~Registering(o, u)
    BY <1>1, <2>1 DEF Sound, Joins, Registering
  <2> QED
    BY <1>1, <1>2, <2>1, <2>2, ReadOK
<1> QED
  BY <1>3, <1>4

LEMMA CreateInviteOK ==
  ASSUME IInv, NEW h \in Handlers, CreateInvite(h)
  PROVE  IInv'
<1> DEFINE o == op[h]
<1>1. /\ o \in Ops /\ o.req = "invite" /\ o.pc = "invite" /\ o.ws \in Workspaces /\ o.target \in Users
  BY DEF CreateInvite, At, IInv, TypeOK, Sound
<1>2. Move(h, Idle) /\ UNCHANGED <<users, creators, members, projects, roles, tokens, sent, mishaps>>
  BY DEF CreateInvite
<1>3. \A u \in Users : ~Registering(o, u)
  BY <1>1 DEF Registering
<1>4. CASE UNCHANGED invites
  <2>1. TypeOK' /\ Grows
    BY <1>2, <1>4, IdleSound DEF IInv, TypeOK, Move, Grows
  <2> QED
    BY <1>2, <1>3, <1>4, <2>1, IdleSound, WriteOK
<1>5. ASSUME NEW i \in Invites, Fresh(i, Invited),
             invites' = [invites EXCEPT ![i] = [ws |-> o.ws, email |-> o.target,
                                                role |-> o.role, status |-> "pending"]]
      PROVE  IInv'
  <2>1. invites[i].status = "none"
    BY <1>5 DEF Fresh, Invited
  <2>2. [ws |-> o.ws, email |-> o.target, role |-> o.role, status |-> "pending"] \in Invite
    BY <1>1 DEF Invite, Ops
  <2>3. TypeOK'
    BY <1>2, <1>5, <2>2, IdleSound DEF IInv, TypeOK, Move
  <2>4. Grows /\ mishaps' >= mishaps
    BY <1>2, <1>5, <2>1, BoundsAssumption DEF IInv, TypeOK, Grows
  <2>5. \A j \in Invites : \/ invites'[j] = invites[j]
                           \/ /\ invites'[j].ws \in Workspaces /\ invites'[j].email \in Users
                              /\ invites'[j].status = "pending"
    BY <1>1, <1>5 DEF IInv, TypeOK
  <2> QED
    BY <1>2, <1>3, <2>3, <2>4, <2>5, IdleSound, StepOK
<1> QED
  BY <1>4, <1>5 DEF CreateInvite

LEMMA SetInviteStatusOK ==
  ASSUME IInv, NEW h \in Handlers, SetInviteStatus(h)
  PROVE  IInv'
<1> DEFINE o == op[h]
<1>1. /\ o \in Ops /\ o.pc \in {"accept", "revoke"} /\ o.row \in Invites
      /\ Sound(o, members, invites)
  BY DEF SetInviteStatus, IInv, TypeOK, Sound
<1>2. UNCHANGED <<users, creators, members, projects, roles, tokens, sent, mishaps>>
  BY DEF SetInviteStatus
<1>3. \A u \in Users : ~Registering(o, u)
  BY <1>1 DEF Registering
<1>4. ASSUME Move(h, Idle), UNCHANGED invites
      PROVE  IInv'
  <2>1. TypeOK' /\ Grows
    BY <1>2, <1>4, IdleSound DEF IInv, TypeOK, Move, Grows
  <2> QED
    BY <1>2, <1>3, <1>4, <2>1, IdleSound, WriteOK
<1>5. ASSUME NEW status \in {"accepted", "revoked"}, NEW p, invites[o.row].status = "pending",
             invites' = [invites EXCEPT ![o.row].status = status], Move(h, p),
             \/ o.pc = "accept" /\ status = "accepted" /\ p = [o EXCEPT !.pc = "add"]
             \/ o.pc = "revoke" /\ p = Idle
      PROVE  IInv'
  <2>1. invites[o.row] \in Invite /\ invites'[o.row] = [invites[o.row] EXCEPT !.status = status]
        /\ \A i \in Invites \ {o.row} : invites'[i] = invites[i]
    BY <1>1, <1>5 DEF IInv, TypeOK
  <2>2. invites' \in [Invites -> Invite]
    BY <1>1, <1>5, <2>1 DEF IInv, TypeOK, Invite
  <2>3. p \in Ops
    BY <1>1, <1>5, IdleSound DEF Ops
  <2>4. TypeOK'
    BY <1>2, <1>5, <2>2, <2>3 DEF IInv, TypeOK, Move
  <2>5. Grows /\ mishaps' >= mishaps
    BY <1>2, <1>5, <2>1, BoundsAssumption DEF IInv, TypeOK, Grows, Invite
  <2>6. \A i \in Invites : /\ invites'[i].status = "none" => invites'[i] = invites[i]
                           /\ invites'[i].status # "none" => invites[i].status # "none"
    BY <1>5, <2>1 DEF Invite
  <2>7. /\ Sound(p, members', invites')
        /\ Joins(p) => \A g \in Handlers \ {h} : Joins(op[g]) => op[g].row # p.row
    <3>1. CASE p = Idle
      BY <3>1, IdleSound
    <3>2. CASE o.pc = "accept" /\ status = "accepted" /\ p = [o EXCEPT !.pc = "add"]
      <4>1. /\ p.pc = "add" /\ p.row = o.row /\ p.req = "redeem" /\ p.ws = o.ws /\ p.user = o.user
            /\ p.target = o.target /\ p.role = o.role
            /\ o.target = o.user /\ o.user \in Users /\ o.ws \in Workspaces
        BY <1>1, <3>2 DEF Ops, Sound
      <4>2. invites[o.row].ws = o.ws /\ invites[o.row].email = o.user /\ invites[o.row].role = o.role
        BY <1>1, <3>2 DEF Sound
      <4>3. invites'[o.row] = [ws |-> o.ws, email |-> o.user, role |-> o.role, status |-> "accepted"]
        BY <2>1, <3>2, <4>2 DEF Invite
      <4>4. Sound(p, members', invites')
        BY <1>1, <4>1, <4>3 DEF Sound, Joins
      <4>5. \A g \in Handlers \ {h} : Joins(op[g]) => invites[op[g].row].status = "accepted"
        <5> SUFFICES ASSUME NEW g \in Handlers, Joins(op[g])
                     PROVE  invites[op[g].row].status = "accepted"
          OBVIOUS
        <5>1. Sound(op[g], members, invites)
          BY DEF IInv
        <5> QED
          BY <5>1 DEF Sound
      <4> QED
        BY <1>5, <4>1, <4>4, <4>5
    <3> QED
      BY <1>5, <3>1, <3>2
  <2>8. users' = users /\ \A i \in Projects : projects'[i] = projects[i]
    BY <1>2
  <2> QED
    BY <1>3, <1>5, <2>3, <2>4, <2>5, <2>6, <2>7, <2>8, StepOK
<1>6. CASE invites[o.row].status # "pending"
  BY <1>4, <1>6 DEF SetInviteStatus
<1>7. CASE invites[o.row].status = "pending" /\ o.pc = "accept"
  <2>1. invites' = [invites EXCEPT ![o.row].status = "accepted"] /\ Move(h, [o EXCEPT !.pc = "add"])
    BY <1>7 DEF SetInviteStatus
  <2> QED
    BY <1>5, <1>7, <2>1
<1>8. CASE invites[o.row].status = "pending" /\ o.pc = "revoke"
  <2>1. invites' = [invites EXCEPT ![o.row].status = "revoked"] /\ Move(h, Idle)
    BY <1>8 DEF SetInviteStatus
  <2> QED
    BY <1>5, <1>8, <2>1
<1> QED
  BY <1>1, <1>6, <1>7, <1>8

LEMMA FailOK ==
  ASSUME IInv, NEW h \in Handlers, Fail(h)
  PROVE  IInv'
<1>1. Move(h, Idle) /\ mishaps' = mishaps + 1 /\ UNCHANGED <<tables, sent>> /\ mishaps < MaxMishaps
  BY DEF Fail
<1>2. mishaps \in Nat /\ mishaps' \in 0 .. MaxMishaps /\ mishaps' > 0 /\ mishaps' >= mishaps
  BY <1>1, BoundsAssumption DEF IInv, TypeOK
<1>3. TypeOK'
  BY <1>1, <1>2, IdleSound DEF IInv, TypeOK, Move, tables
<1>4. Grows /\ users' = users /\ invites' = invites /\ projects' = projects
  BY <1>1 DEF Grows, tables
<1>5. \A i \in Invites : invites'[i].status # "none" => invites[i].status # "none"
  BY <1>4
<1> QED
  BY <1>1, <1>2, <1>3, <1>4, <1>5, IdleSound, StepOK

------------------------------------------------------------------------------
(* The theorems.                                                           *)

LEMMA NextOK ==
  ASSUME IInv, [Next]_vars
  PROVE  IInv'
<1>1. CASE Next
  <2>1. PICK h \in Handlers : (\E u \in Users : Request(h, u)) \/ Step(h) \/ Fail(h)
    BY <1>1 DEF Next
  <2>2. ASSUME NEW u \in Users, Request(h, u)
        PROVE  IInv'
    BY <2>2, RegisterOK, TokensOK, CreateProjectOK, RedeemOK, RevokeInviteOK, SendInviteOK,
       SetRoleOK, EnrolOK DEF Request
  <2>3. CASE Step(h)
    BY <2>3, CreateUserOK, CreateWorkspaceOK, AddMemberOK, InsertProjectOK, AddProjectMemberOK,
       FindInviteeOK, CreateInviteOK, SetInviteStatusOK, FindMemberOK, CountOwnersOK DEF Step
  <2> QED
    BY <2>1, <2>2, <2>3, FailOK
<1>2. CASE UNCHANGED vars
  BY <1>2 DEF vars, IInv, TypeOK, RowsSound, Alone, CreatorInside, EveryoneHasAHome, Invited,
     Started, Homes, Sound, Joins, At
<1> QED
  BY <1>1, <1>2

\* What the requests remember of the tables stays true.
THEOREM MembershipInvariance == Spec => []IInv
<1>1. Init => IInv
  BY InitOK
<1>2. IInv /\ [Next]_vars => IInv'
  BY NextOK
<1> QED
  BY <1>1, <1>2, PTL DEF Spec

\* Every row and every request in progress has its type.
THEOREM MembershipTypeCorrect == Spec => []TypeOK
<1>1. IInv => TypeOK
  BY DEF IInv
<1> QED
  BY <1>1, MembershipInvariance, PTL

\* At most one request ever joins a workspace by an invite, and only by one
\* that was pending when it was accepted.
THEOREM InvitesAdmitOnce == Spec => []OneJoinPerInvite
<1>1. IInv => OneJoinPerInvite
  <2> SUFFICES ASSUME IInv, NEW h \in Handlers, Joins(op[h])
               PROVE  /\ invites[op[h].row] = [ws |-> op[h].ws, email |-> op[h].user,
                                               role |-> op[h].role, status |-> "accepted"]
                      /\ \A g \in Handlers \ {h} : Joins(op[g]) => op[g].row # op[h].row
    BY DEF OneJoinPerInvite, Joins, At
  <2>1. Sound(op[h], members, invites)
    BY DEF IInv
  <2> QED
    BY <2>1 DEF IInv, Alone, Sound
<1> QED
  BY <1>1, MembershipInvariance, PTL

\* The creator of a project is a member of its workspace.
THEOREM CreatorsAreInside == Spec => []CreatorInside
<1>1. IInv => CreatorInside
  BY DEF IInv
<1> QED
  BY <1>1, MembershipInvariance, PTL

\* Users have a workspace from the end of their registration on.
THEOREM UsersHaveHomes == Spec => []EveryoneHasAHome
<1>1. IInv => EveryoneHasAHome
  BY DEF IInv
<1> QED
  BY <1>1, MembershipInvariance, PTL

\* Answered invites and revoked tokens never come back.
THEOREM AnswersAreFinal == Spec => Settled
<1> DEFINE Kept == /\ \A i \in Invites : invites[i].status \in {"accepted", "revoked"} =>
                                           invites'[i] = invites[i]
                   /\ \A t \in Tokens : tokens[t].status = "revoked" => tokens'[t] = tokens[t]
<1>1. ASSUME IInv, NEW h \in Handlers, NEW u \in Users, Request(h, u)
      PROVE  Kept
  <2>1. invites' = invites
    BY <1>1 DEF Request, Register, IssueAPIToken, RevokeAPIToken, CreateProject, Redeem,
       RevokeInvite, SendInvite, SetRole, Enrol, tables
  <2>2. ASSUME NEW t \in Tokens, IssueAPIToken(h, u, t) \/ RevokeAPIToken(h, u, t)
        PROVE  \A x \in Tokens : tokens[x].status = "revoked" => tokens'[x] = tokens[x]
    BY <1>1, <2>2 DEF IssueAPIToken, RevokeAPIToken, Fresh, IInv, TypeOK
  <2>3. ASSUME \A t \in Tokens : ~IssueAPIToken(h, u, t) /\ ~RevokeAPIToken(h, u, t)
        PROVE  tokens' = tokens
    BY <1>1, <2>3 DEF Request, Register, CreateProject, Redeem, RevokeInvite, SendInvite, SetRole,
       Enrol, tables
  <2> QED
    BY <2>1, <2>2, <2>3
<1>2. ASSUME IInv, NEW h \in Handlers, Step(h)
      PROVE  Kept
  <2>1. tokens' = tokens
    BY <1>2 DEF Step, CreateUser, CreateWorkspace, AddMember, InsertProject, AddProjectMember,
       FindInvitee, CreateInvite, SetInviteStatus, FindMember, CountOwners, tables
  <2>2. CASE CreateInvite(h)
    BY <1>2, <2>1, <2>2 DEF CreateInvite, Fresh, Invited, IInv, TypeOK
  <2>3. CASE SetInviteStatus(h)
    BY <1>2, <2>1, <2>3 DEF SetInviteStatus, IInv, TypeOK
  <2>4. CASE ~CreateInvite(h) /\ ~SetInviteStatus(h)
    BY <1>2, <2>1, <2>4 DEF Step, CreateUser, CreateWorkspace, AddMember, InsertProject,
       AddProjectMember, FindInvitee, FindMember, CountOwners, tables
  <2> QED
    BY <2>2, <2>3, <2>4
<1>3. ASSUME IInv, [Next]_vars
      PROVE  [Kept]_vars
  <2>1. ASSUME NEW h \in Handlers, Fail(h)
        PROVE  Kept
    BY <2>1 DEF Fail, tables
  <2>2. CASE UNCHANGED vars
    BY <2>2
  <2> QED
    BY <1>1, <1>2, <1>3, <2>1, <2>2 DEF Next
<1>4. IInv /\ [Next]_vars => [Kept]_vars
  BY <1>3
<1> QED
  BY <1>4, MembershipInvariance, PTL DEF Spec, Settled
==============================================================================
