----------------------------- MODULE Membership ------------------------------
(***************************************************************************)
(* Accounts, workspaces, invites and project roles: who belongs where, as  *)
(* backend/internal/auth, workspace and project decide it.  A request is a *)
(* few statements on the tables; requests of all servers interleave, and   *)
(* may fail between any two of their statements.                           *)
(*                                                                         *)
(* A user is identified by the email address (the column ignores case).    *)
(* Passwords, session tokens, names and codes are left out; nothing        *)
(* deletes users, workspaces or projects.                                  *)
(***************************************************************************)
EXTENDS Integers, FiniteSets

CONSTANTS
  Users,          \* email addresses, each of a user once registered
  NoUser,
  Handlers,       \* concurrent requests
  Keys, NoKey,    \* issue key prefixes of projects
  Requests,       \* bound: the requests that are sent
  MaxWorkspaces, MaxInvites, MaxProjects, MaxTokens,  \* bounds of the tables
  MaxRequests,    \* bound: how many requests are sent
  MaxMishaps      \* bound: requests that fail half-way

Workspaces == 1 .. MaxWorkspaces
Invites == 1 .. MaxInvites
Projects == 1 .. MaxProjects
Tokens == 1 .. MaxTokens

Kinds == {"register", "project", "enrol", "invite", "revoke", "redeem", "setrole", "token"}
Roles == {"owner", "member"}

ASSUME UsersAssumption == IsFiniteSet(Users) /\ NoUser \notin Users
ASSUME KeysAssumption == NoKey \notin Keys
ASSUME BoundsAssumption ==
  {MaxWorkspaces, MaxInvites, MaxProjects, MaxTokens, MaxRequests, MaxMishaps} \subseteq Nat
ASSUME RequestsAssumption == Requests \subseteq Kinds

VARIABLES
  users,     \* table users
  creators,  \* table workspaces: who created each
  members,   \* table members
  invites,   \* table workspace_invites
  projects,  \* table projects
  roles,     \* table project_members
  tokens,    \* table api_tokens
  op,        \* what each handler is doing, with its local variables
  sent,      \* how many requests have been sent
  mishaps    \* how many have failed

tables == <<users, creators, members, invites, projects, roles, tokens>>
vars == <<users, creators, members, invites, projects, roles, tokens, op, sent, mishaps>>

Invite == [ws : Workspaces \union {0}, email : Users \union {NoUser}, role : Roles,
           status : {"none", "pending", "accepted", "revoked"}]
NoInvite == [ws |-> 0, email |-> NoUser, role |-> "member", status |-> "none"]
Project == [ws : Workspaces \union {0}, key : Keys \union {NoKey}, by : Users \union {NoUser}]
NoProject == [ws |-> 0, key |-> NoKey, by |-> NoUser]
Token == [user : Users \union {NoUser}, status : {"none", "live", "revoked"}]

\* row: the identifier of the project or invite.
Idle == [pc |-> "idle", req |-> "none", user |-> NoUser, ws |-> 0, target |-> NoUser,
         role |-> "member", key |-> NoKey, row |-> 0]
Ops == [pc : {"idle", "user", "workspace", "add", "project", "lead", "find", "invite",
              "revoke", "accept", "list", "count"},
        req : Kinds \union {"none"}, user : Users \union {NoUser}, ws : Workspaces \union {0},
        target : Users \union {NoUser}, role : Roles, key : Keys \union {NoKey}, row : Nat]

TypeOK ==
  /\ users \subseteq Users
  /\ creators \in [Workspaces -> Users \union {NoUser}]
  /\ members \in [Workspaces -> [Users -> Roles \union {"none"}]]
  /\ invites \in [Invites -> Invite]
  /\ projects \in [Projects -> Project]
  /\ roles \in [Projects -> [Users -> Roles \union {"none"}]]
  /\ tokens \in [Tokens -> Token]
  /\ op \in [Handlers -> Ops]
  /\ sent \in 0 .. MaxRequests /\ mishaps \in 0 .. MaxMishaps

------------------------------------------------------------------------------
At(h, pc) == op[h].pc = pc
Move(h, o) == op' = [op EXCEPT ![h] = o]
Begin(h, req) ==
  /\ op[h] = Idle /\ req \in Requests
  /\ sent < MaxRequests /\ sent' = sent + 1

\* Identifiers are given out in order.
Fresh(w, used) == w \notin used /\ \A v \in 1 .. w - 1 : v \in used
Founded == {w \in Workspaces : creators[w] # NoUser}
Started == {p \in Projects : projects[p].ws # 0}
Invited == {i \in Invites : invites[i].status # "none"}

\* ListWorkspaceIDsForUser has no order: the first one may be any.
Homes(u) == {w \in Workspaces : members[w][u] # "none"}
Owners(w) == {u \in users : members[w][u] = "owner"}
\* resolveWorkspace and requireOwner; memberships are never deleted, so the
\* two reads are one.
Runs(u, w) == u \in users /\ members[w][u] = "owner"

------------------------------------------------------------------------------
(* Accounts.                                                               *)

Register(h, e) ==
  /\ Begin(h, "register")
  /\ e \notin users
  /\ Move(h, [Idle EXCEPT !.pc = "user", !.req = "register", !.user = e, !.target = e,
                          !.role = "owner"])
  /\ UNCHANGED <<tables, mishaps>>

\* The address may have been registered meanwhile.
CreateUser(h) ==
  LET o == op[h] IN
  /\ At(h, "user")
  /\ users' = users \union {o.user}
  /\ Move(h, IF o.user \in users THEN Idle ELSE [o EXCEPT !.pc = "workspace"])
  /\ UNCHANGED <<creators, members, invites, projects, roles, tokens, sent, mishaps>>

\* The default workspace, of Register and of CreateProject.
\* (Slip: the membership is left to be added later.)
CreateWorkspaceAlone(h) ==
  \E w \in Workspaces :
    /\ At(h, "workspace")
    /\ Fresh(w, Founded)
    /\ creators' = [creators EXCEPT ![w] = op[h].user]
    /\ Move(h, IF op[h].req = "project" THEN [op[h] EXCEPT !.pc = "project", !.ws = w] ELSE Idle)
    /\ UNCHANGED <<users, members, invites, projects, roles, tokens, sent, mishaps>>

CreateWorkspace(h) ==
  \E w \in Workspaces :
    /\ At(h, "workspace")
    /\ Fresh(w, Founded)
    /\ creators' = [creators EXCEPT ![w] = op[h].user]
    /\ Move(h, [op[h] EXCEPT !.pc = "add", !.ws = w])
    /\ UNCHANGED <<users, members, invites, projects, roles, tokens, sent, mishaps>>

\* AddMember of the store: a row, or the new role in the row there is.
AddMember(h) ==
  LET o == op[h] IN
  /\ At(h, "add")
  /\ members' = [members EXCEPT ![o.ws][o.target] = o.role]
  /\ Move(h, IF o.req = "project" THEN [o EXCEPT !.pc = "project"] ELSE Idle)
  /\ UNCHANGED <<users, creators, invites, projects, roles, tokens, sent, mishaps>>

\* Personal API tokens; verifying one writes the time of last use only.
IssueAPIToken(h, u, t) ==
  /\ Begin(h, "token")
  /\ u \in users
  /\ Fresh(t, {x \in Tokens : tokens[x].status # "none"})
  /\ tokens' = [tokens EXCEPT ![t] = [user |-> u, status |-> "live"]]
  /\ UNCHANGED <<users, creators, members, invites, projects, roles, op, mishaps>>

RevokeAPIToken(h, u, t) ==
  /\ Begin(h, "token")
  /\ tokens[t] = [user |-> u, status |-> "live"]
  /\ tokens' = [tokens EXCEPT ![t].status = "revoked"]
  /\ UNCHANGED <<users, creators, members, invites, projects, roles, op, mishaps>>

------------------------------------------------------------------------------
(* Projects.                                                               *)

CreateProject(h, u, key) ==
  LET o == [Idle EXCEPT !.req = "project", !.user = u, !.target = u, !.role = "owner",
                        !.key = key]
  IN
  /\ Begin(h, "project")
  /\ u \in users
  /\ \/ \E w \in Homes(u) : Move(h, [o EXCEPT !.pc = "project", !.ws = w])
     \/ Homes(u) = {} /\ Move(h, [o EXCEPT !.pc = "workspace"])
  /\ UNCHANGED <<tables, mishaps>>

\* The key is unique in the workspace.
InsertProject(h) ==
  LET o == op[h]
      taken == \E p \in Started :
                 projects[p].ws = o.ws /\ projects[p].key = o.key /\ o.key # NoKey
  IN
  /\ At(h, "project")
  /\ \/ taken /\ Move(h, Idle) /\ UNCHANGED projects
     \/ \E p \in Projects :
          /\ ~taken /\ Fresh(p, Started)
          /\ projects' = [projects EXCEPT ![p] = [ws |-> o.ws, key |-> o.key, by |-> o.user]]
          /\ Move(h, [o EXCEPT !.pc = "lead", !.row = p])
  /\ UNCHANGED <<users, creators, members, invites, roles, tokens, sent, mishaps>>

\* AddProjectMember of the store.  The user is looked up before, and users
\* are never deleted.
AddProjectMember(h) ==
  LET o == op[h] IN
  /\ At(h, "lead")
  /\ roles' = IF o.target \in users THEN [roles EXCEPT ![o.row][o.target] = o.role] ELSE roles
  /\ Move(h, Idle)
  /\ UNCHANGED <<users, creators, members, invites, projects, tokens, sent, mishaps>>

\* AddMember of the project service, by an owner of the project.
Enrol(h, u, p, e, role) ==
  /\ Begin(h, "enrol")
  /\ u \in users /\ roles[p][u] = "owner"
  /\ Move(h, [Idle EXCEPT !.pc = "lead", !.req = "enrol", !.user = u, !.target = e,
                          !.role = role, !.row = p])
  /\ UNCHANGED <<tables, mishaps>>

------------------------------------------------------------------------------
(* Invites.                                                                *)

SendInvite(h, u, w, e, role) ==
  /\ Begin(h, "invite")
  /\ Runs(u, w)
  /\ Move(h, [Idle EXCEPT !.pc = "find", !.req = "invite", !.user = u, !.ws = w,
                          !.target = e, !.role = role])
  /\ UNCHANGED <<tables, mishaps>>

\* (Slip: a role of another name counts as none.)
FindWithoutRole(h) ==
  LET o == op[h] IN
  /\ At(h, "find")
  /\ Move(h, [o EXCEPT !.pc = IF o.target \in users THEN "add" ELSE "invite", !.role = "none"])
  /\ UNCHANGED <<tables, sent, mishaps>>

\* A registered user joins at once.
FindInvitee(h) ==
  LET o == op[h] IN
  /\ At(h, "find")
  /\ Move(h, [o EXCEPT !.pc = IF o.target \in users THEN "add" ELSE "invite"])
  /\ UNCHANGED <<tables, sent, mishaps>>

\* One pending invite for an address in a workspace.
CreateInvite(h) ==
  LET o == op[h]
      pending == \E i \in Invites : /\ invites[i].status = "pending"
                                    /\ invites[i].ws = o.ws /\ invites[i].email = o.target
  IN
  /\ At(h, "invite")
  /\ \/ pending /\ UNCHANGED invites
     \/ \E i \in Invites :
          /\ ~pending /\ Fresh(i, Invited)
          /\ invites' = [invites EXCEPT ![i] = [ws |-> o.ws, email |-> o.target,
                                                role |-> o.role, status |-> "pending"]]
  /\ Move(h, Idle)
  /\ UNCHANGED <<users, creators, members, projects, roles, tokens, sent, mishaps>>

RevokeInvite(h, u, w, i) ==
  /\ Begin(h, "revoke")
  /\ Runs(u, w)
  /\ invites[i].ws = w
  /\ Move(h, [Idle EXCEPT !.pc = "revoke", !.req = "revoke", !.user = u, !.ws = w, !.row = i])
  /\ UNCHANGED <<tables, mishaps>>

Redeem(h, u, i) ==
  /\ Begin(h, "redeem")
  /\ u \in users
  /\ invites[i].status = "pending" /\ invites[i].email = u
  /\ Move(h, [Idle EXCEPT !.pc = "accept", !.req = "redeem", !.user = u, !.ws = invites[i].ws,
                          !.target = u, !.role = invites[i].role, !.row = i])
  /\ UNCHANGED <<tables, mishaps>>

\* (Slip: the invite is settled again.)
SettleAnyway(h) ==
  LET o == op[h] IN
  /\ o.pc \in {"accept", "revoke"}
  /\ invites' = [invites EXCEPT ![o.row].status = IF o.pc = "accept" THEN "accepted" ELSE "revoked"]
  /\ Move(h, IF o.pc = "accept" THEN [o EXCEPT !.pc = "add"] ELSE Idle)
  /\ UNCHANGED <<users, creators, members, projects, roles, tokens, sent, mishaps>>

\* One statement, on an invite that is still pending.
SetInviteStatus(h) ==
  LET o == op[h]
      pending == invites[o.row].status = "pending"
  IN
  /\ o.pc \in {"accept", "revoke"}
  /\ \/ ~pending /\ Move(h, Idle) /\ UNCHANGED invites
     \/ /\ pending
        /\ invites' = [invites EXCEPT ![o.row].status =
                         IF o.pc = "accept" THEN "accepted" ELSE "revoked"]
        /\ Move(h, IF o.pc = "accept" THEN [o EXCEPT !.pc = "add"] ELSE Idle)
  /\ UNCHANGED <<users, creators, members, projects, roles, tokens, sent, mishaps>>

------------------------------------------------------------------------------
(* Roles.                                                                  *)

SetRole(h, u, w, e, role) ==
  /\ Begin(h, "setrole")
  /\ Runs(u, w)
  /\ Move(h, [Idle EXCEPT !.pc = "list", !.req = "setrole", !.user = u, !.ws = w,
                          !.target = e, !.role = role])
  /\ UNCHANGED <<tables, mishaps>>

\* ListMembers.
FindMember(h) ==
  LET o == op[h]
      current == members[o.ws][o.target]
  IN
  /\ At(h, "list")
  /\ Move(h, IF current = "none" THEN Idle
             ELSE IF current = "owner" /\ o.role # "owner" THEN [o EXCEPT !.pc = "count"]
             ELSE [o EXCEPT !.pc = "add"])
  /\ UNCHANGED <<tables, sent, mishaps>>

\* CountMembersByRole.
CountOwners(h) ==
  LET o == op[h] IN
  /\ At(h, "count")
  /\ Move(h, IF Cardinality(Owners(o.ws)) <= 1 THEN Idle ELSE [o EXCEPT !.pc = "add"])
  /\ UNCHANGED <<tables, sent, mishaps>>

------------------------------------------------------------------------------
\* A statement fails, or the server stops: the request ends where it is.
Fail(h) ==
  /\ mishaps < MaxMishaps
  /\ op[h] # Idle
  /\ Move(h, Idle)
  /\ mishaps' = mishaps + 1
  /\ UNCHANGED <<tables, sent>>

Init ==
  /\ users = {}
  /\ creators = [w \in Workspaces |-> NoUser]
  /\ members = [w \in Workspaces |-> [u \in Users |-> "none"]]
  /\ invites = [i \in Invites |-> NoInvite]
  /\ projects = [p \in Projects |-> NoProject]
  /\ roles = [p \in Projects |-> [u \in Users |-> "none"]]
  /\ tokens = [t \in Tokens |-> [user |-> NoUser, status |-> "none"]]
  /\ op = [h \in Handlers |-> Idle]
  /\ sent = 0 /\ mishaps = 0

Request(h, u) ==
  \/ Register(h, u)
  \/ \E t \in Tokens : IssueAPIToken(h, u, t) \/ RevokeAPIToken(h, u, t)
  \/ \E key \in Keys \union {NoKey} : CreateProject(h, u, key)
  \/ \E i \in Invites : Redeem(h, u, i) \/ \E w \in Workspaces : RevokeInvite(h, u, w, i)
  \/ \E e \in Users, role \in Roles :
       \/ \E w \in Workspaces : SendInvite(h, u, w, e, role) \/ SetRole(h, u, w, e, role)
       \/ \E p \in Projects : Enrol(h, u, p, e, role)

Step(h) ==
  \/ CreateUser(h) \/ CreateWorkspace(h) \/ AddMember(h)
  \/ InsertProject(h) \/ AddProjectMember(h)
  \/ FindInvitee(h) \/ CreateInvite(h) \/ SetInviteStatus(h)
  \/ FindMember(h) \/ CountOwners(h)

Next == \E h \in Handlers : (\E u \in Users : Request(h, u)) \/ Step(h) \/ Fail(h)

Spec == Init /\ [][Next]_vars

------------------------------------------------------------------------------
(* Properties.                                                             *)

\* An invite lets its addressee in once: whoever is about to join by it has
\* accepted it, alone, and nobody joins by one that was revoked meanwhile.
OneJoinPerInvite ==
  \A h \in Handlers : At(h, "add") /\ op[h].req = "redeem" =>
    /\ invites[op[h].row] = [ws |-> op[h].ws, email |-> op[h].user, role |-> op[h].role,
                             status |-> "accepted"]
    /\ \A g \in Handlers \ {h} : ~(At(g, "add") /\ op[g].req = "redeem" /\ op[g].row = op[h].row)

\* A project is in a workspace of the user who created it, also when the
\* request that made both failed half-way.
CreatorInside == \A p \in Started : members[projects[p].ws][projects[p].by] # "none"

\* Whoever has registered has a workspace, unless a request failed.
EveryoneHasAHome ==
  \A u \in users :
    \/ Homes(u) # {}
    \/ mishaps > 0
    \/ \E h \in Handlers : op[h].req = "register" /\ op[h].user = u /\ op[h].pc \in {"workspace", "add"}

\* Accepted and revoked invites stay so, and so do revoked tokens.
Settled ==
  [][/\ \A i \in Invites : invites[i].status \in {"accepted", "revoked"} => invites'[i] = invites[i]
     /\ \A t \in Tokens : tokens[t].status = "revoked" => tokens'[t] = tokens[t]]_vars
==============================================================================
