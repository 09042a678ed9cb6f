------------------------------- MODULE Squads --------------------------------
(***************************************************************************)
(* Who can be put in charge: agents, squads with their leader and roster,  *)
(* and the assignees of issues (backend/internal/squad, agent/service.go,  *)
(* agent/queue.go, and the assignee field of issue/service.go).  A request *)
(* is a few statements; requests interleave and may fail between any two.  *)
(*                                                                         *)
(* Names, descriptions and skills are left out.  What a run does is the    *)
(* concern of RunQueue; here it may have written an artifact.              *)
(***************************************************************************)
EXTENDS Integers, FiniteSets

CONSTANTS
  Humans,       \* users who can sign in
  Agents,       \* identifiers of the users that back agents
  NoUser,
  Members,      \* the humans who are members of the issues' project
  Issues, NoIssue,
  Handlers,     \* concurrent requests
  Requests,     \* bound: the requests that are sent
  MaxSquads,    \* bound of the table
  MaxRequests,  \* bound: how many requests are sent
  MaxMishaps    \* bound: requests that fail half-way

Squads == 1 .. MaxSquads
Users == Humans \union Agents
Kinds == {"agent", "drop", "squad", "leader", "member", "remove", "disband", "edit"}

ASSUME PeopleAssumption ==
  /\ NoUser \notin Users /\ Humans \intersect Agents = {} /\ Members \subseteq Humans
  /\ (Users \union {NoUser}) \intersect Squads = {}
ASSUME BoundsAssumption == {MaxSquads, MaxRequests, MaxMishaps} \subseteq Nat
ASSUME RequestsAssumption == Requests \subseteq Kinds /\ NoIssue \notin Issues

VARIABLES
  users,      \* table users
  agents,     \* table agents
  known,      \* the agents whose identifiers were ever given out
  leaders,    \* table squads: the leader of each, NoUser where there is none
  formed,     \* how many squads were ever made; identifiers are not reused
  rosters,    \* table squad_members
  assignees,  \* table issues, the assignee
  runs,       \* table runs: who has a run on what
  wrote,      \* the runs that an artifact refers to
  told,       \* table notifications: who was told of what
  overtaken,  \* history: assignments to agents whose request read back another's
  unseated,   \* history: squads whose present leader was taken off the roster
  op,         \* what each handler is doing, with its local variables
  sent,       \* how many requests have been sent
  mishaps     \* how many have failed

tables == <<users, agents, known, leaders, formed, rosters, assignees, runs, wrote, told>>
history == <<overtaken, unseated>>
vars == <<users, agents, known, leaders, formed, rosters, assignees, runs, wrote, told,
          overtaken, unseated, op, sent, mishaps>>

Assignee == Users \union Squads \union {NoUser}

\* seen: the assignee that was read; patch: whether an edit of an issue
\* touches the assignee.
Idle == [pc |-> "idle", squad |-> 0, target |-> NoUser, issue |-> NoIssue, seen |-> NoUser,
         patch |-> FALSE]
Ops == [pc : {"idle", "agent", "drop", "squad", "enlist", "lead", "roster", "remove",
              "check", "save", "readback", "trigger", "enqueue"},
        squad : Squads \union {0}, target : Assignee, issue : Issues \union {NoIssue},
        seen : Assignee, patch : BOOLEAN]

TypeOK ==
  /\ users \subseteq Users /\ agents \subseteq Agents /\ known \subseteq Agents
  /\ leaders \in [Squads -> Users \union {NoUser}] /\ formed \in 0 .. MaxSquads
  /\ rosters \in [Squads -> SUBSET Users]
  /\ assignees \in [Issues -> Assignee]
  /\ runs \subseteq Agents \X Issues /\ wrote \subseteq Agents \X Issues
  /\ told \subseteq Assignee \X Issues
  /\ overtaken \subseteq Agents \X Issues /\ unseated \subseteq Squads
  /\ op \in [Handlers -> Ops]
  /\ sent \in 0 .. MaxRequests /\ mishaps \in 0 .. MaxMishaps

------------------------------------------------------------------------------
At(h, pc) == op[h].pc = pc
Move(h, o) == op' = [op EXCEPT ![h] = o]
Begin(h, req) ==
  /\ op[h] = Idle /\ req \in Requests
  /\ sent < MaxRequests /\ sent' = sent + 1

\* The identifier of an agent is known once its row is in table agents.
Person(u) == u \in Humans \union known
IsSquad(s) == s \in Squads /\ leaders[s] # NoUser
Living == {s \in Squads : IsSquad(s)}

------------------------------------------------------------------------------
(* Agents.                                                                 *)

\* The backing user, with an address nobody has, and then the agent.
CreateAgent(h, a) ==
  /\ Begin(h, "agent")
  /\ a \notin users
  /\ users' = users \union {a}
  /\ Move(h, [Idle EXCEPT !.pc = "agent", !.target = a])
  /\ UNCHANGED <<agents, known, leaders, formed, rosters, assignees, runs, wrote, told, history, mishaps>>

InsertAgent(h) ==
  /\ At(h, "agent")
  /\ agents' = agents \union {op[h].target} /\ known' = known \union {op[h].target}
  /\ Move(h, Idle)
  /\ UNCHANGED <<users, leaders, formed, rosters, assignees, runs, wrote, told, history, sent, mishaps>>

DeleteAgent(h, a) ==
  /\ Begin(h, "drop")
  /\ a \in agents
  /\ Move(h, [Idle EXCEPT !.pc = "drop", !.target = a])
  /\ UNCHANGED <<tables, history, mishaps>>

\* (Slip: the artifacts are not asked.)
DropAnyway(h) ==
  LET mine == {r \in runs : r[1] = op[h].target} IN
  /\ At(h, "drop")
  /\ agents' = agents \ {op[h].target} /\ runs' = runs \ mine
  /\ Move(h, Idle)
  /\ UNCHANGED <<users, known, leaders, formed, rosters, assignees, wrote, told, history, sent, mishaps>>

\* The runs go with the agent, and its user stays; but the statement is
\* refused while an artifact refers to one of the runs.
DropAgent(h) ==
  LET mine == {r \in runs : r[1] = op[h].target} IN
  /\ At(h, "drop")
  /\ IF mine \intersect wrote = {}
       THEN agents' = agents \ {op[h].target} /\ runs' = runs \ mine
       ELSE UNCHANGED <<agents, runs>>
  /\ Move(h, Idle)
  /\ UNCHANGED <<users, known, leaders, formed, rosters, assignees, wrote, told, history, sent, mishaps>>

\* A run at work: it stores an artifact.
WriteArtifact(r) ==
  /\ r \in runs \ wrote
  /\ wrote' = wrote \union {r}
  /\ UNCHANGED <<users, agents, known, leaders, formed, rosters, assignees, runs, told, history, op, sent, mishaps>>

------------------------------------------------------------------------------
(* Squads.  Users are never deleted: that one exists is not read again.    *)

\* (Slip: the roster gets a leader who was never looked up.)
CreateUnled(h, u) ==
  /\ Begin(h, "squad")
  /\ formed < MaxSquads /\ formed' = formed + 1
  /\ leaders' = [leaders EXCEPT ![formed'] = u]
  /\ Move(h, [Idle EXCEPT !.pc = "enlist", !.squad = formed'])
  /\ UNCHANGED <<users, agents, known, rosters, assignees, runs, wrote, told, history, mishaps>>

CreateSquad(h, u) ==
  /\ Begin(h, "squad")
  /\ Person(u)
  /\ formed < MaxSquads /\ formed' = formed + 1
  /\ leaders' = [leaders EXCEPT ![formed'] = u]
  /\ Move(h, [Idle EXCEPT !.pc = "enlist", !.squad = formed', !.target = u])
  /\ UNCHANGED <<users, agents, known, rosters, assignees, runs, wrote, told, history, mishaps>>

\* AddSquadMember of the store: refused without a squad, and an error for
\* whoever is on the roster.
AddSquadMember(h) ==
  LET o == op[h] IN
  /\ At(h, "enlist")
  /\ rosters' = IF IsSquad(o.squad) THEN [rosters EXCEPT ![o.squad] = @ \union {o.target}] ELSE rosters
  /\ Move(h, Idle)
  /\ UNCHANGED <<users, agents, known, leaders, formed, assignees, runs, wrote, told, history, sent, mishaps>>

SetLeader(h, s, u) ==
  /\ Begin(h, "leader")
  /\ s \in Living /\ Person(u)
  /\ Move(h, [Idle EXCEPT !.pc = "lead", !.squad = s, !.target = u])
  /\ UNCHANGED <<tables, history, mishaps>>

\* (Slip: the new leader joins the roster only with the next request.)
SetLeaderOnly(h) ==
  LET o == op[h] IN
  /\ At(h, "lead")
  /\ leaders' = IF IsSquad(o.squad) THEN [leaders EXCEPT ![o.squad] = o.target] ELSE leaders
  /\ unseated' = unseated \ {o.squad}
  /\ Move(h, Idle)
  /\ UNCHANGED <<users, agents, known, formed, rosters, assignees, runs, wrote, told, overtaken,
                 sent, mishaps>>

SetSquadLeader(h) ==
  LET o == op[h] IN
  /\ At(h, "lead")
  /\ \/ /\ IsSquad(o.squad)
        /\ leaders' = [leaders EXCEPT ![o.squad] = o.target]
        /\ unseated' = unseated \ {o.squad}
        /\ Move(h, [o EXCEPT !.pc = "roster"])
     \/ ~IsSquad(o.squad) /\ Move(h, Idle) /\ UNCHANGED <<leaders, unseated>>
  /\ UNCHANGED <<users, agents, known, formed, rosters, assignees, runs, wrote, told, overtaken,
                 sent, mishaps>>

\* The new leader joins the roster, unless on it.
ListSquadMembers(h) ==
  LET o == op[h] IN
  /\ At(h, "roster")
  /\ Move(h, IF o.target \in rosters[o.squad] THEN Idle ELSE [o EXCEPT !.pc = "enlist"])
  /\ UNCHANGED <<tables, history, sent, mishaps>>

AddMember(h, s, u) ==
  /\ Begin(h, "member")
  /\ s \in Living /\ Person(u)
  /\ Move(h, [Idle EXCEPT !.pc = "enlist", !.squad = s, !.target = u])
  /\ UNCHANGED <<tables, history, mishaps>>

RemoveMember(h, s, u) ==
  /\ Begin(h, "remove")
  /\ s \in Living /\ leaders[s] # u
  /\ Move(h, [Idle EXCEPT !.pc = "remove", !.squad = s, !.target = u])
  /\ UNCHANGED <<tables, history, mishaps>>

RemoveSquadMember(h) ==
  LET o == op[h] IN
  /\ At(h, "remove")
  /\ rosters' = [rosters EXCEPT ![o.squad] = @ \ {o.target}]
  /\ unseated' = IF leaders[o.squad] = o.target THEN unseated \union {o.squad} ELSE unseated
  /\ Move(h, Idle)
  /\ UNCHANGED <<users, agents, known, leaders, formed, assignees, runs, wrote, told, overtaken,
                 sent, mishaps>>

\* The roster goes with the squad.
DeleteSquad(h, s) ==
  /\ Begin(h, "disband")
  /\ s \in Living
  /\ leaders' = [leaders EXCEPT ![s] = NoUser]
  /\ rosters' = [rosters EXCEPT ![s] = {}]
  /\ UNCHANGED <<users, agents, known, formed, assignees, runs, wrote, told, history, op, mishaps>>

------------------------------------------------------------------------------
(* The assignee of an issue.                                               *)

\* Members of the project edit issues; the leader of the squad an issue is
\* assigned to may hand it on, and nobody else then.
MayEdit(u, i, x, patch) ==
  /\ u \in Members \/ (patch /\ IsSquad(assignees[i]) /\ leaders[assignees[i]] = u)
  /\ patch /\ x # assignees[i] /\ IsSquad(assignees[i]) => leaders[assignees[i]] = u

\* The assignee may be any text.  The identifiers of users and squads are
\* random, and only the agents' table shows those of agents, so nobody can
\* name one whose row there is still to be written.
UpdateIssue(h, u, i, x, patch) ==
  /\ Begin(h, "edit")
  /\ MayEdit(u, i, x, patch)
  /\ IF patch THEN x \in Agents => x \in known ELSE x = NoUser
  /\ Move(h, [Idle EXCEPT !.pc = IF patch THEN "check" ELSE "save", !.issue = i, !.target = x,
                          !.seen = assignees[i], !.patch = patch])
  /\ UNCHANGED <<tables, history, mishaps>>

\* Nobody, a user, or a squad.
ValidateAssignee(h) ==
  LET x == op[h].target IN
  /\ At(h, "check")
  /\ Move(h, IF x \in users \union {NoUser} \/ IsSquad(x) THEN [op[h] EXCEPT !.pc = "save"] ELSE Idle)
  /\ UNCHANGED <<tables, history, sent, mishaps>>

\* (Slip: what was saved is compared with itself.)
SaveSilently(h) ==
  LET o == op[h]
      x == IF o.patch THEN o.target ELSE o.seen
  IN
  /\ At(h, "save")
  /\ assignees' = [assignees EXCEPT ![o.issue] = x]
  /\ Move(h, Idle)
  /\ UNCHANGED <<users, agents, known, leaders, formed, rosters, runs, wrote, told, history, sent, mishaps>>

\* The whole row is written, with the assignee that was read unless it was
\* patched.  The column refers to users, so nothing else is accepted.  Who is
\* new to the issue, by the request and the row read first, is to hear of it.
SaveIssue(h) ==
  LET o == op[h]
      x == IF o.patch THEN o.target ELSE o.seen
  IN
  /\ At(h, "save")
  /\ \/ /\ x \in users \union {NoUser}
        /\ assignees' = [assignees EXCEPT ![o.issue] = x]
        /\ Move(h, IF o.patch /\ x \notin {NoUser, o.seen} THEN [o EXCEPT !.pc = "readback"] ELSE Idle)
     \/ x \notin users \union {NoUser} /\ Move(h, Idle) /\ UNCHANGED assignees
  /\ UNCHANGED <<users, agents, known, leaders, formed, rosters, runs, wrote, told, history, sent, mishaps>>

\* The row is read again, and whoever it names by now is the one who hears.
ReadBack(h) ==
  LET o == op[h]
      x == assignees[o.issue]
  IN
  /\ At(h, "readback")
  /\ overtaken' = IF x # o.target /\ o.target \in Agents
                    THEN overtaken \union {<<o.target, o.issue>>} ELSE overtaken
  /\ Move(h, [o EXCEPT !.pc = "trigger", !.target = x])
  /\ UNCHANGED <<tables, unseated, sent, mishaps>>

\* A notification; for nobody, none.
Notify(x, i) == told' = told \union (({x} \ {NoUser}) \X {i})

\* OnIssueAssigned: agents get a run, others a notification.
OnIssueAssigned(h) ==
  LET o == op[h] IN
  /\ At(h, "trigger")
  /\ \/ /\ o.target \in agents
        /\ Move(h, [o EXCEPT !.pc = "enqueue"])
        /\ UNCHANGED told
     \/ /\ o.target \notin agents
        /\ Notify(o.target, o.issue)
        /\ Move(h, Idle)
  /\ UNCHANGED <<users, agents, known, leaders, formed, rosters, assignees, runs, wrote, history,
                 sent, mishaps>>

\* isAgent takes a lookup that fails for a no.
MistakeAgent(h) ==
  /\ At(h, "trigger")
  /\ mishaps < MaxMishaps /\ mishaps' = mishaps + 1
  /\ Notify(op[h].target, op[h].issue)
  /\ Move(h, Idle)
  /\ UNCHANGED <<users, agents, known, leaders, formed, rosters, assignees, runs, wrote, history, sent>>

\* Refused when the agent is gone.
CreateRun(h) ==
  LET o == op[h] IN
  /\ At(h, "enqueue")
  /\ runs' = IF o.target \in agents THEN runs \union {<<o.target, o.issue>>} ELSE runs
  /\ Move(h, Idle)
  /\ UNCHANGED <<users, agents, known, leaders, formed, rosters, assignees, wrote, told, history, sent, mishaps>>

------------------------------------------------------------------------------
\* A statement fails, or the server stops: the request ends where it is.
Fail(h) ==
  /\ mishaps < MaxMishaps /\ mishaps' = mishaps + 1
  /\ op[h] # Idle
  /\ Move(h, Idle)
  /\ UNCHANGED <<tables, history, sent>>

Init ==
  /\ users = Humans /\ agents = {} /\ known = {}
  /\ leaders = [s \in Squads |-> NoUser] /\ formed = 0
  /\ rosters = [s \in Squads |-> {}]
  /\ assignees = [i \in Issues |-> NoUser]
  /\ runs = {} /\ wrote = {} /\ told = {}
  /\ overtaken = {} /\ unseated = {}
  /\ op = [h \in Handlers |-> Idle]
  /\ sent = 0 /\ mishaps = 0

Request(h) ==
  \/ \E a \in Agents : CreateAgent(h, a) \/ DeleteAgent(h, a)
  \/ \E u \in Users : \/ CreateSquad(h, u)
                      \/ \E s \in Squads : SetLeader(h, s, u) \/ AddMember(h, s, u) \/ RemoveMember(h, s, u)
  \/ \E s \in Squads : DeleteSquad(h, s)
  \/ \E u \in Humans, i \in Issues, x \in Assignee, patch \in BOOLEAN : UpdateIssue(h, u, i, x, patch)

Step(h) ==
  \/ InsertAgent(h) \/ DropAgent(h)
  \/ AddSquadMember(h) \/ SetSquadLeader(h) \/ ListSquadMembers(h) \/ RemoveSquadMember(h)
  \/ ValidateAssignee(h) \/ SaveIssue(h) \/ ReadBack(h) \/ OnIssueAssigned(h) \/ CreateRun(h)

Next ==
  \/ \E h \in Handlers : Request(h) \/ Step(h) \/ MistakeAgent(h) \/ Fail(h)
  \/ \E r \in Agents \X Issues : WriteArtifact(r)

Spec == Init /\ [][Next]_vars

------------------------------------------------------------------------------
(* Properties.                                                             *)

\* The references between the tables: rosters are of squads there are,
\* runs of agents there are, artifacts of runs there are, and issues are
\* assigned to users, whatever was deleted meanwhile.
RowsRefer ==
  /\ \A s \in Squads : rosters[s] # {} => IsSquad(s)
  /\ \A r \in runs : r[1] \in agents
  /\ wrote \subseteq runs
  /\ \A i \in Issues : assignees[i] \in users \union {NoUser}

\* A request that has put x in charge of an issue and has yet to start the run.
Starting(o, x, i) ==
  o.pc \in {"readback", "trigger", "enqueue"} /\ o.issue = i /\ o.target = x

\* An issue that is assigned to an agent has a run of the agent, or a
\* request is about to make it, or a request failed, or the request that
\* assigned the agent read another assignee back: no edit of other fields
\* brings an assignee back for whom nothing was ever to be started.
AgentHears ==
  \A i \in Issues : assignees[i] \in agents =>
    \/ <<assignees[i], i>> \in runs \union overtaken
    \/ mishaps > 0
    \/ \E h \in Handlers : Starting(op[h], assignees[i], i)

\* Who leads a squad is on its roster, or a request is about to see to it,
\* or one failed half-way; unless a removal, decided under another leader,
\* took the leader off: squads change leaders and rosters in separate
\* statements, and the requests of several people mix them.
LeaderEnlisted ==
  \A s \in Living :
    \/ leaders[s] \in rosters[s]
    \/ s \in unseated
    \/ mishaps > 0
    \/ \E h \in Handlers : /\ op[h].pc \in {"roster", "enlist"}
                          /\ op[h].squad = s /\ op[h].target = leaders[s]

==============================================================================
