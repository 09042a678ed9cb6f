------------------------------ MODULE RunQueue -------------------------------
(***************************************************************************)
(* The persisted run queue of backend/internal/agent: whatever wants an    *)
(* agent to work on an issue inserts a row in table runs, and claimers     *)
(* take the rows oldest first.  The queue worker of a server takes the     *)
(* runs of agents with runtime = 'server'; the agents with runtime =       *)
(* 'local' are served by "sp agent run" processes through the runtime API, *)
(* each with the credential of one agent.                                  *)
(*                                                                         *)
(* A run is its position in the order of (created_at, id).  A claim is one *)
(* UPDATE whose subquery locks what it picks with FOR UPDATE SKIP LOCKED;  *)
(* lock and commit are two steps here, because other claims look at the    *)
(* queue in between.  The other statements are one step each.              *)
(***************************************************************************)
EXTENDS Naturals, Sequences

CONSTANTS
  Agents,     \* agents that may get registered
  Issues,     \* issues runs work on
  Servers,    \* queue workers, one per server process
  Runtimes,   \* local runtime processes
  AgentOf,    \* the agent whose credential each local runtime holds
  MaxRuns,    \* bound: rows of table runs
  MaxFaults   \* bound: failures of statements, requests and processes

Claimers == Servers \union Runtimes
Local == {AgentOf[c] : c \in Runtimes}

ASSUME AgentOfAssumption == AgentOf \in [Runtimes -> Agents]
ASSUME ClaimersAssumption == Servers \cap Runtimes = {}
ASSUME BoundsAssumption == MaxRuns \in Nat /\ MaxFaults \in Nat

VARIABLES
  agents,    \* table agents: each agent is new, live or gone
  issues,    \* the issues that have not been deleted
  runs,      \* table runs: agent, issue and status of each run
  pinned,    \* the runs some artifact refers to with its run_id
  claimers,  \* what each claimer is doing
  told,      \* the notified ends: run and outcome, as assignee and subscribers got them
  faults     \* failures so far

vars == <<agents, issues, runs, pinned, claimers, told, faults>>

\* "gone": deleted with its agent or its issue (ON DELETE CASCADE).
RunStatuses == {"queued", "running", "done", "failed", "gone"}
Outcomes == {"done", "failed"}
Idle == [pc |-> "idle", run |-> 0, outcome |-> "done"]
PCs == {"idle", "claim", "execute", "finish", "tell"}

RunRows == [agent : Agents, issue : Issues, status : RunStatuses]

TypeOK ==
  /\ agents \in [Agents -> {"new", "live", "gone"}]
  /\ issues \subseteq Issues
  /\ runs \in Seq(RunRows)
  /\ pinned \subseteq DOMAIN runs
  /\ claimers \in [Claimers -> [pc : PCs, run : Nat, outcome : Outcomes]]
  /\ \A c \in Claimers : IF claimers[c].pc = "idle" THEN claimers[c].run = 0
                                                    ELSE claimers[c].run \in DOMAIN runs
  /\ told \subseteq [run : DOMAIN runs, outcome : Outcomes]
  /\ faults \in Nat

------------------------------------------------------------------------------
Queued(r) == runs[r].status = "queued"
Locked(r) == \E c \in Claimers : claimers[c].pc = "claim" /\ claimers[c].run = r

\* A server's subquery joins runs with agents and locks the rows of both.
AgentLocked(a) ==
  \E s \in Servers : claimers[s].pc = "claim" /\ runs[claimers[s].run].agent = a

SetStatus(r, s) == runs' = [runs EXCEPT ![r].status = s]

\* The runs a claimer looks for: ClaimNextRun of a server leaves out those of
\* local agents, ClaimNextRunForAgent takes those of the one agent.
Eligible(c, r) ==
  IF c \in Servers THEN runs[r].agent \notin Local ELSE runs[r].agent = AgentOf[c]

\* (Slips: locks are ignored; only rows of runs are locked; the oldest queued
\* run is picked before it is known whether the claimer may take it.)
ClaimableLocked(c) == {r \in DOMAIN runs : Queued(r) /\ Eligible(c, r)}
ClaimableByRow(c) == {r \in DOMAIN runs : Queued(r) /\ Eligible(c, r) /\ ~Locked(r)}
ClaimableFirst(c) ==
  {r \in DOMAIN runs : /\ Queued(r) /\ Eligible(c, r) /\ ~Locked(r)
                       /\ c \in Servers => ~AgentLocked(runs[r].agent)
                       /\ \A q \in DOMAIN runs : q < r => ~Queued(q)}

Claimable(c) ==
  {r \in DOMAIN runs : /\ Queued(r) /\ Eligible(c, r) /\ ~Locked(r)
                       /\ c \in Servers => ~AgentLocked(runs[r].agent)}

Goto(c, pc) == claimers' = [claimers EXCEPT ![c].pc = pc]
Rest(c) == claimers' = [claimers EXCEPT ![c] = Idle]
Fault == faults < MaxFaults /\ faults' = faults + 1

------------------------------------------------------------------------------
(* Agents and issues come and go.                                          *)

RegisterAgent(a) ==
  /\ agents[a] = "new"
  /\ agents' = [agents EXCEPT ![a] = "live"]
  /\ UNCHANGED <<issues, runs, pinned, claimers, told, faults>>

Cascade(dead) ==
  runs' = [r \in DOMAIN runs |-> IF r \in dead THEN [runs[r] EXCEPT !.status = "gone"] ELSE runs[r]]

\* artifacts.run_id has no ON DELETE: an agent whose run wrote an artifact
\* cannot be deleted.  The deletion waits for claims in progress.
DeleteAgent(a) ==
  LET its == {r \in DOMAIN runs : runs[r].agent = a /\ runs[r].status # "gone"} IN
  /\ agents[a] = "live"
  /\ its \cap pinned = {} /\ \A r \in its : ~Locked(r)
  /\ agents' = [agents EXCEPT ![a] = "gone"]
  /\ Cascade(its)
  /\ UNCHANGED <<issues, pinned, claimers, told, faults>>

\* The artifacts of the issue go too.
DeleteIssue(i) ==
  LET its == {r \in DOMAIN runs : runs[r].issue = i} IN
  /\ i \in issues
  /\ \A r \in its : ~Locked(r)
  /\ issues' = issues \ {i}
  /\ Cascade(its)
  /\ pinned' = pinned \ its
  /\ UNCHANGED <<agents, claimers, told, faults>>

------------------------------------------------------------------------------
(* Runs.                                                                   *)

\* CreateRun, for an assignment, a status change, a wakeup, a mention, an
\* autopilot or a user: the foreign keys want the agent and the issue, and the
\* check of the agent waits while a claim holds its row.
Enqueue(a, i) ==
  /\ agents[a] = "live" /\ ~AgentLocked(a) /\ i \in issues
  /\ Len(runs) < MaxRuns
  /\ runs' = Append(runs, [agent |-> a, issue |-> i, status |-> "queued"])
  /\ UNCHANGED <<agents, issues, pinned, claimers, told, faults>>

LockOldest(c) ==
  /\ claimers[c] = Idle
  /\ \E r \in Claimable(c) :
       /\ \A q \in Claimable(c) : r <= q
       /\ claimers' = [claimers EXCEPT ![c] = [pc |-> "claim", run |-> r, outcome |-> "done"]]
  /\ UNCHANGED <<agents, issues, runs, pinned, told, faults>>

CommitClaim(c) ==
  /\ claimers[c].pc = "claim"
  /\ SetStatus(claimers[c].run, "running")
  /\ Goto(c, "execute")
  /\ UNCHANGED <<agents, issues, pinned, told, faults>>

\* The claim is rolled back, or committed and its answer lost.
ClaimFails(c) ==
  /\ claimers[c].pc = "claim"
  /\ Fault
  /\ UNCHANGED runs \/ SetStatus(claimers[c].run, "running")
  /\ Rest(c)
  /\ UNCHANGED <<agents, issues, pinned, told>>

\* The executor's write_artifact and submit_verify record their run.
PinRun(c) ==
  LET r == claimers[c].run IN
  /\ claimers[c].pc = "execute" /\ runs[r].status # "gone" /\ r \notin pinned
  /\ pinned' = pinned \union {r}
  /\ UNCHANGED <<agents, issues, runs, claimers, told, faults>>

\* Execute answers, or fails: at the latest after MaxTurns completions, each of
\* which the LLM client ends after five minutes.
ExecutionEnds(c) ==
  /\ claimers[c].pc = "execute"
  /\ \E o \in Outcomes :
       claimers' = [claimers EXCEPT ![c] = [@ EXCEPT !.pc = "finish", !.outcome = o]]
  /\ UNCHANGED <<agents, issues, runs, pinned, told, faults>>

\* (Slips: the run is not forgotten; an error of FinishRun is ignored.)
FinishRunAndKeep(c) ==
  LET r == claimers[c].run IN
  /\ claimers[c].pc = "finish"
  /\ IF runs[r].status = "running"
       THEN SetStatus(r, claimers[c].outcome) /\ Goto(c, IF c \in Servers THEN "tell" ELSE "idle")
       ELSE UNCHANGED runs /\ Rest(c)
  /\ UNCHANGED <<agents, issues, pinned, told, faults>>
FinishRunUnchecked(c) ==
  LET r == claimers[c].run IN
  /\ claimers[c].pc = "finish"
  /\ \/ runs[r].status = "running" /\ SetStatus(r, claimers[c].outcome) /\ UNCHANGED faults
     \/ UNCHANGED runs /\ Fault
  /\ IF c \in Servers THEN Goto(c, "tell") ELSE Rest(c)
  /\ UNCHANGED <<agents, issues, pinned, told>>

\* FinishRun updates the row only while it is running; a server then notifies,
\* and the finish endpoint that local runtimes call does not.
FinishRun(c) ==
  LET r == claimers[c].run IN
  /\ claimers[c].pc = "finish"
  /\ IF runs[r].status = "running"
       THEN SetStatus(r, claimers[c].outcome) /\ (IF c \in Servers THEN Goto(c, "tell") ELSE Rest(c))
       ELSE UNCHANGED runs /\ Rest(c)
  /\ UNCHANGED <<agents, issues, pinned, told, faults>>

\* notifyRunFinished, which looks the issue up first.
TellAssignee(c) ==
  LET r == claimers[c].run IN
  /\ claimers[c].pc = "tell"
  /\ told' = IF runs[r].issue \in issues
                THEN told \union {[run |-> r, outcome |-> claimers[c].outcome]} ELSE told
  /\ Rest(c)
  /\ UNCHANGED <<agents, issues, runs, pinned, faults>>

\* (Slip: what was in progress goes back to the queue.)
StopAndRequeue(c) ==
  /\ claimers[c].pc \notin {"idle", "claim"}
  /\ Fault
  /\ SetStatus(claimers[c].run, "queued")
  /\ Rest(c)
  /\ UNCHANGED <<agents, issues, pinned, told>>

\* The process stops, its context is cancelled (Server.Close), or the call
\* that finishes the run fails: nothing requeues the run.
Stop(c) ==
  /\ claimers[c].pc \notin {"idle", "claim"}
  /\ Fault
  /\ Rest(c)
  /\ UNCHANGED <<agents, issues, runs, pinned, told>>

------------------------------------------------------------------------------
Init ==
  /\ agents = [a \in Agents |-> "new"]
  /\ issues = Issues
  /\ runs = <<>>
  /\ pinned = {}
  /\ claimers = [c \in Claimers |-> Idle]
  /\ told = {}
  /\ faults = 0

\* What the loop of a claimer does next.
Step(c) ==
  LockOldest(c) \/ CommitClaim(c) \/ ExecutionEnds(c) \/ FinishRun(c) \/ TellAssignee(c)

Next ==
  \/ \E a \in Agents : RegisterAgent(a) \/ DeleteAgent(a)
  \/ \E i \in Issues : DeleteIssue(i)
  \/ \E a \in Agents, i \in Issues : Enqueue(a, i)
  \/ \E c \in Claimers : Step(c) \/ PinRun(c) \/ ClaimFails(c) \/ Stop(c)

Spec == Init /\ [][Next]_vars

\* Queue.Loop polls every second for as long as the server runs.  Nobody is
\* obliged to start a local runtime.
FairSpec == Spec /\ \A s \in Servers : WF_vars(Step(s))

------------------------------------------------------------------------------
(* What the queue promises.                                                *)

\* No two processes work on one run, and a run somebody works on is running,
\* unless it was deleted meanwhile.
Exclusive ==
  \A c \in Claimers :
    claimers[c].pc \in {"execute", "finish"} =>
      /\ runs[claimers[c].run].status \in {"running", "gone"}
      /\ \A d \in Claimers \ {c} : claimers[d].run # claimers[c].run

\* The runs of an agent are started in the order they were queued, however
\* many servers claim (several local runtimes of one agent may overtake each
\* other: they lock runs only).
Orderly(a) == \A c, d \in Runtimes : AgentOf[c] = a /\ AgentOf[d] = a => c = d
InOrder ==
  \A q, r \in DOMAIN runs :
    q < r /\ Queued(q) /\ runs[q].agent = runs[r].agent /\ Orderly(runs[r].agent)
      => runs[r].status \in {"queued", "gone"}

\* What assignee and subscribers were told of a run is how it ended.
ToldTruly == \A t \in told : runs[t.run].status \in {t.outcome, "gone"}

\* A queued run of an agent that servers serve is started (or deleted), also
\* when older runs wait for a local runtime that never comes.
Waiting(r) == r \in DOMAIN runs /\ Queued(r) /\ runs[r].agent \notin Local
ServerRunsStart == \A r \in 1..MaxRuns : Waiting(r) ~> ~Waiting(r)

\* To whoever reads table runs and the notices, the claimers and all that can
\* happen to them are invisible: the queue implements QueuePromise.
Promise == INSTANCE QueuePromise WITH InTurn <- {a \in Agents : Orderly(a)}
KeepsPromise == Promise!Spec

==============================================================================
