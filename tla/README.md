# Spec Powers: TLA+ models, model checking and proofs

Spec Powers is an issue board whose issues are worked on by people and by AI
agents. Its server (`backend/cmd/spd`) is a stateless REST server in Go over
PostgreSQL; the CLI (`sp`) drives it and hosts local agent runtimes; the web
frontend is another client. This directory models the parts of the server
whose correctness rests on interleavings, crashes and long histories. Paths
below are relative to `src/backend/internal/` unless they start with `src/`.

Run a check with `tlc -config flow_race.cfg MCFlow.tla` and the proofs with
`tlapm ClassicFlowProofs.tla`.
`PROJECT.json` lists components, runs, mutants, hazards, theorems and, for every
definition, the source lines it models.

## The system

All state of record is in PostgreSQL. Handlers hold nothing between requests
and **open no transaction around several statements**: a service reads rows,
decides, and writes rows, one autocommitted statement at a time. (The store has one call
that is more, `SetTaskMappings`.) Two requests,
two agent tool calls, the worker goroutine and a second server process
therefore interleave at every statement, and a crash or a cancelled request
can fall between any two. That is what nearly every hazard below comes from,
and why the actions of the models are statements and not handlers.

| component | state | operations | talks to |
|---|---|---|---|
| classic workflow (`workflow/`) | `changes`, `artifacts`, `change_handoffs`, `task_mappings`, `issue_wakeups` | start (by hand, or AI splitter), write artifact, submit verify, guarded advance, guard report, archive | issues (sub-issues, parents), runs (the wakeup hook), LLM |
| run queue (`agent/queue.go`, `agent/service.go`, `agent/runtime_handler.go`, `cli/agentrun.go`) | `agents`, `runs`, `run_logs`, `run_usage` | register and remove agents, enqueue, claim (server worker, local runtime), finish | executor, notifications |
| agent executor (`agent/executor.go`, `agent/flow.go`) | a checkout directory; the rest is locals | tool loop: comment, set_status, checkout, write_artifact, advance_phase, submit_verify, archive, finish | workflow, issues, LLM, git |
| issue board (`issue/`) | `issues`, `workspace_statuses`, `issue_events`, `issue_wakeups` | create, update (assignee, parent, priority, due date), transition, delete, status directory | triggers (runs), notifications, workflow |
| automation (`automation/`, `cronexpr/`) | `autopilots`, `webhooks` | CRUD, scheduler tick, manual trigger, signed webhook event | issues, runs |
| pull requests (`pr/`) | `pull_requests`, links | upsert, set state, apply close intents | issues |
| workspace membership (`workspace/`) | `workspace_members`, `workspace_invites` | invite, revoke, redeem, set role | auth |
| projects (`project/`), squads (`squad/`) | members, resources, worktrees; squads and rosters | CRUD, roles, leaders | issues |
| collaboration (`collab/`), notifications (`notification/`), properties (`property/`) | comments, attachments (row and file), metadata, subscribers; notifications; typed values | CRUD, fan-out, due-date scan | runs (mentions) |
| auth, skills, LLM client, HTTP layer, configuration, CLI, frontend | users and tokens; static texts; a binding file | | |

How they interact. Assigning an issue to an agent, moving it, waking its parent,
mentioning an agent in a comment, an autopilot and a user all insert rows of
`runs`. The worker goroutine of each server (`Queue.Loop`, one run at a time)
and the `sp agent run` processes take them out and run the executor, whose
tools are requests to the issue board and the classic workflow. Archiving a
change, and finishing the last child of an issue, record a row of
`issue_wakeups` and call `Trigger.OnParentWakeup`, which notifies a person or
enqueues the next run: that closes the loop.

What is hard, and what should be true:

* **Workflow.** Gates are read one after the other and the change is written
  afterwards, whole, from an old copy; the handoff and the phase are two
  statements; a tasks artifact is stored before it is parsed; the AI splitter
  works for minutes on a copy. Correct: nothing is skipped, every phase has its
  handoff, an archive has its evidence and is final, the mappings belong to one
  plan, the parent's owner is told once the change is archived.
* **Queue.** Several claimers pick from one table; the claim is committed before
  any work is done; nothing requeues. Correct: one owner per run, first come
  first served per agent, the told outcome is the recorded one, no head-of-line
  blocking by absent local runtimes, what is started ends.
* **Issue board.** Whole-row updates from stale copies, a parent tree kept
  acyclic by a walk of separate reads, wakeups decided from a later read.
  Correct: terminal statuses are terminal, the tree has no cycle, the last child
  to finish wakes the parent, an agent's move counts as anyone's.
* **Automation.** The scheduler lists rows, runs their actions and writes the
  rows back; manual triggers and events do the same, and requests edit the same rows.
  Correct: a row is never a mixture of two schedules, the next run is the first minute the
  expression names, a failing action does not keep an autopilot due.
* **Pull requests.** Two paths lead to a merge, both decided by a state read before
  the write; the issues are edited, deleted and renumbered meanwhile. Correct: what a text names is
  linked, what a merge asks to close is closed, a finished issue is left alone.
* **Membership and projects.** Role counts and role writes are separate, upserts overwrite
  roles, registration is three statements. Correct: an invitation admits its addressee once, a
  project's creator is in its workspace, the last owner stays.
* **Squads and assignees.** Leader and roster are written by separate statements; whether an
  assignee is an agent is asked after it is stored. Correct: nothing refers to what was deleted,
  an agent in charge has a run, a leader is on the roster.
* **Collaboration and notifications.** A comment is followed by a dozen best-effort statements, an
  attachment is a file and a row, the due scanner deduplicates by check and insert. Correct: who is
  mentioned hears of it, files and rows match, a due notice is given once.

## Modules

| module | what it is |
|---|---|
| `ChangePromise` | what the classic workflow promises of a change, abstractly: no workers, rows or statements |
| `ClassicFlow` | the classic workflow as the code runs it: workers, statements, snapshots, crashes; refinement mapping to `ChangePromise` |
| `MCFlow` | instance for TLC |
| `ClassicFlowProofs` | its inductive invariant and theorems, the refinement among them |
| `QueuePromise` | what the run queue promises of runs and notices, abstractly: no claimers, locks or failures |
| `RunQueue` | the run queue with servers, local runtimes, deletions and faults; refinement mapping to `QueuePromise` |
| `MCQueue` | instance for TLC |
| `RunQueueProofs` | its inductive invariant and theorems, the refinement among them |
| `IssueBoard` | the issue board: tree, states, directory, wakeups, and everyone who writes issues |
| `MCBoard` | instance for TLC |
| `IssueBoardProofs` | its types, what one writer keeps, and what any number of writers keep |
| `CronExpr` | cron expressions: parsing, matching, one turn of the search for the next minute, over any calendar |
| `Autopilot` | webhooks, autopilots and their schedulers; extends `CronExpr` |
| `MCAutopilot`, `AutopilotProofs` | a small calendar for TLC; inductive invariant and theorems |
| `Membership`, `MCMembership`, `MembershipProofs` | accounts, workspaces, invitations, projects and roles |
| `Squads`, `MCSquads`, `SquadsProofs` | agents, squads, assignees of issues |
| `PullRequests`, `MCPulls`, `PullRequestsProofs` | pull requests, links and close intents |
| `Discussion`, `MCDiscussion`, `DiscussionProofs` | comments, mentions, attachments, metadata, due notices |

The modules meet where the components do, each modelling the other's part as far as its own
properties need it: `RunQueue` sees of an execution that it may write an artifact, `IssueBoard`
has runs as writers, `PullRequests` has edits of issues, `Squads` has runs as rows, `Discussion` has
issues that change and vanish. They are not composed into one specification: each of the products
is beyond TLC, and no property stated here needs two of them.

### ClassicFlow

`changes`, `journal`, `subIssues`, `mapping`, `woken` and `notified` are tables;
`op[w]` is what a worker (an HTTP request, an agent tool call or a splitter run)
keeps in local variables between two statements, `op[w].pc` naming the next one.
`journal` holds the rows of `artifacts` and `change_handoffs` of a change in one
sequence in the order of `created_at`, which is all that `handoffFresh` and
`verifyPassed` compare (two rows never carry the same time here).

| actions | code |
|---|---|
| `StartChange`, `CreateChange` | `StartChange` (manual.go), `SplitIssue` (splitter.go) and the insert |
| `Generate`, `SaveGenerated`, `SplitHandoff`, `SplitUpdate`, `FailChange` | `runPhases`, `generatePhase`, `failChange` |
| `WriteArtifact`, `SaveArtifact`, `CreateSubIssue`, `BindRefused` | `WriteArtifact` and `bindTaskSubIssuesTo` (manual.go) |
| `ClearMappings`, `SetTaskMappings` | the DELETE of the store's `SetTaskMappings`, and its INSERTs with the commit |
| `SubmitVerifyReport`, `SaveReport` | guard.go |
| `AdvancePhase`, `Archive`, `CheckPhaseLegal`, `CheckEntryHandoff`, `CheckHandoffFresh`, `CheckVerifyPassed` | the two guarded operations and the gates they share |
| `RecordHandoff`, `EnterPhase` | the two writes of `AdvancePhase` |
| `CloseChange`, `WakeParent`, `NotifyParent` | the writes of `Archive` and `wakeChangeIssueParent` |
| `DeleteIssue`, `DeleteSubIssue` | deletion with its cascades, of the issue or an ancestor, and of one sub-issue with its row of `task_mappings` |
| `StatementFails`, `Crash` | a failing statement or a cancelled request; the server stops |

The store's `SetTaskMappings` is the one transaction of several statements here, and it runs at READ
COMMITTED: its DELETE removes the rows that are committed by then (`op[w].cleared`), nobody sees the removal before the
commit, and rows that another such transaction commits in between stay. Rows of `mapping` are pairs of
a tasks artifact and a sub-issue; foreign keys refuse the INSERTs when either is gone.

A request that is refused at its first read leaves no trace, so that refusal is
the guard of the action that begins it. Reads whose result can never change
afterwards (does the issue have a parent, who is the owner) are merged with the
statement that uses them. Phases are 1..N in the order of `phaseOrder`, so that
the number of phases is a parameter (4 in the code); contents are "text", a plan
that parses, one that does not, a report that passes, one that fails. An agent
worker is one outside `Members`: it may do everything except create sub-issues,
because it is no project member. `ListScans` says whether `ListArtifacts` can
scan a row: TRUE is the behaviour its interface documents and the in-memory store
of the unit tests has, FALSE that of `collectArtifacts` in
`store/postgres/workflow.go`, which scans eight columns into seven destinations.

### ChangePromise

Phases are walked one at a time; a phase is left only when it and all before it
have an artifact; a change is archived only from the last phase with the newest
report passing; archived and failed are final. `ClassicFlow` maps its
tables to it (`PhaseSeen`, `StatusSeen`, `DeliveredSeen`, `VerdictSeen`); as long as requests about one
change do not overlap (crashes and failing statements included) it implements it. With two requests on one change
it does not, see "Known deviations".

### QueuePromise

A run is started once, in its turn if its agent is served in order, ends once and stays ended; a notice is given once,
after the end, and says how the run ended; the runs of an agent or an issue are deleted at once. The variables are
`runs` and `told` of `RunQueue`, which implements it whatever the claimers do: they, their locks, the requests that
made a run and the failures are what it hides.

### RunQueue

`runs` is table `runs` in the order of (created_at, id). A claim is one UPDATE
with a `FOR UPDATE SKIP LOCKED` subquery; `LockOldest` and `CommitClaim` are its
two ends, since other claims look at the queue in between. The subquery of a
server joins `runs` with `agents` and so locks the agent row as well, which is why
two servers never start two runs of one agent in the wrong order; that of a
local runtime locks the run only. A claim locks, `Enqueue`'s foreign key check waits
for the agent row; the insert itself is one step. `PinRun` is an
artifact that refers to the run, which later refuses the deletion of the agent.
`FinishRun` writes only over `running`. `Stop` is a claimer whose process stops,
whose context is cancelled by `Server.Close`, or whose finishing call fails.

### IssueBoard

`issues`, `directory` (`workspace_statuses`) and `wakeups` are tables; `asked` remembers
which calls of the run trigger reached an assignee (a run for an agent, a notification
for a person); `op[w]` is what a request or an agent's run holds between two statements,
above all its copy `row` of the issue.

| actions | code |
|---|---|
| `CreateIssue`, `InsertIssue` | `CreateIssue` |
| `UpdateIssue`, `ReadAncestor` | `UpdateIssue` with `validateNewParent`, one read per ancestor |
| `TransitionStatus`, `CheckTransition` | `TransitionStatus` up to its update |
| `ListSiblings`, `JudgeSiblings`, `RecordWakeup`, `AskParent` | `wakeParentIfChildrenTerminal` |
| `AskAssignee`, `AskAboutStatus` | the calls of `Trigger` (`agent/queue.go`) |
| `SaveRow`, `ReadBack` | the store's `UpdateIssue`, and the read that ends it and the insert |
| `CloseIssue` | `applyCloseIntents` of a merged pull request, one issue of it |
| `StartRun`, `SetStatus`, `EndRun` | a run and its `set_status` tool; the status endpoint of the runtime API is a run of one call |
| `UpsertStatus`, `DeleteStatus`, `DeleteIssue` | directory and deletion, the cascade included |
| `StatementFails`, `Crash` | a failing statement or cancelled request; the server stops |

A run reads its issue once and judges every later `set_status` by that copy and the built-in
status machine, where requests read the row anew and judge by the directory of the workspace;
the model keeps both. The directory's order is left out: `defaultStatus` takes the first entry of
category todo, and as an owner may reorder entries the model lets any of them be first. Directory
changes and deletions are one statement and need no worker state.

### CronExpr and Autopilot

Minutes are numbered; what the clocks of the zone show in each (`Wall`), which minute `time.Date`
returns for a day, an hour and a minute (`Instant`), and where `AddDate` goes are constants, since they are Go's
and not the repository's. `Advance` is one turn of the loop of `Schedule.Next`, so that a search that
does not end is a behaviour and not an undefined value. `Regular` says what the loop
relies on: its jumps go forward and pass over minutes of one month, one day or one hour only. It is
false in a zone whose clocks are put forward.

| actions | code |
|---|---|
| `Tick` | `Scheduler.Tick` up to its list of due rows |
| `ReceiveEvent`, `FireWebhook`, `TriggerAutopilot` | a signed event and the autopilots bound to its webhook; the manual trigger |
| `ExecuteAction` | `executeAction`: it succeeds or fails; then on to rescheduling (always, in a tick) or to the next row |
| `Search` | one turn of `Next` |
| `Save` | the store's `CreateAutopilot` and `UpdateAutopilot`: the whole row, as it was read |
| `CreateAutopilot`, `UpdateAutopilot`, `LookupWebhook`, `DeleteAutopilot` | the requests, with their validation |
| `CreateWebhook`, `UpdateWebhook`, `SaveWebhook`, `DeleteWebhook` | webhooks; deletion cascades |
| `MinutePasses`, `StatementFails`, `Crash` | the clock; failures |

### Membership

| actions | code |
|---|---|
| `Register`, `CreateUser`, `CreateWorkspace`, `AddMember` | `auth.Register`, and the store's `AddMember`, an upsert, by whoever calls it |
| `IssueAPIToken`, `RevokeAPIToken` | personal tokens |
| `CreateProject`, `InsertProject`, `AddProjectMember`, `Enrol` | `project.CreateProject` with its default workspace, and `AddMember` of a project |
| `SendInvite`, `FindInvitee`, `CreateInvite`, `RevokeInvite`, `Redeem`, `SetInviteStatus` | invitations |
| `SetRole`, `FindMember`, `CountOwners` | `SetRole` with its check of the last owner |
| `Fail` | a failing statement or a stopped server |

### Squads

| actions | code |
|---|---|
| `CreateAgent`, `InsertAgent`, `DeleteAgent`, `DropAgent` | the two rows of an agent; the deletion an artifact may refuse |
| `WriteArtifact` | a run at work stores an artifact |
| `CreateSquad`, `AddSquadMember`, `SetLeader`, `SetSquadLeader`, `ListSquadMembers`, `AddMember`, `RemoveMember`, `RemoveSquadMember`, `DeleteSquad` | `squad/service.go` |
| `UpdateIssue`, `ValidateAssignee`, `SaveIssue`, `ReadBack` | the assignee in `issue.UpdateIssue`: checks, the UPDATE, and the row read again, which the trigger gets |
| `OnIssueAssigned`, `MistakeAgent`, `CreateRun` | `Trigger`; a failing lookup that is taken for "no agent" |

`overtaken` and `unseated` are history: assignments of agents whose request read another assignee back, and
squads whose present leader a removal took off the roster. An agent's user can be an assignee only when its identifier has
been shown, which is after both of its rows are stored (identifiers are random; nobody can guess one).

### PullRequests

A text is two sets of numbers, those it names and those it asks to close; neither contains the other, because
the two are found by different expressions in different parts of the text. `asOf` is history: which issues
were there when the text was stored. `due`, `broken` and `finished` are history, too.

| actions | code |
|---|---|
| `UpsertPullRequest`, `StorePullRequest`, `LinkReferencedIssue`, `LinkIssue` | `UpsertPullRequest` and `linkReferencedIssues`, one key at a time |
| `UpdatePullRequestState`, `StoreState` | the state change |
| `ReadToClose`, `CloseIssue`, `RecordEvent` | `applyCloseIntents`, one key at a time |
| `CreateIssue`, `DeleteIssue`, `ReadIssue`, `WriteIssue` | what others do to the issues, numbers included |

### Discussion

Names are looked up in two tables. Notices go by `users.display_name` (`DisplayName`), which for an agent is written once,
when it is created; runs go by `agents.name` (`names`), which `UpdateAgent` changes. `renamed` is history: the agents that
got another name after a comment was stored.

| actions | code |
|---|---|
| `AddComment`, `PostComment`, `CreateComment`, `CommentRefused` | comments of people and of agents |
| `NotifyComment`, `NotifyMentions`, `Notify`, `Skip` | `notifyComment` and `notifyMentions`, one notice at a time; failures are skipped |
| `OnComment`, `Enqueue` | `MentionTrigger.OnComment` |
| `AddAttachment`, `WriteLimited`, `CreateAttachment`, `FailRow`, `LoseAnswer`, `RemoveFile` | `AddAttachment`: the file, the row (stored, refused, failing, or stored without an answer), and the file removed again |
| `SetMetadata`, `DeleteMetadata`, `AddSubscriber`, `RemoveSubscriber`, `MarkRead` | requests of one write |
| `UpdateIssue`, `DeleteIssue`, `DropAgent`, `UpdateAgent`, `TimePasses` | what happens around them |
| `Scan`, `NotifyIssue`, `Dedupe`, `Warn`, `Swallow`, `StopScan` | `DueScanner` of each server |

## Runs

Every run passes but `list_guard`, which expects a violation. The other configurations, `board_cycle.cfg` and so on,
reproduce sentences the code does not keep ("Known deviations").

| run | what it asks |
|---|---|
| `flow_race` | two members on one change, crashes, failures and deletions: the safety invariants that survive every interleaving, task mappings whose replacements overlap included |
| `flow_one` | one request at a time, three phases, crashes and failures: the promise is implemented, archives happen on open gates, a shut gate stays shut |
| `flow_live` | two workers (one an agent), no faults: every archive has been told to the parent's owner or is about to be, and is told in the end |
| `list_guard` | the PostgreSQL scan: the guard never sees an artifact |
| `queue` | two servers, two local runtimes, an agent of each kind, a fault: exclusive claims, the promise implemented (which has order per agent and true notices in it), no head-of-line blocking |
| `board` | two requests at a time that create and move issues: the last child to finish wakes the parent |
| `board_one` | every request, one at a time, with an editable directory, failures and crashes: no cycle, finished is final, wakeups are earned |
| `autopilot` | a scheduler and a request writing whole rows over each other, a failure: rows agree, no minute is skipped, what is due is served |
| `members` | two users, two requests at a time, a failure: invitations, creators, homes |
| `squads` | agents, squads and assignments, three requests at a time, a failure: references, runs, leaders |
| `pulls` | upserts and merges of one pull request while its issues are edited, deleted and renumbered, a failure: links, closing |
| `discussion` | comments and attachments by two requests, or due dates watched by two servers, a failure: who hears, what is stored, what is repeated |

What the passing runs show. Whatever stale copy is written last, a change never
stands at a phase whose predecessors lack artifacts (`PhaseBacked`) or that was not
handed off (`PhaseHandedOff`), because rows are only added and every copy was
legal when it was taken. An archived row has its evidence (`ArchivedWithEvidence`), wakeups
are earned (`WakeupEarned`). Mappings may end up with the rows of two plans, but each plan among them is bound
whole (`PlansBoundWhole`): its artifact is one that parses, all its sub-issues were created, and those that live are
bound to it, although sub-issues, mappings and artifacts are written by separate statements and a DELETE that saw
the rows of another plan took all of them.
`ShutGateStaysShut` is a property one would rather not have: a stale handoff, or
one whose advance died before the phase was written, can never be renewed, so
the change is stuck; the workflow offers no operation for it.

On the board, `LastChildWakes` holds for concurrent transitions because every transition writes its
own row before it lists its siblings': of two children that finish at once, the later writer sees
both. It is about what `TransitionStatus` and `CreateIssue` do. `Acyclic`, `TerminalIsFinal` and
`WakeupsEarned` are statements about one writer: with two, two moves that check each other's old parents
make a cycle (so do one move and a transition that writes an older parent back), a stale edit reopens an issue, and a new sibling or a changed directory comes between the judgement and the record.
`TerminalIsFinal` exempts a run that could not read its last write back and judges by an older copy; with the
targets of `board_one` no such run moves a finished issue, with two issues and more targets it does.

Autopilot rows are overwritten by stale copies, which may undo an edit, but the
copies are of whole rows, so that `RowsAgree` holds: storing the next run alone would break it. `NothingSkipped`
compares every intermediate state of the search with the definition of a match. `DueIsServed`
needs that a tick reschedules also what failed.

`AgentHears` says where a run may be lost: `UpdateIssue` starts the run of whoever the row names when it is read back after
the UPDATE (store/postgres/issues.go:143). When that is another assignee, nobody starts the run of the agent it had written,
and an edit of another field that read the agent in between writes it back. That pair is `overtaken`; every other order of three requests
keeps the run, which is why three handlers are needed. `LeaderEnlisted` says the same of leaders: a removal decided under another leader takes the present one off (`unseated`), and
nothing else does, a SetLeader whose roster row is still to come excepted.

`EveryoneHasAHome` is about registration, whose three statements leave a user without a workspace only if one fails.
Nothing is claimed of the last owner of a workspace: two demotions at once remove both owners, and a sole owner who
invites an own address as a member, or redeems an invitation, is demoted by the upsert without any count.

`LinksFollowText`, `MergeCloses`, `MentionsHeard` and `StorageAccounted` say that nothing is
silently lost between the statements of a request, also when requests about the same thing overlap; history
variables mark what a failure cut short, which the code does not repair. `MentionsHeard` speaks of people and agents apart:
people are told, by the display name; agents get a run, by the name they have when the comment is handled.
Agents renamed since are excepted, and comments that may have called an agent deleted since, whose refused run ends the loop.

Bounds. `MaxRows` is the length of a change's journal: a complete history with N=2
needs two artifacts, a handoff and a report (4 rows), and with N=3 six rows are exactly a complete history; a
rewrite or a second report takes the place of a row.
With N=2 every action and every
pair of neighbouring phases occurs; the run with N=3 has a middle phase, and the
proofs cover every N. Two workers suffice for every race above (each is one
reader and one writer); the proofs cover any number. One issue suffices because
no statement of the workflow touches two changes. `PlanSize` 2 and `MaxSubs` 4 let two plans of two sub-issues each be
bound, one over the other or both at once. A second plan is
bound in histories without reports only (`SecondPlans`), and `flow_race` leaves out tasks artifacts that do not parse, which
`flow_live` has. In the queue three runs are two of one agent with one of the
other between them, two servers can hold claims at once, and one fault is a rollback, a
lost answer or a stop. `CHECK_DEADLOCK FALSE`: a deleted issue, a queue that
reached its bound, or requests that are used up leave nothing to do.

On the board three issues are a parent with two children, a chain for the climb, or a cycle that the check
of the new parent alone misses. The status names of a run are those that it moves issues through: a start, a
final one that the owner may turn into an open one (`MCEntries`), and done, which close intents write.
`Assignees` are who issues get assigned to, `Requests` which requests are sent: `board` leaves out
the writers that wake nobody, `board_one` those combinations that differ by the assignee only. Its VIEW drops
`asked`, which no action's guard and none of its properties reads.

The calendar of `MCAutopilot` has hours of two minutes, days of three hours, weeks of two days and years of two months
of one or two days; every fourth year is a leap year of a kind, whose second month has a second day. A search may
cross the end of an hour, a day, a month and a year and may have to wait for a leap day. `Gap` is beyond the calendar, so
that it is `Regular`, which an ASSUME checks. A search looks two of its years ahead, where the code has five. `MaxNow` bounds the clock; the search looks beyond it, up to `Horizon`.
Two autopilots are one that is handled before the other in a list.

`MaxRequests` counts the requests sent, with all interleavings of two of them at a time (three in `squads`): six suffice in `members` for two registrations, an
invitation, its redemption and two changes of role, five in `squads`, three at a time, for an agent, two assignments, an edit between them and a deletion, or a squad, a new
leader and a removal; three in `pulls` for an upsert, a merge that overlaps it, and an edit (creating and deleting
issues is not counted); two in `discussion`, of which each is a chain of up to ten statements. There
`Apart` keeps scans out of behaviours with comments, attachments or renamed agents: they meet only in the rows of issues and
agents, which change in both. One name, `New`, is nobody's at first, and every comment mentions everybody by the first name. `MaxMishaps = 1` is one failure anywhere; the proofs cover any number. One `Crash`
there stops a request; that several stop at once is several mishaps.

Symmetry is used in `flow_race`, `board`, `board_one`, `members`, `squads`, `pulls` and `discussion` (requests, users, issues,
servers, files), none of which has a liveness property; the specifications treat these values alike.

Fairness. `ClassicFlow!FairSpec` is weak fairness of each worker's next
statement: a request is a goroutine that goes on; sending requests is never fair.
`RunQueue!FairSpec` is weak fairness of each server's steps: `Queue.Loop` polls every second
while the server lives. It includes the end of an execution, which the code justifies for
the tool loop (at most `MaxTurns` completions, each limited by the LLM client's
timeout) but not for the `git clone` of a checkout, which has no time limit: that is an
assumption, and a hazard of its own. Local runtimes get no fairness, since nobody
has to start one, and faults are bounded by `MaxFaults` and never fair.
`Autopilot!Spec` has weak fairness of each scheduler's `Tick` and of its next `Step`: `Scheduler.Loop`
ticks while the server lives. Requests and the clock are not fair, and a step by which an action fails is as good as one by
which it succeeds.

## Proofs

`ClassicFlowProofs` proves `Spec => []P` for `TypeOK`, `PhaseBacked`, `PhaseHandedOff`,
`ArchivedWithEvidence`, `WakeupEarned` and `PlansBoundWhole`, for every N >= 2, any sets
of issues and workers, with and without faults, from the named assumptions of
`ClassicFlow` alone. None of these is inductive: what `EnterPhase` writes was decided several
statements earlier. The inductive invariant `IInv` adds, for every worker, what its
program counter says of its other locals (`ControlOK`) and which facts about the tables
it may still rely on (`RowsOK`): for instance, at "enter" every phase up to its copy
has an artifact and the next phase has a handoff. These facts survive other
workers' steps because rows are only added (`TablesGrow`, `KeptRows`) until the whole change is
deleted, whereupon they claim nothing. One lemma per action (`...Step`) shows
`IInv'`; `NextOK` puts them together.

`PlansBoundWhole` has an invariant of its own on top (`PInv`). Of two workers that bind plans each has a tasks artifact of its own
(`Apart`) and holds every sub-issue ever made from it (`PlanOK`), so nobody else adds a row of that plan. And what a DELETE saw and will remove
is whole plans (`ClearedOK`), because the rows of a plan appear at one commit. It does not say that one plan is left, which is
false.

Four more theorems have the hypothesis `[]Alone`: no two requests in progress are about the same change. It allows any number
of workers on different changes, which the runs with one worker do not; two requests on one change refute the
properties. Their invariant `CInv` says that the phase a worker will write back is the one in the row and that the
gates it found open are open (`CopiesCurrent`). Each step then has one of a few effects on the tables of one change (`Effect`: it is
opened, gets a row, advances, is archived, is given up or deleted) or none, with the gates that were open, and from this
case analysis follow `ArchivedOnOpenGates`, `ShutGateStaysShut` and the refinement `KeepsPromise`: each effect is a step of
`ChangePromise` or a stutter.

`ArchivesAreTold` has the hypothesis `Faults = FALSE` and allows any overlap: of an archive that was not told, some worker is at
"wake" or "notify". It is the safety half of `ArchiveNotifies`. `UnscannedIsNeverArchived` goes with the run
`list_guard`: with `ListScans = FALSE` no worker ever passes the first gate, and nothing is ever archived.

`RunQueueProofs` proves `TypeOK`, `Exclusive`, `InOrder` and `ToldTruly` for any agents,
servers and runtimes. The invariant says what a claimer's program counter implies for the status
of its run (`Holding`), that no two busy claimers hold one run (`Apart`), and that a claim
in progress holds the oldest queued run of its agent (`OldestHeld`), which needs the
lock on the agent row: without it `InOrder` fails. The refinement `KeepsPromise`, which has no hypothesis, needs besides that
nobody has been told of a run that a claimer is busy with (`Untold`), so that each notice is the first of its run. `InOrder` and
`ToldTruly` are what two of its clauses come to in every state; the run checks the promise only.

`IssueBoardProofs` proves `TypeOK` for any number of workers, and `Acyclic` for one worker and any number of
issues, statuses and requests, with failures and crashes. A cycle is a non-empty set of existing issues whose
parents are all in the set. The invariant `Tree` says of the worker's copy that writing it makes no such set
(`Safe`), and while the ancestors are read that the one to be read next belongs to every set the move would
make a cycle (`Holds`); at the root none is left. `Known` (no row points to an issue still to be created) is what
keeps an insert from closing a cycle. It needs no induction over the length of the chain, which the provers could
not do. With any number of workers the tree is kept as long as nobody edits (`OnlyEditsEndangerTheTree`, hypothesis
`"edit" \notin Requests`, every other request and failures allowed): copies may be old, but the parent in them is the
issue's (`Unmoved`). One edit at a time is not enough, since another request may write an older parent back after it.

`TerminalIsFinal` and `WakeupsEarned` are proved for one worker, too. The invariant `Fits` says what of the
worker's reads still holds when it writes: the row it copied, the siblings it saw, that all of them were finished.

`LastChildWakes` is proved for any number of workers that create issues and move them while nothing fails (`OnlyMoves`, the
requests of the run `board`). The invariant (`Watched`) says that for every parent whose children are all finished the wakeup is
recorded and the assignee asked, or some worker will see to it (`Will`): one that has moved a child and has not listed the
siblings yet, or has listed finished ones only. When a list shows an unfinished sibling, whoever finishes that sibling
lists later. The other requests and failures refute it ("Known deviations", and the hazards).

`AutopilotProofs` proves `TypeOK`, `RowsAgree` and `NothingSkipped` for any autopilots, webhooks, servers, requests and
specifications, in every calendar that satisfies `Regular` (a hypothesis of the theorems, and true of UTC). The
invariant says that the copy a worker holds agrees with itself, except for the next run while that is
looked for, and that no minute between `after` and the candidate matches; one lemma for each of the four
jumps shows that it passes over minutes that cannot match.

`MembershipProofs` proves `TypeOK`, `OneJoinPerInvite`, `CreatorInside` and `EveryoneHasAHome`, and besides that answered
invitations are final (`Settled`). The invariant (`Sound`) says what each request may still rely on: a membership once seen
stays, and an invite it has accepted is nobody else's (`Alone`).

`SquadsProofs` proves `TypeOK`, `RowsRefer`, `AgentHears` and `LeaderEnlisted`. `AgentHears` needs that the assignee an edit has
read, and will write back, had its run then, or was about to get it, or was overtaken (`Heard`), that this stays true, and that runs go only
with their agents. `LeaderEnlisted` needs that whoever is made leader has a request that enlists it (`Seating`) until it is on the roster.

`PullRequestsProofs` proves `TypeOK`, `LinksFollowText`, `MergeCloses` and that a number stands for one
issue at a time (`OneIssuePerKey`). The invariant says that what is left of a request's loop holds every
key that is neither linked nor unresolvable yet, although the issue behind a key may change on the way:
an issue created later has a larger identifier than the text allows for (`asOf`).

`DiscussionProofs` proves `TypeOK`, `DueToldOnce`, `MentionsHeard` and `StorageAccounted`, by one invariant for each on top of
the types. For the notices: between the check and the insert the server has not given that notice, which only its
own scanner could do. For the mentions: the people a comment mentions have been told, or are still among those left, or the loop is
yet to come, with the assignee taken from the request's copy; the agents it may have called (`MayCall`: by the present name, or renamed since) have
their run, are left or were renamed. For the storage: no two requests have one file, and a file without a row
belongs to a request that will give it one or remove it.

Only model-checked: the liveness properties (`ArchiveNotifies`, `ServerRunsStart`, `DueIsServed`) and
everything under fairness, which the prover does not handle. Every invariant and action property of the passing runs
is a theorem; where its run has one worker or leaves requests out, the theorem has that, or less, as a hypothesis.
That `ParseField` and `DayMatches` mean what a cron manual means is not stated: they are
the definition.

## Known deviations

What the models show the code does otherwise than its documents, comments or column constraints say.
`list_guard` is a run of the project. Where a configuration is named alone, it is in this directory and TLC finds the property violated
with it (`tlc -config board_cycle.cfg MCBoard.tla`); the others are reproduced by a configuration of a run and the change given.
The properties that only serve this are in the MC modules.

| the sentence | what the code does | reproduce |
|---|---|---|
| gates hold at the archive (src/README.md:206-209) | gates are read one by one; an artifact or report of another worker comes between (workflow/guard.go:273) | `flow_one` with N = 2, two workers: `ArchivedOnOpenGates` |
| an archived change is finished | stale copies of the splitter or of an advance make it failed or active (workflow/splitter.go:242, guard.go:219) | `flow_race`: `ArchivedIsFinal` |
| the parent's owner receives a wakeup (src/docs/deploy.md:58) | a failure after the archive loses it, and Archive cannot be repeated (workflow/guard.go:284) | `flow_live` with `Faults = TRUE`: `ArchiveNotifies` |
| all sub-issues terminal wake the parent (src/README.md:199) | `set_status` of agents and close intents write the row only (agent/executor.go:349, pr/service.go:239) | `board_agent.cfg` (MCBoard): `LastChildWakes` |
| queued, running, done or failed (agent/queue.go:22-24) | a lost answer or stop leaves a run running (agent/queue.go:117) | `queue`, one server, one agent: `RunsEnd` |
| a broken autopilot cannot hot-loop the scheduler (automation/scheduler.go:37-39) | a date that never comes gives the zero time, due at every tick | `autopilot`, `Texts = {"never"}`, `Inputs <- MCNever`: `DueIsServed` |
| `Next` returns the first match or the zero time (cronexpr/cronexpr.go:59-61) | in a zone whose clocks are put forward `time.Date` may go back, and the loop does not end | `autopilot`, `Gap = 9`, `Texts = {"second"}`, `Inputs <- MCSecond`: `DueIsServed` |
| the mappings are replaced atomically, all bound to one artifact (store/store.go:298-299) | two replacements at READ COMMITTED do not see each other's rows: those of both plans stay (store/postgres/workflow.go:225-247) | `flow_replaced.cfg` (MCFlow): `MappingReplaced` |
| a new parent is none of the descendants (issue/service.go:510-512) | two moves at once, each checked against the other's old parent, make a cycle | `board_cycle.cfg` (MCBoard): `Acyclic` |
| no transition leaves a terminal status (src/README.md:197) | an edit writes back the whole row it read before the issue was finished (issue/service.go:421) | `board_final.cfg` (MCBoard): `TerminalIsFinal` |
| the last owner cannot be demoted (workspace/service.go:260-261) | two owners who demote each other at once are both demoted (service.go:289-297); invitations and redemptions do not count owners at all (service.go:147-149) | `members_owner.cfg` (MCMembership): `LastOwnerStays` |
| a run is enqueued whenever an issue is assigned to an agent (agent/queue.go:173-175) | the trigger gets the row that was read back, and an edit writes the agent back later (issue/service.go:421-429) | `squads_started.cfg` (MCSquads): `AssignedMeansStarted` |
| the leader cannot be removed (squad/service.go:166-167) | a removal that began before the member led goes through (squad/service.go:176-179) | `squads_leader.cfg` (MCSquads): `LeaderStays` |
| issues can be assigned to a squad (squad/service.go:1-3) | `issues.assignee_id` refers to `users` (migrations/0003_issue_domain.sql:9): the update fails | `squads_issues.cfg` (MCSquads): `SquadsTakeIssues` |
| terminal issues are left untouched (pr/service.go:221-222) | a close intent writes the whole row it read (pr/service.go:239) over a cancellation that came between | `pulls_terminal.cfg` (MCPulls): `TerminalUntouched` |
| the due-soon and overdue notices each fire exactly once (notification/due.go:34-36) | two servers look before either inserts (due.go:99) | `discussion_due.cfg` (MCDiscussion): `DueToldOnceInAll` |
| agents are not in the user directory (collab/service.go:220-224) | each has a row in `users`, which the directory lists (store/postgres/users.go:48-51) | `discussion_agents.cfg` (MCDiscussion): `OnlyHumansTold` |

Smaller ones, seen in the models but not stated as properties: an open pull request upserted as merged
closes its issues while its stored state stays open, because the conflict clause leaves the state
(store/postgres/pull_requests.go:38-51); after an agent is renamed a mention of its new name gives a run and no
notice, one of its old name a notice and no run (agent/service.go:127-151); an agent's comment may answer an answer, where people's threads are
single-level; a mentioned agent that is deleted meanwhile costs the agents behind it their runs
(agent/mention.go:35-41); due notices are told apart by title, so that a renamed issue is told of again and a postponed
date is not.

## Not modelled

Re-parenting an issue while its change is being archived (`HasParent` is a constant).
An insert whose foreign key lock makes a claim skip its agent for a moment (the claim is
then repeated a second later). Run logs and usage rows. Authorisation, beyond which
workers are project members. Text: prompts, skills, markdown, wording, and the expressions that find
keys and mentions in it. Signatures of webhooks and tokens, and passwords.
Request encoding, configuration, migrations and the frontend, which hold no state of
record. On the board: events, notices to subscribers (best effort, or one more statement that may
fail), positions, priorities, labels, stages; the classic
flow gate of set_status, which only refuses more. Of automation: what an action does to the issue or run it creates;
seconds, and `last_fired_at`, which nothing reads. Of projects: resources, context and worktrees. Typed properties of issues, which are
validated rows that no other step reads. The command line, whose binding file has one writer.

## Plan

What is left, in this order:

1. The executor's tool loop with the classic flow gate, joining `ClassicFlow` and `IssueBoard`: an assignment
   leads to a run, the run to an archive, the archive to a wakeup and the next run; liveness under server fairness.
2. Resources and worktrees of projects, and the typed properties.
