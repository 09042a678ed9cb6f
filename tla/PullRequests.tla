----------------------------- MODULE PullRequests ------------------------------
(***************************************************************************)
(* Pull requests of backend/internal/pr: an upsert stores the text of a    *)
(* pull request and links the issues it names; a merge closes the issues   *)
(* the text asks to close.  Between the statements of a request the issues *)
(* are created, edited, moved and deleted by others, who write whole rows. *)
(*                                                                         *)
(* A text is what the key parser makes of it: the numbers it names, and    *)
(* the numbers it asks to close.  The second need not be among the first:  *)
(* closing keys are matched in any case and not in the branch name, naming *)
(* keys in upper case only.  The model has one project and its key prefix. *)
(***************************************************************************)
EXTENDS Naturals

CONSTANTS
  PRs,          \* pull requests, each with its repository and number
  NoPR,
  Texts,        \* bound: what pull requests are made to say
  Handlers,     \* concurrent requests
  Requests,     \* bound: the requests that are sent
  Numbers,      \* bound: the numbers of issues
  MaxIssues,    \* bound: issues created
  MaxRequests,  \* bound: requests sent
  MaxMishaps    \* bound: requests that fail half-way

Kinds == {"upsert", "state", "edit"}
States == {"open", "merged", "closed"}
Text == [named : SUBSET Numbers, closing : SUBSET Numbers]
Blank == [named |-> {}, closing |-> {}]

ASSUME PRsAssumption == NoPR \notin PRs
ASSUME TextsAssumption == Texts \subseteq Text
ASSUME RequestsAssumption == Requests \subseteq Kinds
ASSUME BoundsAssumption ==
  Numbers \subseteq Nat \ {0} /\ {MaxIssues, MaxRequests, MaxMishaps} \subseteq Nat

VARIABLES
  issues,    \* table issues
  created,   \* how many issues there have been: their identifiers are 1 .. created
  prs,       \* table pull_requests
  links,     \* table issue_pull_requests
  timeline,  \* issues with an event that tells of a close intent
  op,        \* what each handler is doing, with its local variables
  sent, mishaps,
  \* History:
  finished,  \* issues that have had a terminal status
  due,       \* issues that merges undertook to close: pairs of a pull request and an issue
  broken     \* pull requests with a request that ended early since their last upsert

tables == <<issues, created, prs, links, timeline>>
promises == <<due, broken>>
vars == <<issues, created, prs, links, timeline, op, sent, mishaps, finished, due, broken>>

Ids == 1 .. MaxIssues

\* The statuses that matter: terminal ones, and all others.
Finished == {"done", "cancelled"}
IsTerminal(s) == s \in Finished
Statuses == Finished \union {"open"}
Issue == [number : Numbers \union {0}, status : Statuses \union {"none"}]
NoIssue == [number |-> 0, status |-> "none"]

\* asOf: how many issues there had been when the text was stored.
PullRequest == [state : States \union {"none"}, text : Text, asOf : 0 .. MaxIssues]
NoPullRequest == [state |-> "none", text |-> Blank, asOf |-> 0]

\* left: the keys still to be resolved; number: the key in hand; issue: the
\* issue it stands for.
Idle == [pc |-> "idle", pr |-> NoPR, text |-> Blank, state |-> "none", merges |-> FALSE,
         left |-> {}, number |-> 0, issue |-> 0]
Ops == [pc : {"idle", "upsert", "state", "link", "insert", "close", "done", "event", "write"},
        pr : PRs \union {NoPR}, text : Text, state : States \union Statuses \union {"none"},
        merges : BOOLEAN, left : SUBSET Numbers, number : Numbers \union {0},
        issue : Ids \union {0}]

TypeOK ==
  /\ issues \in [Ids -> Issue]
  /\ \A i \in Ids : issues[i].number = 0 <=> issues[i].status = "none"
  /\ created \in 0 .. MaxIssues
  /\ prs \in [PRs -> PullRequest]
  /\ links \subseteq PRs \X Ids
  /\ timeline \subseteq Ids
  /\ op \in [Handlers -> Ops]
  /\ sent \in 0 .. MaxRequests /\ mishaps \in 0 .. MaxMishaps
  /\ finished \subseteq Ids /\ due \subseteq PRs \X Ids /\ broken \subseteq PRs

------------------------------------------------------------------------------
At(h, pc) == op[h].pc = pc
Move(h, o) == op' = [op EXCEPT ![h] = o]
Begin(h, req) ==
  /\ op[h] = Idle /\ req \in Requests
  /\ sent < MaxRequests /\ sent' = sent + 1

Exists(i) == i \in Ids /\ issues[i].status # "none"

\* resolveIssueKey: the issue of this number, or 0.
Resolved(n, i) ==
  \/ Exists(i) /\ issues[i].number = n
  \/ i = 0 /\ \A j \in Ids : Exists(j) => issues[j].number # n

\* A request that ends in an error leaves its promises unkept.
Abort(h) ==
  /\ Move(h, Idle)
  /\ broken' = broken \union ({op[h].pr} \ {NoPR})
  /\ due' = {d \in due : d[1] # op[h].pr}
Promise(p, merges, text) ==
  due' = due \union
           ({p} \X {i \in Ids : merges /\ Exists(i) /\ issues[i].number \in text.closing})

\* The loop over the keys to close, and the one over the keys to link.
Closing(o, left) ==
  IF left = {} THEN Idle
  ELSE [o EXCEPT !.pc = "close", !.left = left, !.number = 0, !.issue = 0]
Linking(o, left) ==
  IF left # {} THEN [o EXCEPT !.pc = "link", !.left = left, !.number = 0, !.issue = 0]
  ELSE IF o.merges THEN Closing(o, o.text.closing) ELSE Idle

------------------------------------------------------------------------------
(* Upserts.                                                                *)

\* UpsertPullRequest up to currentPRState.
UpsertPullRequest(h, p, t, s) ==
  /\ Begin(h, "upsert")
  /\ Move(h, [Idle EXCEPT !.pc = "upsert", !.pr = p, !.text = t, !.state = s,
                          !.merges = (s = "merged" /\ prs[p].state # "merged")])
  /\ UNCHANGED <<tables, finished, promises, mishaps>>

\* INSERT ... ON CONFLICT DO UPDATE, which leaves the state of a known pull
\* request as it is.  (Slip: it leaves the text.)
StoreNew(h) ==
  LET o == op[h] IN
  /\ At(h, "upsert")
  /\ prs' = [prs EXCEPT ![o.pr] =
               IF @.state = "none" THEN [state |-> o.state, text |-> o.text, asOf |-> created]
               ELSE [@ EXCEPT !.asOf = created]]
  /\ Move(h, Linking(o, o.text.named))
  /\ broken' = broken \ {o.pr} /\ Promise(o.pr, o.merges, o.text)
  /\ UNCHANGED <<issues, created, links, timeline, finished, sent, mishaps>>

StorePullRequest(h) ==
  LET o == op[h] IN
  /\ At(h, "upsert")
  /\ prs' = [prs EXCEPT ![o.pr] =
               [state |-> IF @.state = "none" THEN o.state ELSE @.state,
                text |-> o.text, asOf |-> created]]
  /\ Move(h, Linking(o, o.text.named))
  /\ broken' = broken \ {o.pr} /\ Promise(o.pr, o.merges, o.text)
  /\ UNCHANGED <<issues, created, links, timeline, finished, sent, mishaps>>

\* One key of linkReferencedIssues.  (Slip: an unknown key ends the loop.)
LinkKnownFirst(h) ==
  \E n \in op[h].left, i \in Ids \union {0} :
    /\ At(h, "link") /\ Resolved(n, i)
    /\ Move(h, IF i = 0 THEN Linking(op[h], {})
               ELSE [op[h] EXCEPT !.pc = "insert", !.number = n, !.issue = i])
    /\ UNCHANGED <<tables, finished, promises, sent, mishaps>>

LinkReferencedIssue(h) ==
  \E n \in op[h].left, i \in Ids \union {0} :
    /\ At(h, "link") /\ Resolved(n, i)
    /\ Move(h, IF i = 0 THEN Linking(op[h], op[h].left \ {n})
               ELSE [op[h] EXCEPT !.pc = "insert", !.number = n, !.issue = i])
    /\ UNCHANGED <<tables, finished, promises, sent, mishaps>>

\* The foreign key fails when the issue has been deleted meanwhile.
LinkIssue(h) ==
  LET o == op[h] IN
  /\ At(h, "insert")
  /\ IF Exists(o.issue)
       THEN /\ links' = links \union {<<o.pr, o.issue>>}
            /\ Move(h, Linking(o, o.left \ {o.number}))
            /\ UNCHANGED promises
       ELSE Abort(h) /\ UNCHANGED links
  /\ UNCHANGED <<issues, created, prs, timeline, finished, sent, mishaps>>

------------------------------------------------------------------------------
(* State changes and close intents.                                        *)

\* UpdatePullRequestState up to its read of the row.
UpdatePullRequestState(h, p, s) ==
  /\ Begin(h, "state")
  /\ prs[p].state # "none"
  /\ Move(h, [Idle EXCEPT !.pc = "state", !.pr = p, !.state = s,
                          !.merges = (s = "merged" /\ prs[p].state # "merged")])
  /\ UNCHANGED <<tables, finished, promises, mishaps>>

\* The update returns the row, whose text may be newer than the one read.
StoreState(h) ==
  LET o == op[h] IN
  /\ At(h, "state")
  /\ prs' = [prs EXCEPT ![o.pr].state = o.state]
  /\ Move(h, IF o.merges
               THEN Closing([o EXCEPT !.text = prs[o.pr].text], prs[o.pr].text.closing)
               ELSE Idle)
  /\ Promise(o.pr, o.merges, prs[o.pr].text)
  /\ UNCHANGED <<issues, created, links, timeline, finished, broken, sent, mishaps>>

\* One key of applyCloseIntents: unknown and finished issues are skipped.
ReadToClose(h) ==
  \E n \in op[h].left, i \in Ids \union {0} :
    /\ At(h, "close") /\ Resolved(n, i)
    /\ Move(h, IF i = 0 \/ IsTerminal(issues[i].status) THEN Closing(op[h], op[h].left \ {n})
               ELSE [op[h] EXCEPT !.pc = "done", !.number = n, !.issue = i])
    /\ UNCHANGED <<tables, finished, promises, sent, mishaps>>

\* UpdateIssue of the store, with the row as it was read.
CloseIssue(h) ==
  LET o == op[h] IN
  /\ At(h, "done")
  /\ IF Exists(o.issue)
       THEN /\ issues' = [issues EXCEPT ![o.issue].status = "done"]
            /\ finished' = finished \union {o.issue}
            /\ Move(h, [o EXCEPT !.pc = "event"])
            /\ UNCHANGED promises
       ELSE Abort(h) /\ UNCHANGED <<issues, finished>>
  /\ UNCHANGED <<created, prs, links, timeline, sent, mishaps>>

\* recordEvent.  (Slip: the loop ends with the first issue it closes.)
RecordAndStop(h) ==
  LET o == op[h] IN
  /\ At(h, "event")
  /\ IF Exists(o.issue)
       THEN /\ timeline' = timeline \union {o.issue}
            /\ Move(h, Idle)
            /\ UNCHANGED promises
       ELSE Abort(h) /\ UNCHANGED timeline
  /\ UNCHANGED <<issues, created, prs, links, finished, sent, mishaps>>

RecordEvent(h) ==
  LET o == op[h] IN
  /\ At(h, "event")
  /\ IF Exists(o.issue)
       THEN /\ timeline' = timeline \union {o.issue}
            /\ Move(h, Closing(o, o.left \ {o.number}))
            /\ UNCHANGED promises
       ELSE Abort(h) /\ UNCHANGED timeline
  /\ UNCHANGED <<issues, created, prs, links, finished, sent, mishaps>>

------------------------------------------------------------------------------
(* The issues, as others change them.                                      *)

\* The next number is one more than the largest there is, so that the number
\* of a deleted issue may be given out again.
Existing == {i \in Ids : Exists(i)}
NextNumber(n) ==
  /\ \A i \in Existing : issues[i].number < n
  /\ n = 1 \/ \E i \in Existing : n = issues[i].number + 1

CreateIssue ==
  \E n \in Numbers :
    /\ created < MaxIssues /\ NextNumber(n)
    /\ created' = created + 1
    /\ issues' = [issues EXCEPT ![created + 1] = [number |-> n, status |-> "open"]]
    /\ UNCHANGED <<prs, links, timeline, op, sent, mishaps, finished, promises>>

\* Links and events go with the issue.
DeleteIssue(i) ==
  /\ Exists(i)
  /\ issues' = [issues EXCEPT ![i] = NoIssue]
  /\ links' = {l \in links : l[2] # i}
  /\ timeline' = timeline \ {i}
  /\ UNCHANGED <<created, prs, op, sent, mishaps, finished, promises>>

\* UpdateIssue and TransitionStatus of the board read the row first; only an
\* issue that is not finished may get another status.
ReadIssue(h, i, s) ==
  /\ Begin(h, "edit")
  /\ Exists(i)
  /\ s = issues[i].status \/ ~IsTerminal(issues[i].status)
  /\ Move(h, [Idle EXCEPT !.pc = "write", !.state = s, !.issue = i])
  /\ UNCHANGED <<tables, finished, promises, mishaps>>

\* The update is of no row when the issue has been deleted.
\* (Slip: the row is put back.)
WriteRow(h) ==
  LET o == op[h] IN
  /\ At(h, "write")
  /\ issues' = [issues EXCEPT ![o.issue].status = o.state]
  /\ finished' = finished \union {i \in {o.issue} : IsTerminal(o.state)}
  /\ Move(h, Idle)
  /\ UNCHANGED <<created, prs, links, timeline, promises, sent, mishaps>>

WriteIssue(h) ==
  LET o == op[h] IN
  /\ At(h, "write")
  /\ issues' = IF Exists(o.issue) THEN [issues EXCEPT ![o.issue].status = o.state] ELSE issues
  /\ finished' = finished \union {i \in {o.issue} : Exists(i) /\ IsTerminal(o.state)}
  /\ Move(h, Idle)
  /\ UNCHANGED <<created, prs, links, timeline, promises, sent, mishaps>>

\* A request may end between two of its statements.
Fail(h) ==
  /\ op[h] # Idle /\ mishaps < MaxMishaps
  /\ mishaps' = mishaps + 1
  /\ Abort(h)
  /\ UNCHANGED <<tables, finished, sent>>

------------------------------------------------------------------------------
Init ==
  /\ issues = [i \in Ids |-> NoIssue] /\ created = 0
  /\ prs = [p \in PRs |-> NoPullRequest]
  /\ links = {} /\ timeline = {}
  /\ op = [h \in Handlers |-> Idle]
  /\ sent = 0 /\ mishaps = 0
  /\ finished = {} /\ due = {} /\ broken = {}

Next ==
  \/ \E h \in Handlers :
       \/ \E p \in PRs, t \in Texts, s \in States : UpsertPullRequest(h, p, t, s)
       \/ StorePullRequest(h) \/ LinkReferencedIssue(h) \/ LinkIssue(h)
       \/ \E p \in PRs, s \in States : UpdatePullRequestState(h, p, s)
       \/ StoreState(h) \/ ReadToClose(h) \/ CloseIssue(h) \/ RecordEvent(h)
       \/ \E i \in Ids, s \in Statuses : ReadIssue(h, i, s)
       \/ WriteIssue(h) \/ Fail(h)
  \/ CreateIssue
  \/ \E i \in Ids : DeleteIssue(i)

Spec == Init /\ [][Next]_vars

------------------------------------------------------------------------------
(* linkReferencedIssues "links every issue referenced by the PR's title,   *)
(* body and head branch": every issue that was there when the text was     *)
(* stored and that it names is linked, or a request is about to link it,   *)
(* however upserts of the same pull request overlap and numbers are given  *)
(* out again; except after a request that ended early.                     *)
LinksFollowText ==
  \A p \in PRs \ broken, i \in Ids :
    Exists(i) /\ i <= prs[p].asOf /\ issues[i].number \in prs[p].text.named =>
      \/ <<p, i>> \in links
      \/ \E h \in Handlers :
           op[h].pr = p /\ op[h].pc \in {"link", "insert"} /\ issues[i].number \in op[h].left

(* An issue key stands for one issue: its number is never given to two     *)
(* issues at a time, although numbers are given out again.                 *)
OneIssuePerKey ==
  \A i, j \in Existing : issues[i].number = issues[j].number => i = j

(* A merge closes what its text asks to close: every issue that was there  *)
(* when the merge was stored and that the text asks to close, has been     *)
(* finished since or before, or a request is about to close it, unless the *)
(* issue is deleted or the request ends early.                             *)
ToClose(o) ==
  CASE o.pc \in {"close", "done", "event"} -> o.left
    [] o.pc \in {"link", "insert"} /\ o.merges -> o.text.closing
    [] OTHER -> {}
MergeCloses ==
  \A p \in PRs, i \in Ids :
    <<p, i>> \in due /\ Exists(i) =>
      \/ i \in finished
      \/ \E h \in Handlers : op[h].pr = p /\ issues[i].number \in ToClose(op[h])
==============================================================================
