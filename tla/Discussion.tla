------------------------------ MODULE Discussion ------------------------------
(***************************************************************************)
(* What is said on issues and who hears of it (backend/internal/collab and *)
(* notification, and the mention trigger of agent): comments and mentions, *)
(* subscribers, attachments, metadata, and the notices of due dates.       *)
(* A request, an agent's tool call and a scan are a few statements each;   *)
(* they interleave and may fail between any two.                           *)
(*                                                                         *)
(* Of a comment the model keeps the names it mentions, and of a notice     *)
(* whom it is for and what of; the titles of issues do not change.  How an *)
(* issue gets its assignee, state and due date is the concern of           *)
(* IssueBoard.                                                             *)
(***************************************************************************)
EXTENDS Naturals

CONSTANTS
  Humans,       \* users who can sign in, members of the project
  Agents,       \* agents, each with a row in table users
  NoUser,
  Issues, NoIssue,
  Servers,      \* the due scanner of each server
  Handlers,     \* concurrent requests and tool calls
  Files, NoFile,   \* paths attachments are stored under, each made up once
  Keys,         \* keys of metadata
  Names,        \* what people are called
  DisplayName,  \* column display_name of table users
  Texts,        \* bound: the names comments mention
  MaxRequests,  \* bound: requests sent
  MaxMishaps    \* bound: statements that fail and requests and scans that stop half-way

People == Humans \union Agents
Comments == 1 .. MaxRequests

ASSUME PeopleAssumption == NoUser \notin People /\ Humans \intersect Agents = {}
ASSUME NonesAssumption == NoIssue \notin Issues /\ NoFile \notin Files
ASSUME NamesAssumption == DisplayName \in [People -> Names]
ASSUME TextsAssumption == Texts \subseteq SUBSET Names
ASSUME BoundsAssumption == {MaxRequests, MaxMishaps} \subseteq Nat

VARIABLES
  issues,       \* table issues
  agents,       \* table agents
  names,        \* column name of table agents
  subscribers,  \* table issue_subscribers
  comments,     \* table issue_comments
  told,         \* table notifications: who was told of which comment
  warned,       \* table notifications: how often each server gave each due notice
  unread,       \* the due notices that are not marked as read
  runs,         \* table runs: the issue, the comment and the agent it called
  attachments,  \* table issue_attachments: what the row of each file hangs on
  files,        \* the files in the attachment directory
  metadata,     \* table issue_metadata
  op,           \* what each handler is doing, with its local variables
  scan,         \* what each scanner is doing
  sent, mishaps,
  \* History:
  posted,       \* how many comments there have been: their identifiers are 1 .. posted
  renamed,      \* the agents that got another name after a comment was stored
  stored,       \* the files that have had a row
  spoiled       \* comments and files that a failure or a crash cut short

roster == <<agents, names, renamed>>
people == <<issues, roster, subscribers>>
talk == <<comments, told, runs, posted>>
notices == <<warned, unread>>
storage == <<attachments, files, stored>>
vars == <<people, talk, notices, storage, metadata, op, scan, sent, mishaps, spoiled>>

\* How far away the due date of an issue is; "far" stands for none, too.
Issue == [state : {"open", "closed", "gone"}, assignee : People \union {NoUser},
          due : {"far", "soon", "past"}]

\* under: the issues with which it is deleted, its own and those of the comments it answers.
Comment == [issue : Issues, parent : Comments \union {0}, author : People,
            mentions : SUBSET Names, under : SUBSET Issues]
NoComment == [issue |-> NoIssue, parent |-> 0, author |-> NoUser, mentions |-> {}, under |-> {}]

Warning == [user : People, issue : Issues, title : {"soon", "past"}]
NoWarning == [user |-> NoUser, issue |-> NoIssue, title |-> "none"]

\* The values metadataTypes accepts.
ValuesOf == [string |-> {"word", "1", "true"}, number |-> {"1"}, bool |-> {"true"}]
Entries == UNION {[type : {t}, value : ValuesOf[t]] : t \in DOMAIN ValuesOf}
NoEntry == [type |-> "none", value |-> "none"]

\* assignee: of the issue as it was read; left: who is still to be told or called.
Idle == [pc |-> "idle", issue |-> NoIssue, assignee |-> NoUser, parent |-> 0, author |-> NoUser,
         mentions |-> {}, comment |-> 0, left |-> {}, file |-> NoFile]
Ops == [pc : {"idle", "insert", "subscribers", "tell", "directory", "mention", "agents", "enqueue",
              "file", "row", "undo"},
        issue : Issues \union {NoIssue}, assignee : People \union {NoUser},
        parent : Comments \union {0}, author : People \union {NoUser}, mentions : SUBSET Names,
        comment : Comments \union {0}, left : SUBSET People, file : Files \union {NoFile}]
Resting == [pc |-> "idle", left |-> {}, notice |-> NoWarning]
Scans == [pc : {"idle", "dedupe", "warn"}, left : SUBSET Warning,
          notice : Warning \union {NoWarning}]

TypeOK ==
  /\ issues \in [Issues -> Issue]
  /\ agents \subseteq Agents /\ names \in [Agents -> Names]
  /\ subscribers \in [Issues -> SUBSET People]
  /\ comments \in [Comments -> Comment \union {NoComment}]
  /\ told \subseteq Comments \X People
  /\ warned \in [Servers -> [Warning -> Nat]] /\ unread \subseteq Warning
  /\ runs \subseteq Issues \X Comments \X Agents
  /\ attachments \in [Files -> SUBSET Issues] /\ files \subseteq Files
  /\ metadata \in [Issues -> [Keys -> Entries \union {NoEntry}]]
  /\ op \in [Handlers -> Ops] /\ scan \in [Servers -> Scans]
  /\ sent \in 0 .. MaxRequests /\ mishaps \in 0 .. MaxMishaps
  /\ posted \in 0 .. MaxRequests /\ stored \subseteq Files
  /\ renamed \subseteq Comments \X Agents
  /\ spoiled \subseteq Comments \union Files

------------------------------------------------------------------------------
At(h, pc) == op[h].pc = pc
Move(h, o) == op' = [op EXCEPT ![h] = o]
Send == sent < MaxRequests /\ sent' = sent + 1
Mishap == mishaps < MaxMishaps /\ mishaps' = mishaps + 1

Exists(i) == i \in Issues /\ issues[i].state # "gone"
IsComment(c) == c \in Comments /\ comments[c] # NoComment

\* The loops over people: what comes after each, and the next round.
After(o) ==
  CASE o.pc = "tell" -> [o EXCEPT !.pc = "directory"]
    [] o.pc = "mention" -> [o EXCEPT !.pc = "agents"]
    [] OTHER -> Idle
Loop(o, left) == IF left = {} THEN After([o EXCEPT !.left = {}]) ELSE [o EXCEPT !.left = left]

------------------------------------------------------------------------------
(* Comments.                                                               *)

\* AddComment as far as CreateComment: threads are single-level.
AddComment(h, u, i, parent, m) ==
  /\ op[h] = Idle /\ Send /\ Exists(i)
  /\ parent # 0 => IsComment(parent) /\ comments[parent].issue = i /\ comments[parent].parent = 0
  /\ Move(h, [Idle EXCEPT !.pc = "insert", !.issue = i, !.assignee = issues[i].assignee,
                          !.parent = parent, !.author = u, !.mentions = m])
  /\ UNCHANGED <<people, talk, notices, storage, metadata, scan, mishaps, spoiled>>

\* post_comment of an agent at work, on an issue it has a run for (of any
\* kind, which the model leaves open), also of one deleted meanwhile: the
\* parent is any comment.
PostComment(h, a, i, parent, m) ==
  /\ op[h] = Idle /\ Send /\ Exists(i)
  /\ parent # 0 => IsComment(parent)
  /\ Move(h, [Idle EXCEPT !.pc = "insert", !.issue = i, !.parent = parent, !.author = a,
                          !.mentions = m])
  /\ UNCHANGED <<people, talk, notices, storage, metadata, scan, mishaps, spoiled>>

\* INSERT: the issue and the parent must still be there.  Only what a person
\* says makes notices.
CreateComment(h) ==
  LET o == op[h] IN
  /\ At(h, "insert") /\ Exists(o.issue) /\ (o.parent # 0 => IsComment(o.parent))
  /\ posted < MaxRequests /\ posted' = posted + 1
  /\ comments' = [comments EXCEPT ![posted + 1] =
       [issue |-> o.issue, parent |-> o.parent, author |-> o.author, mentions |-> o.mentions,
        under |-> {o.issue} \union (IF o.parent = 0 THEN {} ELSE comments[o.parent].under)]]
  /\ Move(h, [o EXCEPT !.comment = posted + 1,
                       !.pc = IF o.author \in Humans THEN "subscribers" ELSE "agents"])
  /\ UNCHANGED <<people, told, runs, notices, storage, metadata, scan, sent, mishaps, spoiled>>
CommentRefused(h) ==
  LET o == op[h] IN
  /\ At(h, "insert") /\ ~(Exists(o.issue) /\ (o.parent # 0 => IsComment(o.parent)))
  /\ Move(h, Idle)
  /\ UNCHANGED <<people, talk, notices, storage, metadata, scan, sent, mishaps, spoiled>>

\* The users with one of the names m: the directory is table users, which has a
\* row for each agent, too, under the name the agent was created with.
Called(m) == {u \in People : DisplayName[u] \in m}

\* Slip: notifyMentions skips the assignee the issue has by now.
NotifyAllButAssignee(h) ==
  LET o == op[h] IN
  /\ At(h, "directory")
  /\ Move(h, Loop([o EXCEPT !.pc = "mention"],
                  Called(o.mentions) \ {o.author, issues[o.issue].assignee}))
  /\ UNCHANGED <<people, talk, notices, storage, metadata, scan, sent, mishaps, spoiled>>

\* notifyComment and notifyMentions: who is to be told.
NotifyComment(h) ==
  LET o == op[h] IN
  /\ At(h, "subscribers")
  /\ Move(h, Loop([o EXCEPT !.pc = "tell"],
                  ({o.assignee} \union subscribers[o.issue]) \ {o.author, NoUser}))
  /\ UNCHANGED <<people, talk, notices, storage, metadata, scan, sent, mishaps, spoiled>>
NotifyMentions(h) ==
  LET o == op[h] IN
  /\ At(h, "directory")
  /\ Move(h, Loop([o EXCEPT !.pc = "mention"], Called(o.mentions) \ {o.author, o.assignee}))
  /\ UNCHANGED <<people, talk, notices, storage, metadata, scan, sent, mishaps, spoiled>>

\* Notify, one row each: it fails without a word when the issue is gone.
Notify(h, u) ==
  LET o == op[h] IN
  /\ o.pc \in {"tell", "mention"} /\ u \in o.left
  /\ told' = IF Exists(o.issue) THEN told \union {<<o.comment, u>>} ELSE told
  /\ Move(h, Loop(o, o.left \ {u}))
  /\ UNCHANGED <<people, comments, runs, posted, notices, storage, metadata, scan, sent,
                 mishaps, spoiled>>

\* OnComment: the agents mentioned by the names they have now, and a run for
\* each; the first that cannot be stored ends it.
OnComment(h) ==
  LET o == op[h] IN
  /\ At(h, "agents")
  /\ Move(h, Loop([o EXCEPT !.pc = "enqueue"],
                  {a \in agents : names[a] \in o.mentions} \ {o.author}))
  /\ UNCHANGED <<people, talk, notices, storage, metadata, scan, sent, mishaps, spoiled>>
Enqueue(h, a) ==
  LET o == op[h] IN
  /\ At(h, "enqueue") /\ a \in o.left
  /\ \/ /\ Exists(o.issue) /\ a \in agents
        /\ runs' = runs \union {<<o.issue, o.comment, a>>} /\ Move(h, Loop(o, o.left \ {a}))
     \/ ~(Exists(o.issue) /\ a \in agents) /\ Move(h, Idle) /\ UNCHANGED runs
  /\ UNCHANGED <<people, comments, told, posted, notices, storage, metadata, scan, sent,
                 mishaps, spoiled>>

\* A read or an insert of the notices fails: they are skipped, the comment goes on.
Skip(h) ==
  LET o == op[h] IN
  /\ Mishap /\ spoiled' = spoiled \union {o.comment}
  /\ \/ At(h, "subscribers")
        /\ Move(h, Loop([o EXCEPT !.pc = "tell"], {o.assignee} \ {o.author, NoUser}))
     \/ At(h, "directory") /\ Move(h, [o EXCEPT !.pc = "agents"])
     \/ o.pc \in {"tell", "mention"} /\ \E u \in o.left : Move(h, Loop(o, o.left \ {u}))
  /\ UNCHANGED <<people, talk, notices, storage, metadata, scan, sent>>

------------------------------------------------------------------------------
(* Attachments.                                                            *)

\* What a row for issue i and comment c refers to is there.
Attachable(i, c) == Exists(i) /\ (c # 0 => IsComment(c))

\* AddAttachment, on the issue or (c # 0) on one of its comments.
AddAttachment(h, i, c, f) ==
  /\ op[h] = Idle /\ Send /\ Attachable(i, c)
  /\ c # 0 => comments[c].issue = i
  /\ f \notin files \union stored \union spoiled /\ \A k \in Handlers : op[k].file # f
  /\ Move(h, [Idle EXCEPT !.pc = "file", !.issue = i, !.comment = c, !.file = f])
  /\ UNCHANGED <<people, talk, notices, storage, metadata, scan, mishaps, spoiled>>

\* writeLimited: the file is whole, or, too long or not written, removed again.
WriteLimited(h) ==
  LET o == op[h] IN
  /\ At(h, "file")
  /\ \/ files' = files \union {o.file} /\ Move(h, [o EXCEPT !.pc = "row"])
     \/ Move(h, Idle) /\ UNCHANGED files
  /\ UNCHANGED <<people, talk, notices, attachments, stored, metadata, scan, sent, mishaps,
                 spoiled>>

Row(o) == IF o.comment = 0 THEN {o.issue} ELSE {o.issue} \union comments[o.comment].under

\* Slip: the row is refused, and the request ends there.
CreateOrStop(h) ==
  LET o == op[h] IN
  /\ At(h, "row") /\ Move(h, Idle)
  /\ IF Attachable(o.issue, o.comment)
     THEN /\ attachments' = [attachments EXCEPT ![o.file] = Row(o)]
          /\ stored' = stored \union {o.file}
     ELSE UNCHANGED <<attachments, stored>>
  /\ UNCHANGED <<people, talk, notices, files, metadata, scan, sent, mishaps, spoiled>>
CreateAttachment(h) ==
  LET o == op[h] IN
  /\ At(h, "row")
  /\ \/ /\ Attachable(o.issue, o.comment)
        /\ attachments' = [attachments EXCEPT ![o.file] = Row(o)]
        /\ stored' = stored \union {o.file} /\ Move(h, Idle)
     \/ /\ ~Attachable(o.issue, o.comment) /\ Move(h, [o EXCEPT !.pc = "undo"])
        /\ UNCHANGED <<attachments, stored>>
  /\ UNCHANGED <<people, talk, notices, files, metadata, scan, sent, mishaps, spoiled>>
\* The insert fails: nothing is stored, or the row is and its answer lost.
FailRow(h) ==
  /\ At(h, "row") /\ Mishap /\ Move(h, [op[h] EXCEPT !.pc = "undo"])
  /\ UNCHANGED <<people, talk, notices, storage, metadata, scan, sent, spoiled>>
LoseAnswer(h) ==
  LET o == op[h] IN
  /\ At(h, "row") /\ Mishap /\ Attachable(o.issue, o.comment)
  /\ attachments' = [attachments EXCEPT ![o.file] = Row(o)]
  /\ stored' = stored \union {o.file} /\ spoiled' = spoiled \union {o.file}
  /\ Move(h, [o EXCEPT !.pc = "undo"])
  /\ UNCHANGED <<people, talk, notices, files, metadata, scan, sent>>
RemoveFile(h) ==
  /\ At(h, "undo") /\ files' = files \ {op[h].file} /\ Move(h, Idle)
  /\ UNCHANGED <<people, talk, notices, attachments, stored, metadata, scan, sent, mishaps,
                 spoiled>>

\* The server dies in the middle of a request.
Crash(h) ==
  LET o == op[h] IN
  /\ o # Idle /\ Mishap /\ Move(h, Idle)
  /\ spoiled' = spoiled \union
       (IF o.file # NoFile THEN {o.file} ELSE IF o.comment # 0 THEN {o.comment} ELSE {})
  /\ UNCHANGED <<people, talk, notices, storage, metadata, scan, sent>>

------------------------------------------------------------------------------
(* Requests of one write each.                                             *)

\* Slip: the value is not checked against the type.
SetAnything(i, k, e) ==
  /\ Send /\ Exists(i) /\ e \in Entries
  /\ \E v \in ValuesOf.string : metadata' = [metadata EXCEPT ![i][k] = [type |-> e.type, value |-> v]]
  /\ UNCHANGED <<people, talk, notices, storage, op, scan, mishaps, spoiled>>

SetMetadata(i, k, e) ==
  /\ Send /\ Exists(i) /\ e \in Entries
  /\ metadata' = [metadata EXCEPT ![i][k] = e]
  /\ UNCHANGED <<people, talk, notices, storage, op, scan, mishaps, spoiled>>
DeleteMetadata(i, k) ==
  /\ Send /\ Exists(i) /\ metadata[i][k] # NoEntry
  /\ metadata' = [metadata EXCEPT ![i][k] = NoEntry]
  /\ UNCHANGED <<people, talk, notices, storage, op, scan, mishaps, spoiled>>

AddSubscriber(i, u) ==
  /\ Send /\ Exists(i)
  /\ subscribers' = [subscribers EXCEPT ![i] = @ \union {u}]
  /\ UNCHANGED <<issues, roster, talk, notices, storage, metadata, op, scan, mishaps, spoiled>>
RemoveSubscriber(i, u) ==
  /\ Send /\ Exists(i) /\ u \in subscribers[i]
  /\ subscribers' = [subscribers EXCEPT ![i] = @ \ {u}]
  /\ UNCHANGED <<issues, roster, talk, notices, storage, metadata, op, scan, mishaps, spoiled>>

\* MarkRead of one notice, MarkAllRead of a user's.
MarkRead(X) ==
  /\ Send /\ X # {} /\ X \subseteq unread /\ unread' = unread \ X
  /\ UNCHANGED <<people, talk, warned, storage, metadata, op, scan, mishaps, spoiled>>

UpdateIssue(i, new) ==
  /\ Send /\ Exists(i) /\ new.state # "gone"
  /\ issues' = [issues EXCEPT ![i] = new]
  /\ UNCHANGED <<roster, subscribers, talk, notices, storage, metadata, op, scan, mishaps, spoiled>>

\* All that hangs on the issue goes with it, but for the notices and the files.
DeleteIssue(i) ==
  /\ Send /\ Exists(i)
  /\ issues' = [issues EXCEPT ![i].state = "gone"]
  /\ comments' = [c \in Comments |-> IF i \in comments[c].under THEN NoComment ELSE comments[c]]
  /\ runs' = {r \in runs : r[1] # i}
  /\ attachments' = [f \in Files |-> IF i \in attachments[f] THEN {} ELSE attachments[f]]
  /\ subscribers' = [subscribers EXCEPT ![i] = {}]
  /\ metadata' = [metadata EXCEPT ![i] = [k \in Keys |-> NoEntry]]
  /\ UNCHANGED <<roster, told, posted, notices, files, stored, op, scan, mishaps, spoiled>>

\* DeleteAgent: its runs go, its row in table users stays.
DropAgent(a) ==
  /\ Send /\ a \in agents /\ agents' = agents \ {a}
  /\ runs' = {r \in runs : r[3] # a}
  /\ UNCHANGED <<issues, names, renamed, subscribers, comments, told, posted, notices, storage,
                 metadata, op, scan, mishaps, spoiled>>

\* UpdateAgent: the whole row is written as it was read but for what is
\* edited, so n may also be an old name; table users keeps the first one.
UpdateAgent(a, n) ==
  /\ Send /\ a \in agents /\ n # names[a] /\ names' = [names EXCEPT ![a] = n]
  /\ renamed' = renamed \union ((1 .. posted) \X {a})
  /\ UNCHANGED <<issues, agents, subscribers, talk, notices, storage, metadata, op, scan, mishaps,
                 spoiled>>

TimePasses(i) ==
  /\ Exists(i) /\ issues[i].due # "past"
  /\ issues' = [issues EXCEPT ![i].due = IF @ = "far" THEN "soon" ELSE "past"]
  /\ UNCHANGED <<roster, subscribers, talk, notices, storage, metadata, op, scan, sent, mishaps,
                 spoiled>>

------------------------------------------------------------------------------
(* Due dates.                                                              *)

Step(s, c) == scan' = [scan EXCEPT ![s] = c]

\* ListIssuesWithDueDate, and what notifyIssue makes of each with the clock of then.
Due == {x \in Warning : /\ issues[x.issue].state = "open" /\ issues[x.issue].due = x.title
                        /\ issues[x.issue].assignee = x.user}
Scan(s) ==
  /\ scan[s] = Resting /\ Due # {}
  /\ Step(s, [Resting EXCEPT !.left = Due])
  /\ UNCHANGED <<people, talk, notices, storage, metadata, op, sent, mishaps, spoiled>>
Done(s) == [Resting EXCEPT !.left = scan[s].left]

\* notifyIssue up to isAgent: a lookup that fails makes a human of an agent.
NotifyIssue(s, x) ==
  LET left == scan[s].left \ {x} IN
  /\ scan[s].pc = "idle" /\ x \in scan[s].left
  /\ \/ x.user \in agents /\ Step(s, [scan[s] EXCEPT !.left = left]) /\ UNCHANGED mishaps
     \/ /\ IF x.user \in agents THEN Mishap ELSE UNCHANGED mishaps
        /\ Step(s, [pc |-> "dedupe", left |-> left, notice |-> x])
  /\ UNCHANGED <<people, talk, notices, storage, metadata, op, sent, spoiled>>

\* Slip: a notice that was read does not count.
HasUnread(x) == Exists(x.issue) /\ x \in unread

\* HasNotificationForIssue: notices of a deleted issue name no issue.
HasNotification(x) == Exists(x.issue) /\ \E s \in Servers : warned[s][x] > 0
Dedupe(s) ==
  /\ scan[s].pc = "dedupe"
  /\ Step(s, IF HasNotification(scan[s].notice) THEN Done(s) ELSE [scan[s] EXCEPT !.pc = "warn"])
  /\ UNCHANGED <<people, talk, notices, storage, metadata, op, sent, mishaps, spoiled>>

Warn(s) ==
  LET x == scan[s].notice IN
  /\ scan[s].pc = "warn" /\ Step(s, Done(s))
  /\ IF Exists(x.issue)
     THEN warned' = [warned EXCEPT ![s][x] = @ + 1] /\ unread' = unread \union {x}
     ELSE UNCHANGED notices
  /\ UNCHANGED <<people, talk, storage, metadata, op, sent, mishaps, spoiled>>

\* A check or an insert that fails is logged, and the next issue has its turn.
Swallow(s) ==
  /\ scan[s].pc \in {"dedupe", "warn"} /\ Mishap /\ Step(s, Done(s))
  /\ UNCHANGED <<people, talk, notices, storage, metadata, op, sent, spoiled>>

\* The server dies in the middle of a scan; its next one starts afresh.
StopScan(s) ==
  /\ scan[s] # Resting /\ Mishap /\ Step(s, Resting)
  /\ UNCHANGED <<people, talk, notices, storage, metadata, op, sent, spoiled>>

------------------------------------------------------------------------------
Init ==
  /\ issues \in [Issues -> [state : {"open"}, assignee : People \union {NoUser}, due : {"far"}]]
  /\ agents = Agents /\ names = [a \in Agents |-> DisplayName[a]] /\ renamed = {}
  /\ subscribers = [i \in Issues |-> {}]
  /\ comments = [c \in Comments |-> NoComment] /\ told = {} /\ runs = {} /\ posted = 0
  /\ warned = [s \in Servers |-> [x \in Warning |-> 0]] /\ unread = {}
  /\ attachments = [f \in Files |-> {}] /\ files = {} /\ stored = {}
  /\ metadata = [i \in Issues |-> [k \in Keys |-> NoEntry]]
  /\ op = [h \in Handlers |-> Idle] /\ scan = [s \in Servers |-> Resting]
  /\ sent = 0 /\ mishaps = 0 /\ spoiled = {}

Handle(h) ==
  \/ \E i \in Issues, p \in Comments \union {0}, m \in Texts :
       \/ \E u \in Humans : AddComment(h, u, i, p, m)
       \/ \E a \in Agents : PostComment(h, a, i, p, m)
  \/ CreateComment(h) \/ CommentRefused(h)
  \/ NotifyComment(h) \/ NotifyMentions(h) \/ (\E u \in People : Notify(h, u))
  \/ OnComment(h) \/ (\E a \in Agents : Enqueue(h, a)) \/ Skip(h)
  \/ \E i \in Issues, c \in Comments \union {0}, f \in Files : AddAttachment(h, i, c, f)
  \/ WriteLimited(h) \/ CreateAttachment(h) \/ FailRow(h) \/ LoseAnswer(h) \/ RemoveFile(h)
  \/ Crash(h)

Request ==
  \/ \E i \in Issues, k \in Keys : (\E e \in Entries : SetMetadata(i, k, e)) \/ DeleteMetadata(i, k)
  \/ \E i \in Issues, u \in People : AddSubscriber(i, u) \/ RemoveSubscriber(i, u)
  \/ \E X \in {{x} : x \in unread} \union {{x \in unread : x.user = u} : u \in People} : MarkRead(X)
  \/ \E i \in Issues : (\E new \in Issue : UpdateIssue(i, new)) \/ DeleteIssue(i) \/ TimePasses(i)
  \/ \E a \in Agents : DropAgent(a) \/ \E n \in Names : UpdateAgent(a, n)

Scanner(s) ==
  \/ Scan(s) \/ (\E x \in Warning : NotifyIssue(s, x))
  \/ Dedupe(s) \/ Warn(s) \/ Swallow(s) \/ StopScan(s)

Next == (\E h \in Handlers : Handle(h)) \/ Request \/ (\E s \in Servers : Scanner(s))
Spec == Init /\ [][Next]_vars

------------------------------------------------------------------------------
(* Properties.                                                             *)

\* No server gives a user the same due notice twice, whatever is read, edited
\* or lost in between: the notices are looked up before each (DueScanner.
\* notifyIssue), and the due-soon and the overdue notice "each fire exactly
\* once" (due.go).  Two servers may each give it.
DueToldOnce == \A s \in Servers, x \in Warning : warned[s][x] <= 1

\* When nobody is busy with a comment any more, every other person that a
\* person's comment mentions has been told of it, be it as the assignee the
\* issue had then, and whoever wrote it, the agents it mentions have a run for
\* it: agents' "mention trigger enqueues runs instead" (collab/service.go).
\* Excepted are comments that a failure cut short; for agents, those renamed
\* since, and the comments that may have called an agent deleted since
\* (notifyComment, notifyMentions, MentionTrigger.OnComment).
Busy(c) == \E h \in Handlers : op[h].comment = c /\ op[h].file = NoFile
MentionsHeard ==
  \A c \in Comments \ spoiled : comments[c] # NoComment /\ ~Busy(c) =>
    LET row == comments[c]
        mayCall == {a \in Agents \ {row.author} : <<c, a>> \in renamed \/ names[a] \in row.mentions} IN
    /\ row.author \in Humans =>
         \A u \in Humans \ {row.author} : DisplayName[u] \in row.mentions => <<c, u>> \in told
    /\ mayCall \subseteq agents =>
         \A a \in mayCall : <<c, a>> \in renamed \/ <<row.issue, c, a>> \in runs

\* An attachment that is listed has its file, and a file that is kept has had
\* its row, unless a crash or a lost answer cut the upload short: what fails in
\* AddAttachment takes the file with it.
StorageAccounted ==
  \A f \in Files \ spoiled :
    /\ attachments[f] # {} => f \in files
    /\ f \in files => f \in stored \/ \E h \in Handlers : op[h].file = f
==============================================================================
