-------------------------- MODULE PullRequestsProofs ---------------------------
(***************************************************************************)
(* Links follow the text of pull requests, and merges close what they ask  *)
(* for, for any number of pull requests, issues, texts and requests.       *)
(*                                                                         *)
(* The argument: a request in its loop owes the links, or the closings, of *)
(* the keys it has left.  Dropping a key is right because the number it    *)
(* resolved stands for one issue only (OneIssuePerKey) and because numbers *)
(* of issues do not change: what is created later has a new identifier,    *)
(* even if it is given an old number (Steady).                             *)
(***************************************************************************)
EXTENDS PullRequests, TLAPS

\* The numbers a request is still to link.
ToLink(o) == IF o.pc \in {"link", "insert"} THEN o.left ELSE {}

\* What the local variables of a request say of the tables.
Sound(o, is, cr, fin) ==
  /\ o.pc \in {"upsert", "state", "link", "insert", "close", "done", "event"} => o.pr \in PRs
  /\ o.pc \in {"upsert", "state"} => o.state \in States
  /\ o.pc = "write" => o.pr = NoPR /\ o.state \in Statuses
  /\ o.pc \in {"insert", "done", "event", "write"} => o.issue \in 1 .. cr
  /\ o.pc \in {"insert", "done", "event"} =>
       /\ o.number \in o.left
       /\ is[o.issue].status # "none" => is[o.issue].number = o.number
  /\ o.pc = "event" => o.issue \in fin

Ordered ==
  /\ \A i \in Existing : i <= created
  /\ \A p \in PRs : prs[p].asOf <= created
  /\ due \subseteq PRs \X (1 .. created)
FinishedKnown == \A i \in Existing : IsTerminal(issues[i].status) => i \in finished

IInv ==
  /\ TypeOK /\ Ordered /\ FinishedKnown /\ OneIssuePerKey
  /\ \A h \in Handlers : Sound(op[h], issues, created, finished)
  /\ LinksFollowText /\ MergeCloses

\* What no step does to an issue: to bring it back, or to renumber it.
Steady ==
  /\ \A i \in 1 .. created : Exists(i)' => Exists(i) /\ issues'[i].number = issues[i].number
  /\ created <= created' /\ finished \subseteq finished'

------------------------------------------------------------------------------
(* The loops.                                                              *)

LEMMA IdleOK ==
  ASSUME NEW is, NEW cr, NEW fin
  PROVE  /\ Idle \in Ops /\ Sound(Idle, is, cr, fin)
         /\ ToLink(Idle) = {} /\ ToClose(Idle) = {}
  BY DEF Idle, Ops, Sound, ToLink, ToClose, Blank, Text

LEMMA ClosingOK ==
  ASSUME NEW o \in Ops, o.pr \in PRs, NEW left \in SUBSET Numbers, NEW is, NEW cr, NEW fin
  PROVE  /\ Closing(o, left) \in Ops /\ Sound(Closing(o, left), is, cr, fin)
         /\ ToLink(Closing(o, left)) = {} /\ ToClose(Closing(o, left)) = left
         /\ left # {} => Closing(o, left).pr = o.pr
<1>1. CASE left = {}
  BY <1>1, IdleOK DEF Closing
<1>2. CASE left # {}
  <2> DEFINE c == [o EXCEPT !.pc = "close", !.left = left, !.number = 0, !.issue = 0]
  <2>1. c \in Ops /\ c.pc = "close" /\ c.left = left /\ c.pr = o.pr
    BY DEF Ops
  <2>2. Closing(o, left) = c
    BY <1>2 DEF Closing
  <2> HIDE DEF c
  <2> QED
    BY <2>1, <2>2 DEF Sound, ToLink, ToClose
<1> QED
  BY <1>1, <1>2

LEMMA LinkingOK ==
  ASSUME NEW o \in Ops, o.pr \in PRs, NEW left \in SUBSET Numbers, NEW is, NEW cr, NEW fin
  PROVE  /\ Linking(o, left) \in Ops /\ Sound(Linking(o, left), is, cr, fin)
         /\ ToLink(Linking(o, left)) = left
         /\ ToClose(Linking(o, left)) = IF o.merges THEN o.text.closing ELSE {}
         /\ left # {} \/ ToClose(Linking(o, left)) # {} => Linking(o, left).pr = o.pr
<1>0. o.text.closing \in SUBSET Numbers
  BY DEF Ops, Text
<1>1. CASE left = {} /\ ~o.merges
  BY <1>1, IdleOK DEF Linking
<1>2. CASE left = {} /\ o.merges
  BY <1>0, <1>2, ClosingOK DEF Linking
<1>3. CASE left # {}
  <2> DEFINE c == [o EXCEPT !.pc = "link", !.left = left, !.number = 0, !.issue = 0]
  <2>1. c \in Ops /\ c.pc = "link" /\ c.left = left /\ c.pr = o.pr /\ c.merges = o.merges
        /\ c.text = o.text
    BY DEF Ops
  <2>2. Linking(o, left) = c
    BY <1>3 DEF Linking
  <2> HIDE DEF c
  <2> QED
    BY <1>3, <2>1, <2>2 DEF Sound, ToLink, ToClose
<1> QED
  BY <1>1, <1>2, <1>3

------------------------------------------------------------------------------
(* Steps.                                                                  *)

LEMMA InitOK ==
  ASSUME Init
  PROVE  IInv
<1>1. TypeOK
  BY IdleOK, BoundsAssumption DEF Init, TypeOK, NoIssue, Issue, NoPullRequest, PullRequest, Blank, Text
<1>2. \A i \in Ids : ~Exists(i)
  BY DEF Init, Exists, NoIssue
<1>3. Ordered
  BY <1>2 DEF Init, Ordered, Existing, NoPullRequest
<1>4. \A h \in Handlers : Sound(op[h], issues, created, finished)
  BY IdleOK DEF Init
<1> QED
  BY <1>1, <1>2, <1>3, <1>4 DEF IInv, FinishedKnown, OneIssuePerKey, LinksFollowText, MergeCloses, Existing

\* Requests left alone stay sound.
LEMMA SoundStays ==
  ASSUME IInv, Steady, created' \in Nat, NEW g \in Handlers
  PROVE  Sound(op[g], issues', created', finished')
<1>1. created \in Nat /\ Sound(op[g], issues, created, finished)
  BY BoundsAssumption DEF IInv, TypeOK
<1>2. \A i \in 1 .. created : i \in 1 .. created'
  BY <1>1 DEF Steady
<1>3. \A i \in 1 .. created :
        issues'[i].status # "none" =>
          issues[i].status # "none" /\ issues'[i].number = issues[i].number
  <2>1. \A i \in 1 .. created : i \in Ids
    BY BoundsAssumption DEF IInv, TypeOK, Ids
  <2> QED
    BY <2>1 DEF Steady, Exists
<1> QED
  BY <1>1, <1>2, <1>3 DEF Sound, Steady

\* What a step of handler h has to show, if o is what it does next.
LEMMA StepOK ==
  ASSUME IInv, TypeOK', Ordered', FinishedKnown', OneIssuePerKey', Steady,
         LinksFollowText', MergeCloses',
         NEW h \in Handlers, NEW o, Move(h, o), Sound(o, issues', created', finished')
  PROVE  IInv'
<1>1. op'[h] = o /\ \A g \in Handlers \ {h} : op'[g] = op[g]
  BY DEF Move, IInv, TypeOK
<1>2. \A g \in Handlers : Sound(op[g], issues', created', finished')
  BY SoundStays, BoundsAssumption DEF TypeOK
<1>3. \A g \in Handlers : Sound(op'[g], issues', created', finished')
  BY <1>1, <1>2
<1> QED
  BY <1>3 DEF IInv

LEMMA LinksStay ==
  ASSUME IInv, Steady, NEW h \in Handlers, NEW o, Move(h, o),
         \A p \in PRs : prs'[p].text = prs[p].text /\ prs'[p].asOf = prs[p].asOf,
         broken \subseteq broken',
         \A l \in links : Exists(l[2])' => l \in links',
         \A p \in PRs \ broken', i \in Ids :
           Exists(i) /\ op[h].pr = p /\ issues[i].number \in ToLink(op[h]) =>
             <<p, i>> \in links' \/ (o.pr = p /\ issues[i].number \in ToLink(o))
  PROVE  LinksFollowText'
<1> SUFFICES ASSUME NEW p \in PRs \ broken', NEW i \in Ids, Exists(i)',
                    i <= prs'[p].asOf, issues'[i].number \in prs'[p].text.named,
                    ~(<<p, i>> \in links')
             PROVE  \E g \in Handlers : op'[g].pr = p /\ issues'[i].number \in ToLink(op'[g])
  BY DEF LinksFollowText, ToLink
<1>1. op'[h] = o /\ \A g \in Handlers \ {h} : op'[g] = op[g]
  BY DEF Move, IInv, TypeOK
<1>2. Exists(i) /\ issues'[i].number = issues[i].number /\ i <= prs[p].asOf
  <2>1. i <= prs[p].asOf /\ prs[p].asOf <= created /\ i \in Nat /\ prs[p].asOf \in Nat /\ created \in Nat /\ i >= 1
    BY BoundsAssumption DEF IInv, Ordered, TypeOK, PullRequest, Ids
  <2> QED
    BY <2>1 DEF Steady
<1>3. ~(<<p, i>> \in links)
  BY DEF Exists
<1>4. PICK g \in Handlers : op[g].pr = p /\ issues[i].number \in ToLink(op[g])
  BY <1>2, <1>3 DEF IInv, LinksFollowText, ToLink
<1> QED
  BY <1>1, <1>2, <1>4

LEMMA MergesStay ==
  ASSUME IInv, Steady, NEW h \in Handlers, NEW o, Move(h, o),
         \A p \in PRs, i \in Ids :
           <<p, i>> \in due' /\ <<p, i>> \notin due /\ Exists(i)' =>
             o.pr = p /\ issues'[i].number \in ToClose(o),
         \A p \in PRs, i \in Ids :
           <<p, i>> \in due' /\ Exists(i) /\ op[h].pr = p /\ issues[i].number \in ToClose(op[h]) =>
             i \in finished' \/ (o.pr = p /\ issues[i].number \in ToClose(o))
  PROVE  MergeCloses'
<1> SUFFICES ASSUME NEW p \in PRs, NEW i \in Ids, <<p, i>> \in due', Exists(i)', ~(i \in finished')
             PROVE  \E g \in Handlers : op'[g].pr = p /\ issues'[i].number \in ToClose(op'[g])
  BY DEF MergeCloses
<1>1. op'[h] = o /\ \A g \in Handlers \ {h} : op'[g] = op[g]
  BY DEF Move, IInv, TypeOK
<1>2. CASE <<p, i>> \notin due
  BY <1>1, <1>2
<1>3. CASE <<p, i>> \in due
  <2>1. Exists(i) /\ issues'[i].number = issues[i].number
    BY <1>3 DEF IInv, Ordered, Steady
  <2>2. ~(i \in finished)
    BY DEF Steady
  <2>3. PICK g \in Handlers : op[g].pr = p /\ issues[i].number \in ToClose(op[g])
    BY <1>3, <2>1, <2>2 DEF IInv, MergeCloses
  <2> QED
    BY <1>1, <2>1, <2>3
<1> QED
  BY <1>2, <1>3

\* Steps that leave the issues alone.
LEMMA RowsStay ==
  ASSUME IInv, issues' = issues, created' = created, finished' = finished
  PROVE  Steady /\ FinishedKnown' /\ OneIssuePerKey' /\ \A i : Exists(i)' <=> Exists(i)
<1>1. created \in Nat
  BY BoundsAssumption DEF IInv, TypeOK
<1> QED
  BY <1>1 DEF IInv, Steady, FinishedKnown, OneIssuePerKey, Existing, Exists

\* Steps that leave the tables alone, and the promises.
LEMMA QuietOK ==
  ASSUME IInv, UNCHANGED <<tables, finished, promises>>, sent' \in 0 .. MaxRequests,
         mishaps' = mishaps, NEW h \in Handlers, NEW o \in Ops, Move(h, o),
         Sound(o, issues, created, finished),
         \A p \in PRs, i \in Ids :
           Exists(i) /\ op[h].pr = p /\ issues[i].number \in ToLink(op[h]) =>
             o.pr = p /\ issues[i].number \in ToLink(o),
         \A p \in PRs, i \in Ids :
           Exists(i) /\ op[h].pr = p /\ issues[i].number \in ToClose(op[h]) =>
             i \in finished \/ (o.pr = p /\ issues[i].number \in ToClose(o))
  PROVE  IInv'
<1>1. TypeOK'
  BY DEF IInv, TypeOK, Move, tables, promises
<1>2. Steady /\ FinishedKnown' /\ OneIssuePerKey' /\ \A i : Exists(i)' <=> Exists(i)
  BY RowsStay DEF tables
<1>3. Ordered'
  BY <1>2 DEF IInv, Ordered, Existing, tables, promises
<1>4. LinksFollowText'
  BY <1>2, LinksStay DEF tables, promises
<1>5. MergeCloses'
  BY <1>2, MergesStay DEF tables, promises
<1> QED
  BY <1>1, <1>2, <1>3, <1>4, <1>5, StepOK DEF tables

\* A request begins.
LEMMA BeginOK ==
  ASSUME IInv, NEW h \in Handlers, NEW req, Begin(h, req), NEW o \in Ops, Move(h, o),
         UNCHANGED <<tables, finished, promises, mishaps>>, Sound(o, issues, created, finished)
  PROVE  IInv'
<1>1. sent' \in 0 .. MaxRequests
  BY BoundsAssumption DEF Begin, IInv, TypeOK
<1>2. ToLink(op[h]) = {} /\ ToClose(op[h]) = {}
  BY IdleOK DEF Begin
<1> QED
  BY <1>1, <1>2, QuietOK

LEMMA UpsertPullRequestOK ==
  ASSUME IInv, NEW h \in Handlers, NEW p \in PRs, NEW t \in Texts, NEW s \in States,
         UpsertPullRequest(h, p, t, s)
  PROVE  IInv'
<1> DEFINE o == [Idle EXCEPT !.pc = "upsert", !.pr = p, !.text = t, !.state = s,
                             !.merges = (s = "merged" /\ prs[p].state # "merged")]
<1>1. o \in Ops /\ o.pc = "upsert" /\ o.pr = p /\ o.state = s
  BY TextsAssumption DEF Idle, Ops
<1>2. Begin(h, "upsert") /\ Move(h, o) /\ UNCHANGED <<tables, finished, promises, mishaps>>
  BY DEF UpsertPullRequest
<1> HIDE DEF o
<1>3. Sound(o, issues, created, finished)
  BY <1>1 DEF Sound
<1> QED
  BY <1>1, <1>2, <1>3, BeginOK

LEMMA UpdatePullRequestStateOK ==
  ASSUME IInv, NEW h \in Handlers, NEW p \in PRs, NEW s \in States, UpdatePullRequestState(h, p, s)
  PROVE  IInv'
<1> DEFINE o == [Idle EXCEPT !.pc = "state", !.pr = p, !.state = s,
                             !.merges = (s = "merged" /\ prs[p].state # "merged")]
<1>1. o \in Ops /\ o.pc = "state" /\ o.pr = p /\ o.state = s
  BY DEF Idle, Ops, Blank, Text
<1>2. Begin(h, "state") /\ Move(h, o) /\ UNCHANGED <<tables, finished, promises, mishaps>>
  BY DEF UpdatePullRequestState
<1> HIDE DEF o
<1>3. Sound(o, issues, created, finished)
  BY <1>1 DEF Sound
<1> QED
  BY <1>1, <1>2, <1>3, BeginOK

LEMMA ReadIssueOK ==
  ASSUME IInv, NEW h \in Handlers, NEW i \in Ids, NEW s \in Statuses, ReadIssue(h, i, s)
  PROVE  IInv'
<1> DEFINE o == [Idle EXCEPT !.pc = "write", !.state = s, !.issue = i]
<1>1. o \in Ops /\ o.pc = "write" /\ o.pr = NoPR /\ o.state = s /\ o.issue = i
  BY DEF Idle, Ops, Blank, Text, IInv, TypeOK, Issue
<1>2. Begin(h, "edit") /\ Move(h, o) /\ UNCHANGED <<tables, finished, promises, mishaps>>
  BY DEF ReadIssue
<1> HIDE DEF o
<1>3. i \in 1 .. created
  <2>1. i \in Nat /\ i >= 1 /\ created \in Nat /\ i <= created
    BY BoundsAssumption DEF Ids, IInv, TypeOK, Ordered, Existing, ReadIssue
  <2> QED
    BY <2>1
<1>4. Sound(o, issues, created, finished)
  BY <1>1, <1>3 DEF Sound, ReadIssue
<1> QED
  BY <1>1, <1>2, <1>4, BeginOK

\* A resolved key.
LEMMA ResolvedOK ==
  ASSUME IInv, NEW n, NEW i \in Ids \union {0}, Resolved(n, i)
  PROVE  /\ i # 0 => i \in 1 .. created /\ Exists(i) /\ issues[i].number = n
         /\ i = 0 => \A j \in Ids : Exists(j) => issues[j].number # n
<1>1. CASE i = 0
  BY <1>1 DEF Resolved, Exists, Ids
<1>2. CASE i # 0
  <2>1. Exists(i) /\ issues[i].number = n
    BY <1>2 DEF Resolved
  <2>2. i \in Nat /\ i >= 1 /\ created \in Nat /\ i <= created
    BY <2>1, BoundsAssumption DEF Ids, IInv, TypeOK, Ordered, Existing, Exists
  <2> QED
    BY <1>2, <2>1, <2>2
<1> QED
  BY <1>1, <1>2

LEMMA LinkReferencedIssueOK ==
  ASSUME IInv, NEW h \in Handlers, LinkReferencedIssue(h)
  PROVE  IInv'
<1> DEFINE b == op[h]
<1>0. b \in Ops /\ b.pc = "link" /\ b.pr \in PRs /\ b.left \in SUBSET Numbers
  BY DEF LinkReferencedIssue, At, IInv, TypeOK, Ops, Sound
<1>1. PICK n \in b.left, i \in Ids \union {0} :
        /\ Resolved(n, i)
        /\ Move(h, IF i = 0 THEN Linking(b, b.left \ {n})
                   ELSE [b EXCEPT !.pc = "insert", !.number = n, !.issue = i])
        /\ UNCHANGED <<tables, finished, promises, sent, mishaps>>
  BY DEF LinkReferencedIssue
<1>2. sent' \in 0 .. MaxRequests
  BY <1>1 DEF IInv, TypeOK
<1>3. ToLink(b) = b.left /\ ToClose(b) = IF b.merges THEN b.text.closing ELSE {}
  BY <1>0 DEF ToLink, ToClose
<1>4. CASE i = 0
  <2> DEFINE o == Linking(b, b.left \ {n})
  <2>1. /\ o \in Ops /\ Sound(o, issues, created, finished)
        /\ ToLink(o) = b.left \ {n}
        /\ ToClose(o) = IF b.merges THEN b.text.closing ELSE {}
        /\ ToLink(o) # {} \/ ToClose(o) # {} => o.pr = b.pr
    BY <1>0, LinkingOK
  <2>2. Move(h, o)
    BY <1>1, <1>4
  <2>3. \A j \in Ids : Exists(j) => issues[j].number # n
    BY <1>1, <1>4, ResolvedOK
  <2> HIDE DEF o
  <2> QED
    BY <1>1, <1>2, <1>3, <2>1, <2>2, <2>3, QuietOK
<1>5. CASE i # 0
  <2> DEFINE o == [b EXCEPT !.pc = "insert", !.number = n, !.issue = i]
  <2>1. o \in Ops /\ o.pc = "insert" /\ o.pr = b.pr /\ o.left = b.left /\ o.merges = b.merges
        /\ o.text = b.text /\ o.number = n /\ o.issue = i
    BY <1>0 DEF Ops
  <2>2. Move(h, o)
    BY <1>1, <1>5
  <2>3. i \in 1 .. created /\ issues[i].number = n
    BY <1>1, <1>5, ResolvedOK
  <2> HIDE DEF o
  <2>4. Sound(o, issues, created, finished)
    BY <1>0, <2>1, <2>3 DEF Sound
  <2>5. ToLink(o) = b.left /\ ToClose(o) = IF b.merges THEN b.text.closing ELSE {}
    BY <2>1 DEF ToLink, ToClose
  <2> QED
    BY <1>1, <1>2, <1>3, <2>1, <2>2, <2>4, <2>5, QuietOK
<1> QED
  BY <1>4, <1>5

LEMMA ReadToCloseOK ==
  ASSUME IInv, NEW h \in Handlers, ReadToClose(h)
  PROVE  IInv'
<1> DEFINE b == op[h]
<1>0. b \in Ops /\ b.pc = "close" /\ b.pr \in PRs /\ b.left \in SUBSET Numbers
  BY DEF ReadToClose, At, IInv, TypeOK, Ops, Sound
<1>1. PICK n \in b.left, i \in Ids \union {0} :
        /\ Resolved(n, i)
        /\ Move(h, IF i = 0 \/ IsTerminal(issues[i].status) THEN Closing(b, b.left \ {n})
                   ELSE [b EXCEPT !.pc = "done", !.number = n, !.issue = i])
        /\ UNCHANGED <<tables, finished, promises, sent, mishaps>>
  BY DEF ReadToClose
<1>2. sent' \in 0 .. MaxRequests
  BY <1>1 DEF IInv, TypeOK
<1>3. ToLink(b) = {} /\ ToClose(b) = b.left
  BY <1>0 DEF ToLink, ToClose
<1>4. CASE i = 0 \/ IsTerminal(issues[i].status)
  <2> DEFINE o == Closing(b, b.left \ {n})
  <2>1. /\ o \in Ops /\ Sound(o, issues, created, finished)
        /\ ToClose(o) = b.left \ {n}
        /\ ToClose(o) # {} => o.pr = b.pr
    BY <1>0, ClosingOK
  <2>2. Move(h, o)
    BY <1>1, <1>4
  <2>3. \A j \in Ids : Exists(j) /\ issues[j].number = n => j \in finished
    <3>1. CASE i = 0
      BY <1>1, <3>1, ResolvedOK
    <3>2. CASE i # 0
      <4>1. Exists(i) /\ issues[i].number = n /\ IsTerminal(issues[i].status)
        BY <1>1, <1>4, <3>2, ResolvedOK
      <4>2. i \in finished
        BY <4>1 DEF IInv, FinishedKnown, Existing, Exists
      <4> QED
        BY <4>1, <4>2 DEF IInv, OneIssuePerKey, Existing, Exists
    <3> QED
      BY <3>1, <3>2
  <2> HIDE DEF o
  <2> QED
    BY <1>1, <1>2, <1>3, <2>1, <2>2, <2>3, QuietOK
<1>5. CASE ~(i = 0 \/ IsTerminal(issues[i].status))
  <2> DEFINE o == [b EXCEPT !.pc = "done", !.number = n, !.issue = i]
  <2>1. i \in 1 .. created /\ issues[i].number = n /\ i \in Ids
    BY <1>1, <1>5, ResolvedOK
  <2>2. o \in Ops /\ o.pc = "done" /\ o.pr = b.pr /\ o.left = b.left /\ o.number = n
        /\ o.issue = i
    BY <1>0, <2>1 DEF Ops, IInv, TypeOK, Issue
  <2>3. Move(h, o)
    BY <1>1, <1>5
  <2> HIDE DEF o
  <2>4. Sound(o, issues, created, finished)
    BY <1>0, <1>5, <2>1, <2>2 DEF Sound
  <2>5. ToClose(o) = b.left
    BY <2>2 DEF ToClose
  <2> QED
    BY <1>1, <1>2, <1>3, <2>2, <2>3, <2>4, <2>5, QuietOK
<1> QED
  BY <1>4, <1>5

\* A request that ends early breaks promises, but none that is not listed.
LEMMA AbortOK ==
  ASSUME IInv, NEW h \in Handlers, Abort(h), UNCHANGED <<tables, finished>>,
         sent' \in 0 .. MaxRequests, mishaps' \in 0 .. MaxMishaps
  PROVE  IInv'
<1>1. Move(h, Idle) /\ broken \subseteq broken' /\ due' \subseteq due
  BY DEF Abort
<1>2. op[h].pr \in PRs => op[h].pr \in broken' /\ \A i : <<op[h].pr, i>> \notin due'
  BY PRsAssumption DEF Abort
<1>3. TypeOK'
  <2>1. Idle \in Ops
    BY IdleOK
  <2>2. op' \in [Handlers -> Ops]
    BY <1>1, <2>1 DEF IInv, TypeOK, Move
  <2>3. due' \subseteq PRs \X Ids
    BY <1>1 DEF IInv, TypeOK
  <2>4. broken' \subseteq PRs
    <3>1. op[h].pr \in PRs \union {NoPR}
      BY DEF IInv, TypeOK, Ops
    <3> QED
      BY <3>1 DEF Abort, IInv, TypeOK
  <2> QED
    BY <2>2, <2>3, <2>4 DEF IInv, TypeOK, tables
<1>4. Steady /\ FinishedKnown' /\ OneIssuePerKey' /\ \A i : Exists(i)' <=> Exists(i)
  BY RowsStay DEF tables
<1>5. Ordered'
  BY <1>1, <1>4 DEF IInv, Ordered, Existing, tables
<1>6. LinksFollowText'
  BY <1>1, <1>2, <1>4, LinksStay DEF tables
<1>7. MergeCloses'
  BY <1>1, <1>2, <1>4, MergesStay DEF tables
<1> QED
  BY <1>1, <1>3, <1>4, <1>5, <1>6, <1>7, IdleOK, StepOK DEF tables

LEMMA FailOK ==
  ASSUME IInv, NEW h \in Handlers, Fail(h)
  PROVE  IInv'
<1>1. sent' \in 0 .. MaxRequests /\ mishaps' \in 0 .. MaxMishaps
  BY BoundsAssumption DEF Fail, IInv, TypeOK
<1> QED
  BY <1>1, AbortOK DEF Fail

LEMMA LinkIssueOK ==
  ASSUME IInv, NEW h \in Handlers, LinkIssue(h)
  PROVE  IInv'
<1> DEFINE b == op[h]
<1>0. /\ b \in Ops /\ b.pc = "insert" /\ b.pr \in PRs /\ b.left \in SUBSET Numbers
      /\ b.issue \in 1 .. created /\ (Exists(b.issue) => issues[b.issue].number = b.number)
  BY DEF LinkIssue, At, IInv, TypeOK, Ops, Sound, Exists
<1>1. UNCHANGED <<issues, created, prs, timeline, finished, sent, mishaps>>
  BY DEF LinkIssue
<1>2. CASE ~Exists(b.issue)
  <2>1. sent' \in 0 .. MaxRequests /\ mishaps' \in 0 .. MaxMishaps
    BY <1>1 DEF IInv, TypeOK
  <2> QED
    BY <1>1, <1>2, <2>1, AbortOK DEF LinkIssue, tables
<1>3. CASE Exists(b.issue)
  <2> DEFINE o == Linking(b, b.left \ {b.number})
  <2>1. Move(h, o) /\ links' = links \union {<<b.pr, b.issue>>} /\ UNCHANGED promises
    BY <1>3 DEF LinkIssue
  <2>2. /\ o \in Ops /\ Sound(o, issues, created, finished)
        /\ ToLink(o) = b.left \ {b.number}
        /\ ToClose(o) = IF b.merges THEN b.text.closing ELSE {}
        /\ ToLink(o) # {} \/ ToClose(o) # {} => o.pr = b.pr
    BY <1>0, LinkingOK
  <2>3. ToLink(b) = b.left /\ ToClose(b) = IF b.merges THEN b.text.closing ELSE {}
    BY <1>0 DEF ToLink, ToClose
  <2> HIDE DEF o
  <2>4. TypeOK'
    BY <1>0, <1>1, <1>3, <2>1, <2>2 DEF IInv, TypeOK, Move, promises, Exists
  <2>5. Steady /\ FinishedKnown' /\ OneIssuePerKey' /\ \A i : Exists(i)' <=> Exists(i)
    BY <1>1, RowsStay
  <2>6. Ordered'
    BY <1>1, <2>1, <2>5 DEF IInv, Ordered, Existing, promises
  <2>7. \A i \in Ids : Exists(i) /\ issues[i].number = b.number => i = b.issue
    BY <1>0, <1>3 DEF IInv, OneIssuePerKey, Existing, Exists
  <2>8. LinksFollowText'
    BY <1>1, <2>1, <2>2, <2>3, <2>5, <2>7, LinksStay DEF promises
  <2>9. MergeCloses'
    BY <1>1, <2>1, <2>2, <2>3, <2>5, MergesStay DEF promises
  <2> QED
    BY <1>1, <2>1, <2>2, <2>4, <2>5, <2>6, <2>8, <2>9, StepOK
<1> QED
  BY <1>2, <1>3

LEMMA StorePullRequestOK ==
  ASSUME IInv, NEW h \in Handlers, StorePullRequest(h)
  PROVE  IInv'
<1> DEFINE b == op[h]
           o == Linking(b, b.text.named)
<1>0. /\ b \in Ops /\ b.pc = "upsert" /\ b.pr \in PRs /\ b.state \in States
      /\ b.text \in Text /\ b.text.named \in SUBSET Numbers /\ b.text.closing \in SUBSET Numbers
  BY DEF StorePullRequest, At, IInv, TypeOK, Ops, Sound, Text
<1>1. /\ prs' = [prs EXCEPT ![b.pr] =
                  [state |-> IF @.state = "none" THEN b.state ELSE @.state,
                   text |-> b.text, asOf |-> created]]
      /\ Move(h, o) /\ broken' = broken \ {b.pr} /\ Promise(b.pr, b.merges, b.text)
      /\ UNCHANGED <<issues, created, links, timeline, finished, sent, mishaps>>
  BY DEF StorePullRequest
<1>2. /\ o \in Ops /\ Sound(o, issues, created, finished)
      /\ ToLink(o) = b.text.named
      /\ ToClose(o) = IF b.merges THEN b.text.closing ELSE {}
      /\ ToLink(o) # {} \/ ToClose(o) # {} => o.pr = b.pr
  BY <1>0, LinkingOK
<1>3. ToLink(b) = {} /\ ToClose(b) = {}
  BY <1>0 DEF ToLink, ToClose
<1> HIDE DEF o
<1>4. /\ prs'[b.pr].text = b.text /\ prs'[b.pr].asOf = created
      /\ \A p \in PRs \ {b.pr} : prs'[p] = prs[p]
  BY <1>0, <1>1 DEF IInv, TypeOK
<1>5. TypeOK'
  <2>1. prs' \in [PRs -> PullRequest]
    BY <1>0, <1>1 DEF IInv, TypeOK, PullRequest
  <2> QED
    BY <1>0, <1>1, <1>2, <2>1 DEF IInv, TypeOK, Move, Promise
<1>6. Steady /\ FinishedKnown' /\ OneIssuePerKey' /\ \A i : Exists(i)' <=> Exists(i)
  BY <1>1, RowsStay
<1>7. Ordered'
  <2>1. \A i \in Ids : Exists(i) => i \in 1 .. created
    BY BoundsAssumption DEF IInv, Ordered, Existing, TypeOK, Ids
  <2>2. due' \subseteq PRs \X (1 .. created)
    BY <1>0, <1>1, <2>1 DEF IInv, Ordered, Promise
  <2>3. created \in Nat
    BY BoundsAssumption DEF IInv, TypeOK
  <2>4. \A p \in PRs : prs'[p].asOf <= created
    BY <1>4, <2>3 DEF IInv, Ordered
  <2> QED
    BY <1>1, <1>6, <2>2, <2>4 DEF IInv, Ordered, Existing
<1>8. LinksFollowText'
  <2> SUFFICES ASSUME NEW p \in PRs \ broken', NEW i \in Ids, Exists(i),
                      i <= prs'[p].asOf, issues[i].number \in prs'[p].text.named,
                      ~(<<p, i>> \in links)
               PROVE  \E g \in Handlers : op'[g].pr = p /\ issues[i].number \in ToLink(op'[g])
    BY <1>1, <1>6 DEF LinksFollowText, ToLink
  <2>1. op'[h] = o /\ \A g \in Handlers \ {h} : op'[g] = op[g]
    BY <1>1 DEF Move, IInv, TypeOK
  <2>2. CASE p = b.pr
    BY <1>2, <1>4, <2>1, <2>2
  <2>3. CASE p # b.pr
    <3>1. p \in PRs \ broken /\ i <= prs[p].asOf /\ issues[i].number \in prs[p].text.named
      BY <1>1, <1>4, <2>3
    <3>2. PICK g \in Handlers : op[g].pr = p /\ issues[i].number \in ToLink(op[g])
      BY <3>1 DEF IInv, LinksFollowText, ToLink
    <3> QED
      BY <1>3, <2>1, <3>2
  <2> QED
    BY <2>2, <2>3
<1>9. MergeCloses'
  <2>1. \A p \in PRs, i \in Ids :
          <<p, i>> \in due' /\ <<p, i>> \notin due =>
            p = b.pr /\ b.merges /\ issues[i].number \in b.text.closing
    BY <1>1 DEF Promise
  <2> QED
    BY <1>1, <1>2, <1>3, <1>6, <2>1, MergesStay
<1> QED
  BY <1>1, <1>2, <1>5, <1>6, <1>7, <1>8, <1>9, StepOK

LEMMA StoreStateOK ==
  ASSUME IInv, NEW h \in Handlers, StoreState(h)
  PROVE  IInv'
<1> DEFINE b == op[h]
           t == prs[b.pr].text
           c == [b EXCEPT !.text = t]
           o == IF b.merges THEN Closing(c, t.closing) ELSE Idle
<1>0. /\ b \in Ops /\ b.pc = "state" /\ b.pr \in PRs /\ b.state \in States
      /\ t \in Text /\ t.closing \in SUBSET Numbers
  BY DEF StoreState, At, IInv, TypeOK, Ops, Sound, PullRequest, Text
<1>1. /\ prs' = [prs EXCEPT ![b.pr].state = b.state]
      /\ Move(h, o) /\ Promise(b.pr, b.merges, t)
      /\ UNCHANGED <<issues, created, links, timeline, finished, broken, sent, mishaps>>
  BY DEF StoreState
<1>2. c \in Ops /\ c.pr = b.pr
  BY <1>0 DEF Ops
<1> HIDE DEF t, c
<1>3. /\ o \in Ops /\ Sound(o, issues, created, finished)
      /\ ToClose(o) = IF b.merges THEN t.closing ELSE {}
      /\ ToClose(o) # {} => o.pr = b.pr
  BY <1>0, <1>2, ClosingOK, IdleOK
<1>4. ToLink(b) = {} /\ ToClose(b) = {}
  BY <1>0 DEF ToLink, ToClose
<1> HIDE DEF o
<1>5. \A p \in PRs : prs'[p].text = prs[p].text /\ prs'[p].asOf = prs[p].asOf
  BY <1>0, <1>1 DEF IInv, TypeOK, PullRequest
<1>6. TypeOK'
  <2>1. prs' \in [PRs -> PullRequest]
    BY <1>0, <1>1 DEF IInv, TypeOK, PullRequest
  <2> QED
    BY <1>0, <1>1, <1>3, <2>1 DEF IInv, TypeOK, Move, Promise
<1>7. Steady /\ FinishedKnown' /\ OneIssuePerKey' /\ \A i : Exists(i)' <=> Exists(i)
  BY <1>1, RowsStay
<1>8. Ordered'
  <2>1. \A i \in Ids : Exists(i) => i \in 1 .. created
    BY BoundsAssumption DEF IInv, Ordered, Existing, TypeOK, Ids
  <2>2. due' \subseteq PRs \X (1 .. created)
    BY <1>0, <1>1, <2>1 DEF IInv, Ordered, Promise
  <2> QED
    BY <1>1, <1>5, <1>7, <2>2 DEF IInv, Ordered, Existing
<1>9. LinksFollowText'
  BY <1>1, <1>4, <1>5, <1>7, LinksStay
<1>10. MergeCloses'
  <2>1. \A p \in PRs, i \in Ids :
          <<p, i>> \in due' /\ <<p, i>> \notin due =>
            p = b.pr /\ b.merges /\ issues[i].number \in t.closing
    BY <1>1 DEF Promise
  <2> QED
    BY <1>1, <1>3, <1>4, <1>7, <2>1, MergesStay
<1> QED
  BY <1>1, <1>3, <1>6, <1>7, <1>8, <1>9, <1>10, StepOK

\* A status is written over an issue that exists, which keeps its number.
LEMMA StatusOK ==
  ASSUME IInv, NEW j \in 1 .. created, Exists(j), NEW s \in Statuses,
         issues' = [issues EXCEPT ![j].status = s], created' = created,
         finished' = finished \union {i \in {j} : IsTerminal(s)},
         prs' = prs, due' = due
  PROVE  /\ Steady /\ FinishedKnown' /\ OneIssuePerKey' /\ Ordered'
         /\ issues' \in [Ids -> Issue]
         /\ \A i \in Ids : issues'[i].number = 0 <=> issues'[i].status = "none"
         /\ \A i \in Ids : Exists(i)' <=> Exists(i)
         /\ \A i \in Ids : issues'[i].number = issues[i].number
<1>1. j \in Ids /\ created \in Nat
  BY BoundsAssumption DEF Ids, IInv, TypeOK
<1>2. issues' \in [Ids -> Issue] /\ issues'[j].status = s /\ issues'[j].number = issues[j].number
      /\ \A i \in Ids \ {j} : issues'[i] = issues[i]
  BY <1>1 DEF IInv, TypeOK, Issue
<1>3. s # "none" /\ issues[j].status # "none"
  BY DEF Statuses, Finished, Exists
<1>4. \A i \in Ids : Exists(i)' <=> Exists(i)
  BY <1>1, <1>2, <1>3 DEF Exists
<1>5. \A i \in Ids : issues'[i].number = issues[i].number
  BY <1>1, <1>2
<1>6. \A i \in Ids : issues'[i].number = 0 <=> issues'[i].status = "none"
  BY <1>1, <1>2, <1>3, <1>5 DEF IInv, TypeOK
<1>7. Existing' = Existing
  BY <1>4 DEF Existing
<1>8. Steady
  <2>1. \A i \in 1 .. created : i \in Ids
    BY BoundsAssumption DEF IInv, TypeOK, Ids
  <2> QED
    BY <1>1, <1>4, <1>5, <2>1 DEF Steady
<1>9. FinishedKnown'
  BY <1>1, <1>2, <1>7 DEF IInv, FinishedKnown, Existing, Exists
<1>10. OneIssuePerKey'
  BY <1>5, <1>7 DEF IInv, OneIssuePerKey, Existing
<1>11. Ordered'
  BY <1>7 DEF IInv, Ordered
<1> QED
  BY <1>2, <1>4, <1>5, <1>6, <1>8, <1>9, <1>10, <1>11

LEMMA CloseIssueOK ==
  ASSUME IInv, NEW h \in Handlers, CloseIssue(h)
  PROVE  IInv'
<1> DEFINE b == op[h]
           o == [b EXCEPT !.pc = "event"]
<1>0. /\ b \in Ops /\ b.pc = "done" /\ b.pr \in PRs /\ b.number \in b.left
      /\ b.issue \in 1 .. created /\ (Exists(b.issue) => issues[b.issue].number = b.number)
  BY DEF CloseIssue, At, IInv, TypeOK, Sound, Exists
<1>1. UNCHANGED <<created, prs, links, timeline, sent, mishaps>>
  BY DEF CloseIssue
<1>2. CASE ~Exists(b.issue)
  <2>1. sent' \in 0 .. MaxRequests /\ mishaps' \in 0 .. MaxMishaps
    BY <1>1 DEF IInv, TypeOK
  <2> QED
    BY <1>1, <1>2, <2>1, AbortOK DEF CloseIssue, tables
<1>3. CASE Exists(b.issue)
  <2>1. /\ issues' = [issues EXCEPT ![b.issue].status = "done"]
        /\ finished' = finished \union {b.issue}
        /\ Move(h, o) /\ UNCHANGED promises
    BY <1>3 DEF CloseIssue
  <2>2. o \in Ops /\ o.pc = "event" /\ o.pr = b.pr /\ o.left = b.left /\ o.issue = b.issue
        /\ o.number = b.number
    BY <1>0 DEF Ops
  <2> HIDE DEF o
  <2>3. finished' = finished \union {i \in {b.issue} : IsTerminal("done")} /\ "done" \in Statuses
    BY <2>1 DEF IsTerminal, Finished, Statuses
  <2>4. /\ Steady /\ FinishedKnown' /\ OneIssuePerKey' /\ Ordered'
        /\ issues' \in [Ids -> Issue]
        /\ \A i \in Ids : issues'[i].number = 0 <=> issues'[i].status = "none"
        /\ \A i \in Ids : Exists(i)' <=> Exists(i)
        /\ \A i \in Ids : issues'[i].number = issues[i].number
    BY <1>0, <1>1, <1>3, <2>1, <2>3, StatusOK DEF promises
  <2>5. b.issue \in Ids
    BY <1>3 DEF Exists
  <2>6. Sound(o, issues', created', finished')
    BY <1>0, <1>1, <1>3, <2>1, <2>2, <2>4, <2>5 DEF Sound
  <2>7. TypeOK'
    BY <1>1, <2>1, <2>2, <2>4, <2>5 DEF IInv, TypeOK, Move, promises
  <2>8. ToLink(b) = {} /\ ToClose(b) = b.left /\ ToClose(o) = b.left
    BY <1>0, <2>2 DEF ToLink, ToClose
  <2>9. LinksFollowText'
    BY <1>1, <2>1, <2>4, <2>8, LinksStay DEF promises
  <2>10. MergeCloses'
    BY <1>1, <2>1, <2>2, <2>4, <2>8, MergesStay DEF promises
  <2> QED
    BY <2>1, <2>4, <2>6, <2>7, <2>9, <2>10, StepOK
<1> QED
  BY <1>2, <1>3

LEMMA RecordEventOK ==
  ASSUME IInv, NEW h \in Handlers, RecordEvent(h)
  PROVE  IInv'
<1> DEFINE b == op[h]
           o == Closing(b, b.left \ {b.number})
<1>0. /\ b \in Ops /\ b.pc = "event" /\ b.pr \in PRs /\ b.left \in SUBSET Numbers
      /\ b.issue \in 1 .. created /\ (Exists(b.issue) => issues[b.issue].number = b.number)
      /\ b.issue \in finished
  BY DEF RecordEvent, At, IInv, TypeOK, Ops, Sound, Exists
<1>1. UNCHANGED <<issues, created, prs, links, finished, sent, mishaps>>
  BY DEF RecordEvent
<1>2. sent' \in 0 .. MaxRequests /\ mishaps' \in 0 .. MaxMishaps
  BY <1>1 DEF IInv, TypeOK
<1>3. CASE ~Exists(b.issue)
  BY <1>1, <1>2, <1>3, AbortOK DEF RecordEvent, tables
<1>4. CASE Exists(b.issue)
  <2>1. Move(h, o) /\ timeline' = timeline \union {b.issue} /\ UNCHANGED promises
    BY <1>4 DEF RecordEvent
  <2>2. /\ o \in Ops /\ Sound(o, issues, created, finished)
        /\ ToClose(o) = b.left \ {b.number}
        /\ ToClose(o) # {} => o.pr = b.pr
    BY <1>0, ClosingOK
  <2>3. ToLink(b) = {} /\ ToClose(b) = b.left
    BY <1>0 DEF ToLink, ToClose
  <2> HIDE DEF o
  <2>4. TypeOK'
    BY <1>1, <1>4, <2>1, <2>2 DEF IInv, TypeOK, Move, promises, Exists
  <2>5. Steady /\ FinishedKnown' /\ OneIssuePerKey' /\ \A i : Exists(i)' <=> Exists(i)
    BY <1>1, RowsStay
  <2>6. Ordered'
    BY <1>1, <2>1, <2>5 DEF IInv, Ordered, Existing, promises
  <2>7. \A i \in Ids : Exists(i) /\ issues[i].number = b.number => i \in finished
    BY <1>0, <1>4 DEF IInv, OneIssuePerKey, Existing, Exists
  <2>8. LinksFollowText'
    BY <1>1, <2>1, <2>3, <2>5, LinksStay DEF promises
  <2>9. MergeCloses'
    BY <1>1, <2>1, <2>2, <2>3, <2>5, <2>7, MergesStay DEF promises
  <2> QED
    BY <1>1, <2>1, <2>2, <2>4, <2>5, <2>6, <2>8, <2>9, StepOK
<1> QED
  BY <1>3, <1>4

LEMMA WriteIssueOK ==
  ASSUME IInv, NEW h \in Handlers, WriteIssue(h)
  PROVE  IInv'
<1> DEFINE b == op[h]
<1>0. b \in Ops /\ b.pc = "write" /\ b.issue \in 1 .. created /\ b.state \in Statuses
  BY DEF WriteIssue, At, IInv, TypeOK, Sound
<1>1. Move(h, Idle) /\ UNCHANGED <<created, prs, links, timeline, promises, sent, mishaps>>
  BY DEF WriteIssue
<1>2. ToLink(b) = {} /\ ToClose(b) = {}
  BY <1>0 DEF ToLink, ToClose
<1>3. CASE Exists(b.issue)
  <2>1. /\ issues' = [issues EXCEPT ![b.issue].status = b.state]
        /\ finished' = finished \union {i \in {b.issue} : IsTerminal(b.state)}
    BY <1>3 DEF WriteIssue
  <2>2. /\ Steady /\ FinishedKnown' /\ OneIssuePerKey' /\ Ordered'
        /\ issues' \in [Ids -> Issue]
        /\ \A i \in Ids : issues'[i].number = 0 <=> issues'[i].status = "none"
        /\ \A i \in Ids : Exists(i)' <=> Exists(i)
        /\ \A i \in Ids : issues'[i].number = issues[i].number
    BY <1>0, <1>1, <1>3, <2>1, StatusOK DEF promises
  <2>3. TypeOK'
    BY <1>1, <1>3, <2>1, <2>2, IdleOK DEF IInv, TypeOK, Move, promises, Exists
  <2>4. LinksFollowText'
    BY <1>1, <1>2, <2>2, LinksStay DEF promises
  <2>5. MergeCloses'
    BY <1>1, <1>2, <2>2, MergesStay DEF promises
  <2> QED
    BY <1>1, <2>2, <2>3, <2>4, <2>5, IdleOK, StepOK
<1>4. CASE ~Exists(b.issue)
  <2>1. issues' = issues /\ finished' = finished
    BY <1>4 DEF WriteIssue
  <2>2. sent' \in 0 .. MaxRequests
    BY <1>1 DEF IInv, TypeOK
  <2> QED
    BY <1>1, <1>2, <2>1, <2>2, IdleOK, QuietOK DEF tables
<1> QED
  BY <1>3, <1>4

------------------------------------------------------------------------------
(* The issues, as others change them.                                      *)

\* Steps that are of no request.
LEMMA OthersOK ==
  ASSUME IInv, TypeOK', Ordered', FinishedKnown', OneIssuePerKey', Steady,
         UNCHANGED <<prs, op, finished, promises>>,
         \A l \in links : Exists(l[2])' => l \in links'
  PROVE  IInv'
<1>1. \A h \in Handlers : Sound(op'[h], issues', created', finished')
  BY SoundStays, BoundsAssumption DEF TypeOK
<1>2. LinksFollowText'
  <2> SUFFICES ASSUME NEW p \in PRs \ broken, NEW i \in Ids, Exists(i)', i <= prs[p].asOf,
                      issues'[i].number \in prs[p].text.named, ~(<<p, i>> \in links')
               PROVE  \E g \in Handlers : op[g].pr = p /\ issues'[i].number \in ToLink(op[g])
    BY DEF LinksFollowText, ToLink, promises
  <2>1. Exists(i) /\ issues'[i].number = issues[i].number
    <3>1. i <= prs[p].asOf /\ prs[p].asOf <= created /\ i \in Nat /\ prs[p].asOf \in Nat /\ created \in Nat /\ i >= 1
      BY BoundsAssumption DEF IInv, Ordered, TypeOK, PullRequest, Ids
    <3> QED
      BY <3>1 DEF Steady
  <2>2. ~(<<p, i>> \in links)
    BY DEF Exists
  <2> QED
    BY <2>1, <2>2 DEF IInv, LinksFollowText, ToLink
<1>3. MergeCloses'
  <2> SUFFICES ASSUME NEW p \in PRs, NEW i \in Ids, <<p, i>> \in due, Exists(i)', ~(i \in finished)
               PROVE  \E g \in Handlers : op[g].pr = p /\ issues'[i].number \in ToClose(op[g])
    BY DEF MergeCloses, promises
  <2>1. Exists(i) /\ issues'[i].number = issues[i].number
    BY DEF IInv, Ordered, Steady
  <2> QED
    BY <2>1 DEF IInv, MergeCloses
<1> QED
  BY <1>1, <1>2, <1>3 DEF IInv

LEMMA CreateIssueOK ==
  ASSUME IInv, CreateIssue
  PROVE  IInv'
<1> DEFINE k == created + 1
<1>1. PICK n \in Numbers :
        /\ created < MaxIssues /\ NextNumber(n) /\ created' = k
        /\ issues' = [issues EXCEPT ![k] = [number |-> n, status |-> "open"]]
        /\ UNCHANGED <<prs, links, timeline, op, sent, mishaps, finished, promises>>
  BY DEF CreateIssue
<1>2. created \in Nat /\ MaxIssues \in Nat /\ k \in Ids /\ k \in 0 .. MaxIssues /\ k \notin 1 .. created
  BY <1>1, BoundsAssumption DEF IInv, TypeOK, Ids
<1>3. /\ issues'[k] = [number |-> n, status |-> "open"]
      /\ \A i \in Ids \ {k} : issues'[i] = issues[i]
  BY <1>1, <1>2 DEF IInv, TypeOK
<1>4. n # 0 /\ n \in Nat /\ [number |-> n, status |-> "open"] \in Issue
  BY BoundsAssumption DEF Issue, Statuses
<1>5. Existing' = Existing \union {k}
  BY <1>2, <1>3 DEF Existing, Exists
<1>6. TypeOK'
  BY <1>1, <1>2, <1>3, <1>4 DEF IInv, TypeOK, promises
<1>7. Steady
  <2>1. \A i \in 1 .. created : i \in Ids \ {k}
    BY <1>2, BoundsAssumption DEF Ids, IInv, TypeOK
  <2> QED
    BY <1>1, <1>2, <1>3, <2>1 DEF Steady, Exists
<1>8. Ordered'
  <2>1. \A i \in Existing' : i <= k
    BY <1>2, <1>5 DEF IInv, Ordered, Existing, Ids
  <2>2. \A p \in PRs : prs[p].asOf \in Nat
    BY BoundsAssumption DEF IInv, TypeOK, PullRequest
  <2>3. \A p \in PRs : prs'[p].asOf <= k
    BY <1>1, <1>2, <2>2 DEF IInv, Ordered
  <2>4. 1 .. created \subseteq 1 .. k
    BY <1>2
  <2> QED
    BY <1>1, <2>1, <2>3, <2>4 DEF IInv, Ordered, promises
<1>9. FinishedKnown'
  BY <1>1, <1>3, <1>5 DEF IInv, FinishedKnown, Existing, IsTerminal, Finished
<1>10. OneIssuePerKey'
  <2>1. \A i \in Existing : issues[i].number < n /\ issues[i].number \in Nat
    <3>1. \A i \in Existing : issues[i] \in Issue
      BY DEF IInv, TypeOK, Existing
    <3>2. ASSUME NEW r \in Issue
          PROVE  r.number \in Nat
      <4>1. r.number \in Numbers \union {0}
        BY DEF Issue
      <4>2. \A m \in Numbers : m \in Nat
        BY BoundsAssumption
      <4> QED
        BY <4>1, <4>2
    <3> QED
      BY <1>1, <3>1, <3>2 DEF NextNumber
  <2>2. \A i \in Existing : issues'[i].number # n \/ i = k
    BY <1>3, <1>4, <2>1 DEF Existing
  <2>3. k \notin Existing
    BY <1>2 DEF IInv, Ordered, Existing, Ids
  <2>4. \A i \in Existing : issues'[i] = issues[i]
    BY <1>3, <2>3 DEF Existing
  <2> QED
    BY <1>3, <1>5, <2>2, <2>3, <2>4 DEF IInv, OneIssuePerKey
<1> QED
  BY <1>1, <1>6, <1>7, <1>8, <1>9, <1>10, OthersOK

LEMMA DeleteIssueOK ==
  ASSUME IInv, NEW j \in Ids, DeleteIssue(j)
  PROVE  IInv'
<1>1. /\ issues' = [issues EXCEPT ![j] = NoIssue]
      /\ links' = {l \in links : l[2] # j} /\ timeline' = timeline \ {j}
      /\ UNCHANGED <<created, prs, op, sent, mishaps, finished, promises>>
  BY DEF DeleteIssue
<1>2. issues'[j] = NoIssue /\ \A i \in Ids \ {j} : issues'[i] = issues[i]
  BY <1>1 DEF IInv, TypeOK
<1>3. Existing' = Existing \ {j} /\ ~Exists(j)'
  BY <1>2 DEF Existing, Exists, NoIssue
<1>4. TypeOK'
  BY <1>1, <1>2 DEF IInv, TypeOK, promises, NoIssue, Issue
<1>5. \A i \in Ids : Exists(i)' => Exists(i) /\ issues'[i] = issues[i]
  BY <1>2, <1>3 DEF Exists
<1>6. Steady
  <2>1. created \in Nat /\ \A i \in 1 .. created : i \in Ids
    BY BoundsAssumption DEF Ids, IInv, TypeOK
  <2> QED
    BY <1>1, <1>5, <2>1 DEF Steady
<1>7. Ordered'
  BY <1>1, <1>3 DEF IInv, Ordered, promises
<1>8. FinishedKnown' /\ OneIssuePerKey'
  BY <1>1, <1>2, <1>3 DEF IInv, FinishedKnown, OneIssuePerKey, Existing
<1>9. \A l \in links : Exists(l[2])' => l \in links'
  BY <1>1, <1>3
<1> QED
  BY <1>1, <1>4, <1>6, <1>7, <1>8, <1>9, OthersOK

LEMMA NextOK ==
  ASSUME IInv, [Next]_vars
  PROVE  IInv'
<1>1. CASE UNCHANGED vars
  BY <1>1 DEF vars, IInv, TypeOK, Ordered, FinishedKnown, OneIssuePerKey, LinksFollowText,
     MergeCloses, Existing, Exists
<1>2. CASE \E h \in Handlers, p \in PRs, t \in Texts, s \in States : UpsertPullRequest(h, p, t, s)
  BY <1>2, UpsertPullRequestOK
<1>3. CASE \E h \in Handlers, p \in PRs, s \in States : UpdatePullRequestState(h, p, s)
  BY <1>3, UpdatePullRequestStateOK
<1>4. CASE \E h \in Handlers, i \in Ids, s \in Statuses : ReadIssue(h, i, s)
  BY <1>4, ReadIssueOK
<1>5. ASSUME NEW h \in Handlers,
             \/ StorePullRequest(h) \/ LinkReferencedIssue(h) \/ LinkIssue(h) \/ StoreState(h)
             \/ ReadToClose(h) \/ CloseIssue(h) \/ RecordEvent(h) \/ WriteIssue(h) \/ Fail(h)
      PROVE  IInv'
  BY <1>5, StorePullRequestOK, LinkReferencedIssueOK, LinkIssueOK, StoreStateOK, ReadToCloseOK,
     CloseIssueOK, RecordEventOK, WriteIssueOK, FailOK
<1>6. CASE CreateIssue \/ \E i \in Ids : DeleteIssue(i)
  BY <1>6, CreateIssueOK, DeleteIssueOK
<1> QED
  BY <1>1, <1>2, <1>3, <1>4, <1>5, <1>6 DEF Next

------------------------------------------------------------------------------
(* The theorems.                                                           *)

\* The inductive invariant.
THEOREM PullRequestsInvariance == Spec => []IInv
<1>1. Init => IInv
  BY InitOK
<1>2. IInv /\ [Next]_vars => IInv'
  BY NextOK
<1> QED
  BY <1>1, <1>2, PTL DEF Spec

\* The rows of issues, pull requests and requests in progress are well formed.
THEOREM PullRequestsTypeCorrect == Spec => []TypeOK
<1>1. IInv => TypeOK
  BY DEF IInv
<1> QED
  BY <1>1, PullRequestsInvariance, PTL

\* A number stands for at most one issue at any time, though numbers of
\* deleted issues are given out again.
THEOREM KeysAreUnambiguous == Spec => []OneIssuePerKey
<1>1. IInv => OneIssuePerKey
  BY DEF IInv
<1> QED
  BY <1>1, PullRequestsInvariance, PTL

\* Unless a request ends early, every issue a stored text names is linked or
\* about to be.
THEOREM LinksFollow == Spec => []LinksFollowText
<1>1. IInv => LinksFollowText
  BY DEF IInv
<1> QED
  BY <1>1, PullRequestsInvariance, PTL

\* Unless a request ends early, every issue a merge asks to close has been
\* finished or is about to be.
THEOREM MergesClose == Spec => []MergeCloses
<1>1. IInv => MergeCloses
  BY DEF IInv
<1> QED
  BY <1>1, PullRequestsInvariance, PTL
==============================================================================
