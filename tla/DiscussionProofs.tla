--------------------------- MODULE DiscussionProofs ----------------------------
(***************************************************************************)
(* Whoever a comment mentions hears of it, attachments and their files     *)
(* match, and no server gives a due notice twice, for any number of users, *)
(* agents, issues, servers and requests.                                   *)
(*                                                                         *)
(* The three arguments need the types of rows and requests, and nothing of *)
(* each other: what a handler has done for its comment so far (Talk), who  *)
(* holds a file (Storage), and what a scanner knows between its lookup and *)
(* its insert (Lookups).                                                   *)
(***************************************************************************)
EXTENDS Discussion, TLAPS

Telling == {"subscribers", "tell", "directory", "mention"}
Calling == {"agents", "enqueue"}
Uploading == {"file", "row", "undo"}

\* The local variables that a request has set by each step.
Shape(o) ==
  /\ o.pc = "idle" => o = Idle
  /\ o.pc \in {"insert"} \union Telling \union Calling =>
       o.issue \in Issues /\ o.author \in People /\ o.file = NoFile
  /\ o.pc \in Telling \union Calling => o.comment \in Comments
  /\ o.pc \in Telling => o.author \in Humans
  /\ o.pc = "insert" => o.comment = 0
  /\ o.pc \in Uploading => o.issue \in Issues /\ o.file \in Files

TypeInv ==
  /\ TypeOK
  /\ \A h \in Handlers : Shape(op[h])
  /\ \A s \in Servers : scan[s].pc # "idle" => scan[s].notice \in Warning

Goto(o, pc) == [o EXCEPT !.pc = pc]

\* What a request keeps as it goes on.
Same(n, o) ==
  /\ n.issue = o.issue /\ n.assignee = o.assignee /\ n.author = o.author
  /\ n.mentions = o.mentions /\ n.comment = o.comment /\ n.file = o.file

\* n: what a request at o does next if it enters a loop, or stays in it.
Enters(n, o, pc, left) ==
  \/ left # {} /\ Same(n, o) /\ n.pc = pc /\ n.left = left
  \/ left = {} /\ pc = "tell" /\ Same(n, o) /\ n.pc = "directory"
  \/ left = {} /\ pc = "mention" /\ Same(n, o) /\ n.pc = "agents"
  \/ left = {} /\ pc = "enqueue" /\ n = Idle

------------------------------------------------------------------------------
(* Types.                                                                  *)

LEMMA IdleOK == Idle \in Ops /\ Shape(Idle)
  BY DEF Idle, Ops, Shape, Telling, Calling, Uploading

LEMMA LoopOK ==
  ASSUME NEW o \in Ops, Shape(o), o.pc \in {"tell", "mention", "enqueue"},
         NEW left \in SUBSET People
  PROVE  Loop(o, left) \in Ops /\ Shape(Loop(o, left)) /\ Enters(Loop(o, left), o, o.pc, left)
<1>1. CASE left # {}
  <2> DEFINE n == [o EXCEPT !.left = left]
  <2>1. n \in Ops /\ Same(n, o) /\ n.pc = o.pc /\ n.left = left
    BY DEF Ops, Same
  <2>2. Loop(o, left) = n
    BY <1>1 DEF Loop
  <2> HIDE DEF n
  <2> QED
    BY <1>1, <2>1, <2>2 DEF Shape, Same, Enters, Telling, Calling, Uploading
<1>2. ASSUME left = {}, NEW pc \in {"directory", "agents"},
             Loop(o, left) = [o EXCEPT !.left = {}, !.pc = pc], o.pc \in {"tell", "mention"}
      PROVE  /\ Loop(o, left) \in Ops /\ Shape(Loop(o, left)) /\ Same(Loop(o, left), o)
             /\ Loop(o, left).pc = pc
  <2> DEFINE n == [o EXCEPT !.left = {}, !.pc = pc]
  <2>1. n \in Ops /\ Same(n, o) /\ n.pc = pc
    BY DEF Ops, Same
  <2> HIDE DEF n
  <2>2. Loop(o, left) = n
    BY <1>2 DEF n
  <2> QED
    BY <1>2, <2>1, <2>2 DEF Shape, Same, Telling, Calling, Uploading, People
<1>3. CASE left = {} /\ o.pc = "tell"
  <2>1. Loop(o, left) = [o EXCEPT !.left = {}, !.pc = "directory"]
    BY <1>3 DEF Loop, After, Ops
  <2> QED
    BY <1>2, <1>3, <2>1 DEF Enters
<1>4. CASE left = {} /\ o.pc = "mention"
  <2>1. Loop(o, left) = [o EXCEPT !.left = {}, !.pc = "agents"]
    BY <1>4 DEF Loop, After, Ops
  <2> QED
    BY <1>2, <1>4, <2>1 DEF Enters
<1>5. CASE left = {} /\ o.pc = "enqueue"
  <2>1. Loop(o, left) = Idle
    BY <1>5 DEF Loop, After, Ops
  <2> QED
    BY <1>5, <2>1, IdleOK DEF Enters
<1> QED
  BY <1>1, <1>3, <1>4, <1>5

\* A request enters a loop, or goes on to another step, and keeps what it knows.
LEMMA EnterOK ==
  ASSUME NEW o \in Ops, Shape(o), o.pc \in Telling \union Calling,
         NEW pc \in {"tell", "directory", "mention", "agents", "enqueue"},
         o.pc \in Calling => pc \notin Telling
  PROVE  /\ Goto(o, pc) \in Ops /\ Shape(Goto(o, pc)) /\ Same(Goto(o, pc), o)
         /\ Goto(o, pc).pc = pc /\ Goto(o, pc).left = o.left
<1> DEFINE n == [o EXCEPT !.pc = pc]
<1>1. n \in Ops /\ Same(n, o) /\ n.pc = pc /\ n.left = o.left
  BY DEF Ops, Same, Telling, Calling
<1>2. Goto(o, pc) = n
  BY DEF Goto
<1> HIDE DEF n
<1>3. Shape(n)
  BY <1>1 DEF Shape, Same, Telling, Calling, Uploading
<1> QED
  BY <1>1, <1>2, <1>3

LEMMA EnterLoop ==
  ASSUME NEW o \in Ops, Shape(o), o.pc \in Telling \union Calling,
         NEW pc \in {"tell", "mention", "enqueue"}, o.pc \in Calling => pc \notin Telling,
         NEW left \in SUBSET People
  PROVE  \E n \in Ops : Shape(n) /\ Enters(n, o, pc, left) /\ n = Loop(Goto(o, pc), left)
<1>1. Goto(o, pc) \in Ops /\ Shape(Goto(o, pc)) /\ Same(Goto(o, pc), o) /\ Goto(o, pc).pc = pc
  BY EnterOK
<1> DEFINE g == Goto(o, pc)
           n == Loop(g, left)
<1>2. n \in Ops /\ Shape(n) /\ Enters(n, g, pc, left)
  BY <1>1, LoopOK
<1> HIDE DEF g, n
<1>3. Enters(n, o, pc, left)
  BY <1>1, <1>2 DEF Enters, Same, g
<1> QED
  BY <1>2, <1>3 DEF g, n

LEMMA NotifyCommentDoes ==
  ASSUME TypeInv, NEW h \in Handlers, NotifyComment(h)
  PROVE  \E n \in Ops : /\ Shape(n) /\ Move(h, n) /\ op[h].pc = "subscribers"
                        /\ Enters(n, op[h], "tell", ({op[h].assignee} \union subscribers[op[h].issue])
                                                       \ {op[h].author, NoUser})
<1> DEFINE left == ({op[h].assignee} \union subscribers[op[h].issue]) \ {op[h].author, NoUser}
<1>1. op[h] \in Ops /\ Shape(op[h]) /\ op[h].pc = "subscribers"
  BY DEF TypeInv, TypeOK, NotifyComment, At
<1>2. left \in SUBSET People
  BY <1>1 DEF Ops, TypeInv, TypeOK, Shape, Telling
<1>3. Move(h, Loop(Goto(op[h], "tell"), left))
  BY DEF NotifyComment, Goto
<1> HIDE DEF left
<1> QED
  BY <1>1, <1>2, <1>3, EnterLoop DEF Telling, Calling, left

LEMMA NotifyMentionsDoes ==
  ASSUME TypeInv, NEW h \in Handlers, NotifyMentions(h)
  PROVE  \E n \in Ops : /\ Shape(n) /\ Move(h, n) /\ op[h].pc = "directory"
                        /\ Enters(n, op[h], "mention",
                                  Called(op[h].mentions) \ {op[h].author, op[h].assignee})
<1> DEFINE left == Called(op[h].mentions) \ {op[h].author, op[h].assignee}
<1>1. op[h] \in Ops /\ Shape(op[h]) /\ op[h].pc = "directory"
  BY DEF TypeInv, TypeOK, NotifyMentions, At
<1>2. left \in SUBSET People
  BY DEF Called
<1>3. Move(h, Loop(Goto(op[h], "mention"), left))
  BY DEF NotifyMentions, Goto
<1> HIDE DEF left
<1> QED
  BY <1>1, <1>2, <1>3, EnterLoop DEF Telling, Calling, left

LEMMA OnCommentDoes ==
  ASSUME TypeInv, NEW h \in Handlers, OnComment(h)
  PROVE  \E n \in Ops : /\ Shape(n) /\ Move(h, n) /\ op[h].pc = "agents"
                        /\ Enters(n, op[h], "enqueue",
                                  {a \in agents : names[a] \in op[h].mentions} \ {op[h].author})
<1> DEFINE left == {a \in agents : names[a] \in op[h].mentions} \ {op[h].author}
<1>1. op[h] \in Ops /\ Shape(op[h]) /\ op[h].pc = "agents"
  BY DEF TypeInv, TypeOK, OnComment, At
<1>2. left \in SUBSET People
  BY DEF TypeInv, TypeOK, People
<1>3. Move(h, Loop(Goto(op[h], "enqueue"), left))
  BY DEF OnComment, Goto
<1> HIDE DEF left
<1> QED
  BY <1>1, <1>2, <1>3, EnterLoop DEF Telling, Calling, left

LEMMA NotifyDoes ==
  ASSUME TypeInv, NEW h \in Handlers, NEW u \in People, Notify(h, u)
  PROVE  \E n \in Ops : /\ Shape(n) /\ Move(h, n) /\ op[h].pc \in {"tell", "mention"} /\ u \in op[h].left
                        /\ Enters(n, op[h], op[h].pc, op[h].left \ {u})
<1>1. op[h] \in Ops /\ Shape(op[h]) /\ op[h].left \ {u} \in SUBSET People
  BY DEF TypeInv, TypeOK, Ops
<1>2. op[h].pc \in {"tell", "mention"} /\ u \in op[h].left /\ Move(h, Loop(op[h], op[h].left \ {u}))
  BY DEF Notify
<1> QED
  BY <1>1, <1>2, LoopOK

LEMMA EnqueueDoes ==
  ASSUME TypeInv, NEW h \in Handlers, NEW a \in Agents, Enqueue(h, a)
  PROVE  \E n \in Ops : /\ Shape(n) /\ Move(h, n) /\ op[h].pc = "enqueue" /\ a \in op[h].left
                        /\ \/ /\ Exists(op[h].issue) /\ a \in agents
                              /\ Enters(n, op[h], "enqueue", op[h].left \ {a})
                           \/ ~(Exists(op[h].issue) /\ a \in agents) /\ n = Idle
<1>1. op[h] \in Ops /\ Shape(op[h]) /\ op[h].left \ {a} \in SUBSET People
  BY DEF TypeInv, TypeOK, Ops
<1>2. op[h].pc = "enqueue" /\ a \in op[h].left
  BY DEF Enqueue, At
<1>3. CASE Exists(op[h].issue) /\ a \in agents
  <2>1. Move(h, Loop(op[h], op[h].left \ {a}))
    BY <1>3 DEF Enqueue
  <2> QED
    BY <1>1, <1>2, <1>3, <2>1, LoopOK
<1>4. CASE ~(Exists(op[h].issue) /\ a \in agents)
  <2>1. Move(h, Idle)
    BY <1>4 DEF Enqueue
  <2> QED
    BY <1>2, <1>4, <2>1, IdleOK
<1> QED
  BY <1>3, <1>4

LEMMA SkipDoes ==
  ASSUME TypeInv, NEW h \in Handlers, Skip(h)
  PROVE  \E n \in Ops : /\ Shape(n) /\ Move(h, n) /\ op[h].pc \in Telling
                        /\ Same(n, op[h]) /\ n.pc \in Telling \union Calling
<1> DEFINE o == op[h]
<1>1. o \in Ops /\ Shape(o)
  BY DEF TypeInv, TypeOK
<1>2. CASE At(h, "subscribers") /\ Move(h, Loop([o EXCEPT !.pc = "tell"], {o.assignee} \ {o.author, NoUser}))
  <2> DEFINE left == {o.assignee} \ {o.author, NoUser}
  <2>1. left \in SUBSET People
    BY <1>1 DEF Ops
  <2>2. Move(h, Loop(Goto(o, "tell"), left)) /\ o.pc = "subscribers"
    BY <1>2 DEF Goto, At
  <2> HIDE DEF left
  <2>3. PICK n \in Ops : Shape(n) /\ Enters(n, o, "tell", left) /\ n = Loop(Goto(o, "tell"), left)
    BY <1>1, <2>1, <2>2, EnterLoop DEF Telling, Calling
  <2> QED
    BY <2>2, <2>3 DEF Enters, Telling, Calling
<1>3. CASE At(h, "directory") /\ Move(h, [o EXCEPT !.pc = "agents"])
  <2>1. o.pc = "directory" /\ Move(h, Goto(o, "agents"))
    BY <1>3 DEF At, Goto
  <2>2. Goto(o, "agents") \in Ops /\ Shape(Goto(o, "agents")) /\ Same(Goto(o, "agents"), o)
        /\ Goto(o, "agents").pc = "agents"
    BY <1>1, <2>1, EnterOK DEF Telling, Calling
  <2> QED
    BY <2>1, <2>2 DEF Telling, Calling
<1>4. CASE o.pc \in {"tell", "mention"} /\ \E u \in o.left : Move(h, Loop(o, o.left \ {u}))
  <2>1. PICK u \in o.left : Move(h, Loop(o, o.left \ {u}))
    BY <1>4
  <2>2. o.left \ {u} \in SUBSET People
    BY <1>1 DEF Ops
  <2>3. Loop(o, o.left \ {u}) \in Ops /\ Shape(Loop(o, o.left \ {u}))
        /\ Enters(Loop(o, o.left \ {u}), o, o.pc, o.left \ {u})
    BY <1>1, <1>4, <2>2, LoopOK
  <2> QED
    BY <1>4, <2>1, <2>3 DEF Enters, Telling, Calling
<1> QED
  BY <1>2, <1>3, <1>4 DEF Skip

LEMMA InitTypes ==
  ASSUME Init
  PROVE  TypeInv
<1>1. \A s \in Servers : scan[s] = Resting /\ Resting \in Scans
  BY DEF Init, Resting, Scans
<1>2. TypeOK
  BY <1>1, IdleOK, BoundsAssumption, NamesAssumption DEF Init, TypeOK, Issue, People
<1> QED
  BY <1>1, <1>2, IdleOK DEF TypeInv, Init, Resting

\* The part of the types that a step of a handler has to show.
LEMMA MoveOK ==
  ASSUME TypeInv, NEW h \in Handlers, NEW o \in Ops, Shape(o), Move(h, o)
  PROVE  /\ op' \in [Handlers -> Ops] /\ \A g \in Handlers : Shape(op'[g])
         /\ op'[h] = o /\ \A g \in Handlers \ {h} : op'[g] = op[g]
  BY DEF TypeInv, TypeOK, Move

LEMMA QuietTypes ==
  ASSUME TypeInv, UNCHANGED <<people, talk, notices, storage, metadata, scan>>,
         sent' \in 0 .. MaxRequests, mishaps' \in 0 .. MaxMishaps,
         spoiled' \subseteq Comments \union Files,
         NEW h \in Handlers, NEW o \in Ops, Shape(o), Move(h, o)
  PROVE  TypeInv'
<1>1. op' \in [Handlers -> Ops] /\ \A g \in Handlers : Shape(op'[g])
  BY MoveOK
<1> QED
  BY <1>1 DEF TypeInv, TypeOK, people, roster, talk, notices, storage

LEMMA Counters ==
  ASSUME TypeInv
  PROVE  /\ Send => sent' \in 0 .. MaxRequests
         /\ Mishap => mishaps' \in 0 .. MaxMishaps
  BY BoundsAssumption DEF TypeInv, TypeOK, Send, Mishap

LEMMA AddCommentTypes ==
  ASSUME TypeInv, NEW h \in Handlers, NEW i \in Issues, NEW p \in Comments \union {0},
         NEW m \in Texts, NEW u \in People,
         (u \in Humans /\ AddComment(h, u, i, p, m)) \/ PostComment(h, u, i, p, m)
  PROVE  TypeInv'
<1>0. issues[i].assignee \in People \union {NoUser}
  BY DEF TypeInv, TypeOK, Issue
<1>1. PICK n \in Ops : /\ Move(h, n) /\ n.pc = "insert" /\ n.issue = i /\ n.author = u
                       /\ n.file = NoFile /\ n.comment = 0
  <2>1. CASE AddComment(h, u, i, p, m)
    <3> DEFINE n == [Idle EXCEPT !.pc = "insert", !.issue = i, !.assignee = issues[i].assignee,
                                 !.parent = p, !.author = u, !.mentions = m]
    <3>1. n \in Ops /\ n.pc = "insert" /\ n.issue = i /\ n.author = u /\ n.file = NoFile /\ n.comment = 0
      BY <1>0, TextsAssumption DEF Idle, Ops
    <3> QED
      BY <2>1, <3>1 DEF AddComment
  <2>2. CASE PostComment(h, u, i, p, m)
    <3> DEFINE n == [Idle EXCEPT !.pc = "insert", !.issue = i, !.parent = p, !.author = u,
                                 !.mentions = m]
    <3>1. n \in Ops /\ n.pc = "insert" /\ n.issue = i /\ n.author = u /\ n.file = NoFile /\ n.comment = 0
      BY TextsAssumption DEF Idle, Ops
    <3> QED
      BY <2>2, <3>1 DEF PostComment
  <2> QED
    BY <2>1, <2>2
<1>2. Shape(n)
  BY <1>1 DEF Shape, Telling, Calling, Uploading
<1>3. UNCHANGED <<people, talk, notices, storage, metadata, scan, mishaps, spoiled>> /\ Send
  BY DEF AddComment, PostComment
<1> QED
  BY <1>1, <1>2, <1>3, QuietTypes, Counters DEF TypeInv, TypeOK

LEMMA CreateCommentTypes ==
  ASSUME TypeInv, NEW h \in Handlers, CreateComment(h)
  PROVE  TypeInv'
<1> DEFINE o == op[h]
           row == [issue |-> o.issue, parent |-> o.parent, author |-> o.author, mentions |-> o.mentions,
                   under |-> {o.issue} \union (IF o.parent = 0 THEN {} ELSE comments[o.parent].under)]
           n == [o EXCEPT !.comment = posted + 1,
                          !.pc = IF o.author \in Humans THEN "subscribers" ELSE "agents"]
<1>0. o \in Ops /\ Shape(o) /\ o.pc = "insert" /\ posted + 1 \in Comments /\ posted' = posted + 1
      /\ o.issue \in Issues /\ o.author \in People /\ o.file = NoFile
  BY BoundsAssumption DEF CreateComment, At, TypeInv, TypeOK, Comments, Shape
<1>1. n \in Ops /\ n.comment = posted + 1 /\ n.issue = o.issue /\ n.author = o.author /\ n.file = NoFile
      /\ n.pc = IF o.author \in Humans THEN "subscribers" ELSE "agents"
  BY <1>0 DEF Ops
<1>2. row \in Comment
  <2>1. o.parent # 0 => comments[o.parent].under \in SUBSET Issues
    BY <1>0 DEF CreateComment, IsComment, TypeInv, TypeOK, Comment
  <2>2. o.parent \in Comments \union {0} /\ o.mentions \in SUBSET Names
    BY <1>0 DEF Ops
  <2>3. {o.issue} \union (IF o.parent = 0 THEN {} ELSE comments[o.parent].under) \in SUBSET Issues
    BY <1>0, <2>1
  <2> QED
    BY <1>0, <2>2, <2>3 DEF Comment
<1>3. Move(h, n) /\ comments' = [comments EXCEPT ![posted + 1] = row]
      /\ UNCHANGED <<people, told, runs, notices, storage, metadata, scan, sent, mishaps, spoiled>>
  BY DEF CreateComment
<1> HIDE DEF n, row
<1>4. Shape(n)
  BY <1>0, <1>1 DEF Shape, Telling, Calling, Uploading
<1>5. op' \in [Handlers -> Ops] /\ \A g \in Handlers : Shape(op'[g])
  BY <1>1, <1>3, <1>4, MoveOK
<1>6. comments' \in [Comments -> Comment \union {NoComment}] /\ posted' \in 0 .. MaxRequests
  BY <1>0, <1>2, <1>3 DEF TypeInv, TypeOK, Comments
<1> QED
  BY <1>3, <1>5, <1>6 DEF TypeInv, TypeOK, people, roster, talk, notices, storage

LEMMA TellingTypes ==
  ASSUME TypeInv, NEW h \in Handlers,
         NotifyComment(h) \/ NotifyMentions(h) \/ OnComment(h)
  PROVE  TypeInv'
<1>1. PICK n \in Ops : Shape(n) /\ Move(h, n)
  BY NotifyCommentDoes, NotifyMentionsDoes, OnCommentDoes
<1>2. UNCHANGED <<people, talk, notices, storage, metadata, scan, sent, mishaps, spoiled>>
  BY DEF NotifyComment, NotifyMentions, OnComment
<1> QED
  BY <1>1, <1>2, QuietTypes DEF TypeInv, TypeOK

LEMMA NotifyTypes ==
  ASSUME TypeInv, NEW h \in Handlers, NEW u \in People, Notify(h, u)
  PROVE  TypeInv'
<1>1. PICK n \in Ops : Shape(n) /\ Move(h, n) /\ op[h].pc \in {"tell", "mention"}
  BY NotifyDoes
<1>2. op' \in [Handlers -> Ops] /\ \A g \in Handlers : Shape(op'[g])
  BY <1>1, MoveOK
<1>3. op[h].comment \in Comments
  BY <1>1 DEF TypeInv, Shape, Telling
<1>4. told' \subseteq Comments \X People
  BY <1>3 DEF Notify, TypeInv, TypeOK
<1> QED
  BY <1>2, <1>4 DEF Notify, TypeInv, TypeOK, people, roster, talk, notices, storage

LEMMA EnqueueTypes ==
  ASSUME TypeInv, NEW h \in Handlers, NEW a \in Agents, Enqueue(h, a)
  PROVE  TypeInv'
<1>1. PICK n \in Ops : Shape(n) /\ Move(h, n) /\ op[h].pc = "enqueue"
  BY EnqueueDoes
<1>2. op' \in [Handlers -> Ops] /\ \A g \in Handlers : Shape(op'[g])
  BY <1>1, MoveOK
<1>3. op[h].comment \in Comments /\ op[h].issue \in Issues
  BY <1>1 DEF TypeInv, Shape, Calling
<1>4. runs' \subseteq Issues \X Comments \X Agents
  BY <1>3 DEF Enqueue, TypeInv, TypeOK
<1> QED
  BY <1>2, <1>4 DEF Enqueue, TypeInv, TypeOK, people, roster, talk, notices, storage

LEMMA SkipTypes ==
  ASSUME TypeInv, NEW h \in Handlers, Skip(h)
  PROVE  TypeInv'
<1>1. PICK n \in Ops : Shape(n) /\ Move(h, n) /\ op[h].pc \in Telling
  BY SkipDoes
<1>2. op[h].comment \in Comments
  BY <1>1 DEF TypeInv, Shape
<1> QED
  BY <1>1, <1>2, QuietTypes, Counters DEF Skip, TypeInv, TypeOK

LEMMA AddAttachmentTypes ==
  ASSUME TypeInv, NEW h \in Handlers, NEW i \in Issues, NEW c \in Comments \union {0}, NEW f \in Files,
         AddAttachment(h, i, c, f)
  PROVE  TypeInv'
<1> DEFINE n == [Idle EXCEPT !.pc = "file", !.issue = i, !.comment = c, !.file = f]
<1>1. n \in Ops /\ n.pc = "file" /\ n.issue = i /\ n.file = f
  BY DEF Idle, Ops
<1>2. Move(h, n)
  BY DEF AddAttachment
<1> HIDE DEF n
<1>3. Shape(n)
  BY <1>1 DEF Shape, Telling, Calling, Uploading
<1> QED
  BY <1>1, <1>2, <1>3, QuietTypes, Counters DEF AddAttachment, TypeInv, TypeOK

\* What an upload does next is well formed.
LEMMA UploadOK ==
  ASSUME TypeInv, NEW h \in Handlers, op[h].pc \in Uploading, NEW pc \in Uploading
  PROVE  LET n == [op[h] EXCEPT !.pc = pc] IN
         n \in Ops /\ Shape(n) /\ n.pc = pc /\ n.file = op[h].file /\ op[h].file \in Files
<1> DEFINE n == [op[h] EXCEPT !.pc = pc]
<1>1. op[h] \in Ops /\ Shape(op[h])
  BY DEF TypeInv, TypeOK
<1>2. n \in Ops /\ n.pc = pc /\ n.file = op[h].file /\ n.issue = op[h].issue
  BY <1>1 DEF Ops, Uploading
<1> HIDE DEF n
<1>3. Shape(n) /\ op[h].file \in Files
  BY <1>1, <1>2 DEF Shape, Uploading, Telling, Calling
<1> QED
  BY <1>2, <1>3 DEF n

LEMMA UploadTypes ==
  ASSUME TypeInv, NEW h \in Handlers,
         \/ WriteLimited(h) \/ CreateAttachment(h) \/ FailRow(h) \/ LoseAnswer(h)
         \/ RemoveFile(h)
  PROVE  TypeInv'
<1> DEFINE o == op[h]
<1>1. o \in Ops /\ Shape(o) /\ o.pc \in Uploading /\ o.file \in Files /\ o.issue \in Issues
  BY DEF WriteLimited, CreateAttachment, FailRow, LoseAnswer, RemoveFile, At, Uploading, TypeInv,
     TypeOK, Shape
<1>2. PICK n \in Ops : Shape(n) /\ Move(h, n)
  BY <1>1, UploadOK, IdleOK DEF WriteLimited, CreateAttachment, FailRow, LoseAnswer, RemoveFile,
     Uploading
<1>3. op' \in [Handlers -> Ops] /\ \A g \in Handlers : Shape(op'[g])
  BY <1>2, MoveOK
<1>4. Attachable(o.issue, o.comment) => Row(o) \in SUBSET Issues
  <2>1. o.comment # 0 /\ Attachable(o.issue, o.comment) => comments[o.comment].under \in SUBSET Issues
    BY DEF Attachable, IsComment, TypeInv, TypeOK, Comment
  <2> QED
    BY <1>1, <2>1 DEF Row
<1>5. /\ attachments' \in [Files -> SUBSET Issues] /\ files' \subseteq Files /\ stored' \subseteq Files
      /\ spoiled' \subseteq Comments \union Files /\ mishaps' \in 0 .. MaxMishaps
  <2>1. CASE WriteLimited(h) \/ RemoveFile(h)
    BY <1>1, <2>1 DEF WriteLimited, RemoveFile, TypeInv, TypeOK
  <2>2. CASE CreateAttachment(h) \/ FailRow(h) \/ LoseAnswer(h)
    <3>1. attachments' = attachments \/
            (Row(o) \in SUBSET Issues /\ attachments' = [attachments EXCEPT ![o.file] = Row(o)])
      BY <1>4, <2>2 DEF CreateAttachment, FailRow, LoseAnswer, storage
    <3>2. attachments' \in [Files -> SUBSET Issues]
      BY <1>1, <3>1 DEF TypeInv, TypeOK
    <3> QED
      BY <1>1, <2>2, <3>2, Counters DEF CreateAttachment, FailRow, LoseAnswer, storage, TypeInv,
         TypeOK
  <2> QED
    BY <2>1, <2>2
<1>6. UNCHANGED <<people, talk, notices, metadata, scan, sent>>
  BY DEF WriteLimited, CreateAttachment, FailRow, LoseAnswer, RemoveFile
<1> QED
  BY <1>3, <1>5, <1>6 DEF TypeInv, TypeOK, people, roster, talk, notices

LEMMA EndTypes ==
  ASSUME TypeInv, NEW h \in Handlers, Crash(h) \/ CommentRefused(h)
  PROVE  TypeInv'
<1>1. Move(h, Idle) /\ UNCHANGED <<people, talk, notices, storage, metadata, scan, sent>>
  BY DEF Crash, CommentRefused
<1>2. op[h].file \in Files \union {NoFile} /\ op[h].comment \in Comments \union {0}
  BY DEF TypeInv, TypeOK, Ops
<1>3. spoiled' \subseteq Comments \union Files /\ mishaps' \in 0 .. MaxMishaps
  BY <1>2, Counters DEF Crash, CommentRefused, TypeInv, TypeOK
<1> QED
  BY <1>1, <1>3, IdleOK, QuietTypes DEF TypeInv, TypeOK

LEMMA MetadataTypes ==
  ASSUME TypeInv, NEW i \in Issues, NEW k \in Keys, NEW e \in Entries,
         SetMetadata(i, k, e) \/ DeleteMetadata(i, k)
  PROVE  TypeInv'
<1>1. PICK n \in Entries \union {NoEntry} : metadata' = [metadata EXCEPT ![i][k] = n]
  BY DEF SetMetadata, DeleteMetadata
<1>2. metadata' \in [Issues -> [Keys -> Entries \union {NoEntry}]]
  BY <1>1 DEF TypeInv, TypeOK
<1>3. sent' \in 0 .. MaxRequests
  BY Counters DEF SetMetadata, DeleteMetadata
<1> QED
  BY <1>2, <1>3 DEF SetMetadata, DeleteMetadata, TypeInv, TypeOK, people, roster, talk, notices,
     storage

LEMMA RequestTypes ==
  ASSUME TypeInv, Request
  PROVE  TypeInv'
<1>1. ASSUME NEW i \in Issues, NEW k \in Keys,
             (\E e \in Entries : SetMetadata(i, k, e)) \/ DeleteMetadata(i, k)
      PROVE  TypeInv'
  <2>1. CASE DeleteMetadata(i, k)
    <3>1. [type |-> "bool", value |-> "true"] \in Entries
      BY DEF Entries, ValuesOf
    <3> QED
      BY <2>1, <3>1, MetadataTypes
  <2> QED
    BY <1>1, <2>1, MetadataTypes
<1>2. ASSUME NEW i \in Issues, NEW u \in People, AddSubscriber(i, u) \/ RemoveSubscriber(i, u)
      PROVE  TypeInv'
  <2>1. subscribers' \in [Issues -> SUBSET People] /\ sent' \in 0 .. MaxRequests
    BY <1>2, Counters DEF AddSubscriber, RemoveSubscriber, TypeInv, TypeOK
  <2> QED
    BY <1>2, <2>1 DEF AddSubscriber, RemoveSubscriber, TypeInv, TypeOK, roster, talk, notices,
       storage
<1>3. ASSUME NEW X, MarkRead(X)
      PROVE  TypeInv'
  BY <1>3, Counters DEF MarkRead, TypeInv, TypeOK, people, roster, talk, storage
<1>4. ASSUME NEW i \in Issues, (\E new \in Issue : UpdateIssue(i, new)) \/ TimePasses(i)
      PROVE  TypeInv'
  <2>1. issues' \in [Issues -> Issue]
    <3>1. CASE \E new \in Issue : UpdateIssue(i, new)
      BY <3>1 DEF UpdateIssue, TypeInv, TypeOK
    <3>2. CASE TimePasses(i)
      <4>1. PICK d \in {"soon", "past"} : issues' = [issues EXCEPT ![i].due = d]
        BY <3>2 DEF TimePasses
      <4>2. issues \in [Issues -> Issue]
        BY DEF TypeInv, TypeOK
      <4> QED
        BY <4>1, <4>2 DEF Issue
    <3> QED
      BY <1>4, <3>1, <3>2
  <2>2. sent' \in 0 .. MaxRequests
    BY <1>4, Counters DEF UpdateIssue, TimePasses, TypeInv, TypeOK
  <2>3. UNCHANGED <<roster, subscribers, talk, notices, storage, metadata, op, scan, mishaps, spoiled>>
    BY <1>4 DEF UpdateIssue, TimePasses
  <2> QED
    BY <2>1, <2>2, <2>3 DEF TypeInv, TypeOK, roster, talk, notices, storage
<1>5. ASSUME NEW i \in Issues, DeleteIssue(i)
      PROVE  TypeInv'
  <2>1. issues' \in [Issues -> Issue]
    <3>1. issues \in [Issues -> Issue] /\ issues' = [issues EXCEPT ![i].state = "gone"]
      BY <1>5 DEF DeleteIssue, TypeInv, TypeOK
    <3> QED
      BY <3>1 DEF Issue
  <2>2. comments' \in [Comments -> Comment \union {NoComment}]
    BY <1>5 DEF DeleteIssue, TypeInv, TypeOK
  <2>3. /\ runs' \subseteq Issues \X Comments \X Agents /\ attachments' \in [Files -> SUBSET Issues]
        /\ subscribers' \in [Issues -> SUBSET People]
        /\ metadata' \in [Issues -> [Keys -> Entries \union {NoEntry}]]
        /\ sent' \in 0 .. MaxRequests
    BY <1>5, Counters DEF DeleteIssue, TypeInv, TypeOK
  <2> QED
    BY <1>5, <2>1, <2>2, <2>3 DEF DeleteIssue, TypeInv, TypeOK, roster, notices
<1>6. ASSUME NEW a \in Agents, DropAgent(a)
      PROVE  TypeInv'
  BY <1>6, Counters DEF DropAgent, TypeInv, TypeOK, notices, storage
<1>7. ASSUME NEW a \in Agents, NEW n \in Names, UpdateAgent(a, n)
      PROVE  TypeInv'
  <2>1. (1 .. posted) \X {a} \subseteq Comments \X Agents
    BY BoundsAssumption DEF TypeInv, TypeOK, Comments
  <2>2. names' \in [Agents -> Names] /\ renamed' \subseteq Comments \X Agents
    BY <1>7, <2>1 DEF UpdateAgent, TypeInv, TypeOK
  <2> QED
    BY <1>7, <2>2, Counters DEF UpdateAgent, TypeInv, TypeOK, talk, notices, storage
<1> QED
  BY <1>1, <1>2, <1>3, <1>4, <1>5, <1>6, <1>7 DEF Request

LEMMA ScannerTypes ==
  ASSUME TypeInv, NEW s \in Servers, Scanner(s)
  PROVE  TypeInv'
<1>0. scan[s] \in Scans /\ (scan[s].pc # "idle" => scan[s].notice \in Warning)
  BY DEF TypeInv, TypeOK
<1>1. Resting \in Scans /\ Resting.pc = "idle"
  BY DEF Resting, Scans
<1>2. Done(s) \in Scans /\ Done(s).pc = "idle"
  BY <1>0 DEF Done, Resting, Scans
<1>3. PICK c \in Scans : Step(s, c) /\ (c.pc # "idle" => c.notice \in Warning)
  <2>1. CASE Scan(s)
    <3>1. [Resting EXCEPT !.left = Due] \in Scans /\ [Resting EXCEPT !.left = Due].pc = "idle"
      BY DEF Resting, Scans, Due
    <3> QED
      BY <2>1, <3>1 DEF Scan
  <2>2. ASSUME NEW x \in Warning, NotifyIssue(s, x)
        PROVE  \E c \in Scans : Step(s, c) /\ (c.pc # "idle" => c.notice \in Warning)
    <3>1. scan[s].pc = "idle" /\ scan[s].left \ {x} \in SUBSET Warning
      BY <1>0, <2>2 DEF NotifyIssue, Scans
    <3>2. [scan[s] EXCEPT !.left = scan[s].left \ {x}] \in Scans
          /\ [scan[s] EXCEPT !.left = scan[s].left \ {x}].pc = "idle"
      BY <1>0, <3>1 DEF Scans
    <3>3. [pc |-> "dedupe", left |-> scan[s].left \ {x}, notice |-> x] \in Scans
      BY <3>1 DEF Scans
    <3>4. \/ Step(s, [scan[s] EXCEPT !.left = scan[s].left \ {x}])
          \/ Step(s, [pc |-> "dedupe", left |-> scan[s].left \ {x}, notice |-> x])
      BY <2>2 DEF NotifyIssue
    <3>5. CASE Step(s, [scan[s] EXCEPT !.left = scan[s].left \ {x}])
      BY <3>2, <3>5
    <3>6. CASE Step(s, [pc |-> "dedupe", left |-> scan[s].left \ {x}, notice |-> x])
      BY <3>3, <3>6
    <3> QED
      BY <3>4, <3>5, <3>6
  <2>3. CASE Dedupe(s)
    <3>1. [scan[s] EXCEPT !.pc = "warn"] \in Scans
          /\ [scan[s] EXCEPT !.pc = "warn"].notice = scan[s].notice
      BY <1>0 DEF Scans
    <3>2. Step(s, Done(s)) \/ Step(s, [scan[s] EXCEPT !.pc = "warn"])
      BY <2>3 DEF Dedupe
    <3>3. scan[s].notice \in Warning
      BY <1>0, <2>3 DEF Dedupe
    <3>4. CASE Step(s, [scan[s] EXCEPT !.pc = "warn"])
      BY <3>1, <3>3, <3>4
    <3> QED
      BY <1>2, <3>2, <3>4
  <2>4. CASE Warn(s) \/ Swallow(s) \/ StopScan(s)
    BY <1>1, <1>2, <2>4 DEF Warn, Swallow, StopScan
  <2> QED
    BY <2>1, <2>2, <2>3, <2>4 DEF Scanner
<1>4. scan' \in [Servers -> Scans]
      /\ \A r \in Servers : scan'[r].pc # "idle" => scan'[r].notice \in Warning
  BY <1>3 DEF Step, TypeInv, TypeOK
<1>5. warned' \in [Servers -> [Warning -> Nat]] /\ unread' \subseteq Warning
  <2>1. CASE Warn(s)
    <3> DEFINE x == scan[s].notice
    <3>1. x \in Warning
      BY <1>0, <2>1 DEF Warn
    <3>2. \/ warned' = [warned EXCEPT ![s][x] = @ + 1] /\ unread' = unread \union {x}
          \/ UNCHANGED notices
      BY <2>1 DEF Warn
    <3> HIDE DEF x
    <3>3. warned[s] \in [Warning -> Nat] /\ warned[s][x] + 1 \in Nat
      BY <3>1 DEF TypeInv, TypeOK
    <3>4. CASE UNCHANGED notices
      BY <3>4 DEF TypeInv, TypeOK, notices
    <3>5. CASE warned' = [warned EXCEPT ![s][x] = @ + 1] /\ unread' = unread \union {x}
      <4> DEFINE given == [warned[s] EXCEPT ![x] = warned[s][x] + 1]
      <4>1. given \in [Warning -> Nat]
        BY <3>3
      <4>2. warned' = [warned EXCEPT ![s] = given]
        BY <3>5
      <4> HIDE DEF given
      <4> QED
        BY <3>1, <3>5, <4>1, <4>2 DEF TypeInv, TypeOK
    <3> QED
      BY <3>2, <3>4, <3>5
  <2>2. CASE UNCHANGED notices
    BY <2>2 DEF TypeInv, TypeOK, notices
  <2> QED
    BY <2>1, <2>2 DEF Scanner, Scan, NotifyIssue, Dedupe, Swallow, StopScan
<1>6. mishaps' \in 0 .. MaxMishaps
  BY Counters DEF TypeInv, TypeOK, Scanner, Scan, NotifyIssue, Dedupe, Warn, Swallow, StopScan
<1>7. UNCHANGED <<people, talk, storage, metadata, op, sent, spoiled>>
  BY DEF Scanner, Scan, NotifyIssue, Dedupe, Warn, Swallow, StopScan
<1> QED
  BY <1>4, <1>5, <1>6, <1>7 DEF TypeInv, TypeOK, people, roster, talk, storage

LEMMA NextTypes ==
  ASSUME TypeInv, [Next]_vars
  PROVE  TypeInv'
<1>1. CASE UNCHANGED vars
  BY <1>1 DEF vars, people, roster, talk, notices, storage, TypeInv, TypeOK
<1>2. ASSUME NEW h \in Handlers, Handle(h)
      PROVE  TypeInv'
  <2>1. Humans \subseteq People /\ Agents \subseteq People
    BY DEF People
  <2> QED
    BY <1>2, <2>1, AddCommentTypes, CreateCommentTypes, TellingTypes, NotifyTypes, EnqueueTypes,
       SkipTypes, AddAttachmentTypes, UploadTypes, EndTypes DEF Handle
<1> QED
  BY <1>1, <1>2, RequestTypes, ScannerTypes DEF Next
------------------------------------------------------------------------------
(* Due notices.                                                            *)

\* What the requests of handlers, and the scanners, leave to others.
LEMMA HandlerLeaves ==
  ASSUME NEW h \in Handlers, Handle(h)
  PROVE  UNCHANGED <<people, notices, scan>>
<1>1. ASSUME NEW i \in Issues, NEW p \in Comments \union {0}, NEW m \in Texts, NEW u,
             AddComment(h, u, i, p, m) \/ PostComment(h, u, i, p, m)
      PROVE  UNCHANGED <<people, notices, scan>>
  BY <1>1 DEF AddComment, PostComment
<1>2. ASSUME CreateComment(h) \/ CommentRefused(h) \/ NotifyComment(h) \/ NotifyMentions(h)
             \/ OnComment(h) \/ Skip(h)
      PROVE  UNCHANGED <<people, notices, scan>>
  BY <1>2 DEF CreateComment, CommentRefused, NotifyComment, NotifyMentions, OnComment, Skip
<1>3. ASSUME NEW u, Notify(h, u) \/ Enqueue(h, u)
      PROVE  UNCHANGED <<people, notices, scan>>
  BY <1>3 DEF Notify, Enqueue
<1>4. ASSUME NEW i, NEW c, NEW f, AddAttachment(h, i, c, f)
      PROVE  UNCHANGED <<people, notices, scan>>
  BY <1>4 DEF AddAttachment
<1>5. ASSUME \/ WriteLimited(h) \/ CreateAttachment(h) \/ FailRow(h) \/ LoseAnswer(h)
             \/ RemoveFile(h) \/ Crash(h)
      PROVE  UNCHANGED <<people, notices, scan>>
  BY <1>5 DEF WriteLimited, CreateAttachment, FailRow, LoseAnswer, RemoveFile, Crash
<1> QED
  BY <1>1, <1>2, <1>3, <1>4, <1>5 DEF Handle

LEMMA ScannerLeaves ==
  ASSUME NEW s \in Servers, Scanner(s)
  PROVE  UNCHANGED <<people, talk, storage, op, spoiled>>
BY DEF Scanner, Scan, NotifyIssue, Dedupe, Warn, Swallow, StopScan

LEMMA GoneStays ==
  ASSUME TypeInv, [Next]_vars, NEW i \in Issues, Exists(i)'
  PROVE  Exists(i)
<1>1. issues' = issues => Exists(i)
  BY DEF Exists
<1>2. ASSUME NEW j \in Issues,
             (\E new \in Issue : UpdateIssue(j, new)) \/ DeleteIssue(j) \/ TimePasses(j)
      PROVE  Exists(i)
  <2>1. Exists(j) /\ \A k \in Issues \ {j} : issues'[k] = issues[k]
    BY <1>2 DEF UpdateIssue, DeleteIssue, TimePasses, TypeInv, TypeOK
  <2> QED
    BY <2>1 DEF Exists
<1>3. ASSUME Request
      PROVE  Exists(i)
  BY <1>1, <1>2, <1>3 DEF Request, people, roster, SetMetadata, DeleteMetadata, AddSubscriber,
     RemoveSubscriber, MarkRead, DropAgent, UpdateAgent
<1> QED
  BY <1>1, <1>3, HandlerLeaves, ScannerLeaves DEF Next, vars, people, roster

\* A scanner that is about to give a notice has not given it before, unless
\* the issue is gone and the notice will be refused.
Lookups ==
  \A s \in Servers :
    scan[s].pc = "warn" /\ Exists(scan[s].notice.issue) => warned[s][scan[s].notice] = 0
DueInv == Lookups /\ DueToldOnce

LEMMA DueStep ==
  ASSUME TypeInv, DueInv, [Next]_vars
  PROVE  DueInv'
<1>0. /\ \A r \in Servers : scan[r].pc = "warn" => scan[r].notice.issue \in Issues
      /\ \A i \in Issues : Exists(i)' => Exists(i)
  BY GoneStays DEF TypeInv, Warning
<1>1. ASSUME UNCHANGED <<notices, scan>>
      PROVE  DueInv'
  BY <1>0, <1>1 DEF DueInv, Lookups, DueToldOnce, notices
<1>2. ASSUME NEW s \in Servers, Scanner(s)
      PROVE  DueInv'
  <2>0. scan[s] \in Scans /\ (scan[s].pc # "idle" => scan[s].notice \in Warning)
    BY DEF TypeInv, TypeOK
  <2>1. ASSUME UNCHANGED notices, NEW c \in Scans, Step(s, c),
               c.pc = "warn" /\ Exists(c.notice.issue) => warned[s][c.notice] = 0,
               c.pc = "warn" => c.notice.issue \in Issues
        PROVE  DueInv'
    <3>1. scan'[s] = c /\ \A r \in Servers \ {s} : scan'[r] = scan[r]
      BY <2>1 DEF Step, TypeInv, TypeOK
    <3> QED
      BY <1>0, <2>1, <3>1 DEF DueInv, Lookups, DueToldOnce, notices
  <2>2. CASE Scan(s) \/ StopScan(s) \/ Swallow(s) \/ \E x \in Warning : NotifyIssue(s, x)
    <3>1. UNCHANGED notices
      BY <2>2 DEF Scan, StopScan, Swallow, NotifyIssue
    <3>2. PICK c : Step(s, c) /\ c.pc # "warn"
      <4>1. /\ Resting.pc = "idle" /\ Done(s).pc = "idle" /\ [Resting EXCEPT !.left = Due].pc = "idle"
            /\ \A X : [scan[s] EXCEPT !.left = X].pc = scan[s].pc
            /\ \A X, y : [pc |-> "dedupe", left |-> X, notice |-> y].pc = "dedupe"
        BY <2>0 DEF Done, Resting, Scans
      <4>2. CASE Scan(s) \/ StopScan(s) \/ Swallow(s)
        BY <4>1, <4>2 DEF Scan, StopScan, Swallow
      <4>3. ASSUME NEW x \in Warning, NotifyIssue(s, x)
            PROVE  \E c : Step(s, c) /\ c.pc # "warn"
        <5>1. \/ Step(s, [scan[s] EXCEPT !.left = scan[s].left \ {x}])
              \/ Step(s, [pc |-> "dedupe", left |-> scan[s].left \ {x}, notice |-> x])
          BY <4>3 DEF NotifyIssue
        <5>2. scan[s].pc = "idle"
          BY <4>3 DEF NotifyIssue
        <5>3. CASE Step(s, [scan[s] EXCEPT !.left = scan[s].left \ {x}])
          BY <4>1, <5>2, <5>3
        <5>4. CASE Step(s, [pc |-> "dedupe", left |-> scan[s].left \ {x}, notice |-> x])
          BY <4>1, <5>4
        <5> QED
          BY <5>1, <5>3, <5>4
      <4> QED
        BY <2>2, <4>2, <4>3
    <3>3. scan'[s] = c /\ \A r \in Servers \ {s} : scan'[r] = scan[r]
      BY <3>2 DEF Step, TypeInv, TypeOK
    <3> QED
      BY <1>0, <3>1, <3>2, <3>3 DEF DueInv, Lookups, DueToldOnce, notices
  <2>3. CASE Dedupe(s)
    <3> DEFINE x == scan[s].notice
    <3>1. x \in Warning /\ UNCHANGED notices
      BY <2>0, <2>3 DEF Dedupe
    <3>2. CASE HasNotification(x)
      <4>1. Step(s, Done(s)) /\ Done(s) \in Scans /\ Done(s).pc = "idle"
        BY <2>0, <2>3, <3>2 DEF Dedupe, Done, Resting, Scans
      <4> QED
        BY <2>1, <3>1, <4>1
    <3>3. CASE ~HasNotification(x)
      <4>1. Step(s, [scan[s] EXCEPT !.pc = "warn"])
        BY <2>3, <3>3 DEF Dedupe
      <4>2. [scan[s] EXCEPT !.pc = "warn"] \in Scans /\ [scan[s] EXCEPT !.pc = "warn"].notice = x
        BY <2>0 DEF Scans
      <4>3. Exists(x.issue) => warned[s][x] = 0
        <5>1. warned[s][x] \in Nat
          BY <3>1 DEF TypeInv, TypeOK
        <5> QED
          BY <3>3, <5>1 DEF HasNotification
      <4> HIDE DEF x
      <4> QED
        BY <2>1, <3>1, <4>1, <4>2, <4>3 DEF Warning
    <3> QED
      BY <3>2, <3>3
  <2>4. CASE Warn(s)
    <3> DEFINE x == scan[s].notice
    <3>1. x \in Warning /\ scan[s].pc = "warn" /\ x.issue \in Issues
      BY <2>0, <2>4 DEF Warn, Warning
    <3>2. Step(s, Done(s)) /\ Done(s) \in Scans /\ Done(s).pc = "idle"
      BY <2>0, <2>4 DEF Warn, Done, Resting, Scans
    <3>3. CASE ~Exists(x.issue)
      BY <2>1, <2>4, <3>2, <3>3 DEF Warn
    <3>4. CASE Exists(x.issue)
      <4>1. warned' = [warned EXCEPT ![s][x] = @ + 1] /\ warned[s][x] = 0
        BY <2>4, <3>1, <3>4 DEF Warn, DueInv, Lookups
      <4>2. scan'[s] = Done(s) /\ \A r \in Servers \ {s} : scan'[r] = scan[r]
        BY <3>2 DEF Step, TypeInv, TypeOK
      <4> HIDE DEF x
      <4>3. /\ warned'[s][x] = 1 /\ \A y \in Warning \ {x} : warned'[s][y] = warned[s][y]
            /\ \A r \in Servers \ {s} : warned'[r] = warned[r]
        BY <3>1, <4>1 DEF TypeInv, TypeOK
      <4>4. DueToldOnce'
        BY <4>3 DEF DueInv, DueToldOnce
      <4>5. Lookups'
        BY <1>0, <3>2, <4>2, <4>3 DEF DueInv, Lookups
      <4> QED
        BY <4>4, <4>5 DEF DueInv
    <3> QED
      BY <3>3, <3>4
  <2> QED
    BY <1>2, <2>2, <2>3, <2>4 DEF Scanner
<1>3. ASSUME NEW X, MarkRead(X)
      PROVE  DueInv'
  BY <1>0, <1>3 DEF MarkRead, DueInv, Lookups, DueToldOnce
<1>4. ASSUME Request
      PROVE  DueInv'
  BY <1>1, <1>3, <1>4 DEF Request, SetMetadata, DeleteMetadata, AddSubscriber, RemoveSubscriber,
     DropAgent, UpdateAgent, UpdateIssue, DeleteIssue, TimePasses
<1> QED
  BY <1>1, <1>2, <1>4, HandlerLeaves DEF Next, vars

------------------------------------------------------------------------------
(* Attachments.                                                            *)

\* What a request knows of the file it holds.
Holds(o, att, fs, st, sp) ==
  /\ o.pc = "file" => o.file \notin fs /\ o.file \notin st /\ att[o.file] = {}
  /\ o.pc = "row" => o.file \in fs /\ o.file \notin st /\ att[o.file] = {}
  /\ o.pc = "undo" => o.file \in sp \/ (o.file \notin st /\ att[o.file] = {})

StorageInv ==
  /\ \A h \in Handlers : Holds(op[h], attachments, files, stored, spoiled)
  /\ \A g, h \in Handlers : op[h].file \in Files /\ op[g].file = op[h].file => g = h
  /\ StorageAccounted

LEMMA Empty ==
  ASSUME TypeInv, NEW h \in Handlers
  PROVE  op[h].pc \notin Uploading => op[h].file = NoFile
  BY DEF TypeInv, TypeOK, Ops, Shape, Idle, Uploading, Telling, Calling

\* Steps that leave the storage alone and take up no file.
LEMMA StorageStays ==
  ASSUME TypeInv, TypeInv', StorageInv, UNCHANGED storage, spoiled \subseteq spoiled',
         \A h \in Handlers : op'[h] = op[h] \/ (op[h].pc \notin Uploading /\ op'[h].pc \notin Uploading)
  PROVE  StorageInv'
<1>1. \A h \in Handlers : op'[h].file = op[h].file
  <2>1. \A h \in Handlers : op'[h].pc \notin Uploading => op'[h].file = NoFile
    BY DEF TypeInv, TypeOK, Ops, Shape, Idle, Uploading, Telling, Calling
  <2> QED
    BY <2>1, Empty
<1>2. \A h \in Handlers : Holds(op'[h], attachments', files', stored', spoiled')
  BY DEF StorageInv, Holds, storage, Uploading
<1>3. StorageAccounted'
  BY <1>1 DEF StorageInv, StorageAccounted, storage
<1> QED
  BY <1>1, <1>2, <1>3 DEF StorageInv

\* Steps of a request with its own file only.
LEMMA StorageStep ==
  ASSUME TypeInv, StorageInv, NEW h \in Handlers, NEW n, Move(h, n), NEW f \in Files,
         n.file \in {f, NoFile}, op[h].file = f \/ \A g \in Handlers : op[g].file # f,
         op[h].file \in {f, NoFile},
         spoiled \subseteq spoiled', Holds(n, attachments', files', stored', spoiled'),
         \A e \in Files \ {f} : /\ attachments'[e] = attachments[e]
                                /\ (e \in files' <=> e \in files) /\ (e \in stored' <=> e \in stored),
         f \notin spoiled' => /\ attachments'[f] # {} => f \in files'
                              /\ f \in files' => f \in stored' \/ n.file = f
  PROVE  StorageInv'
<1>1. op'[h] = n /\ \A g \in Handlers \ {h} : op'[g] = op[g]
  BY DEF Move, TypeInv, TypeOK
<1>2. \A g \in Handlers \ {h} : op[g].file # f /\ (op[g].pc \in Uploading => op[g].file \in Files \ {f})
  BY DEF StorageInv, TypeInv, Shape
<1>3. \A g \in Handlers \ {h} : Holds(op[g], attachments', files', stored', spoiled')
  BY <1>2 DEF StorageInv, Holds, Uploading
<1>4. \A g, k \in Handlers : op'[k].file \in Files /\ op'[g].file = op'[k].file => g = k
  BY <1>1, <1>2, NonesAssumption DEF StorageInv
<1>5. StorageAccounted'
  <2> SUFFICES ASSUME NEW e \in Files, e \notin spoiled'
               PROVE  /\ attachments'[e] # {} => e \in files'
                      /\ e \in files' => e \in stored' \/ \E g \in Handlers : op'[g].file = e
    BY DEF StorageAccounted
  <2>1. CASE e = f
    BY <1>1, <2>1
  <2>2. CASE e # f
    <3>1. e \notin spoiled /\ \A g \in Handlers : op[g].file = e => g # h
      BY <2>2, NonesAssumption
    <3> QED
      BY <1>1, <2>2, <3>1 DEF StorageInv, StorageAccounted
  <2> QED
    BY <2>1, <2>2
<1> QED
  BY <1>1, <1>3, <1>4, <1>5 DEF StorageInv

LEMMA UploadStep ==
  ASSUME TypeInv, StorageInv, NEW h \in Handlers,
         \/ WriteLimited(h) \/ CreateAttachment(h) \/ FailRow(h) \/ LoseAnswer(h)
         \/ RemoveFile(h)
  PROVE  StorageInv'
<1> DEFINE f == op[h].file
<1>1. f \in Files /\ op[h].pc \in Uploading /\ Holds(op[h], attachments, files, stored, spoiled)
  BY DEF WriteLimited, CreateAttachment, FailRow, LoseAnswer, RemoveFile, At, Uploading, TypeInv,
     Shape, StorageInv
<1>2. Idle.file = NoFile /\ Idle.pc = "idle"
  BY DEF Idle
<1>3. CASE WriteLimited(h)
  <2>1. CASE files' = files \union {f} /\ Move(h, [op[h] EXCEPT !.pc = "row"])
    <3> DEFINE n == [op[h] EXCEPT !.pc = "row"]
    <3>1. n.file = f /\ n.pc = "row"
      BY <1>1, UploadOK DEF Uploading
    <3>2. UNCHANGED <<attachments, stored, spoiled>>
      BY <1>3 DEF WriteLimited
    <3>3. Holds(n, attachments', files', stored', spoiled')
      BY <1>1, <1>3, <2>1, <3>1, <3>2 DEF Holds, WriteLimited, At
    <3> HIDE DEF n
    <3>4. Move(h, n)
      BY <2>1 DEF n
    <3> QED
      BY <1>1, <1>3, <2>1, <3>1, <3>2, <3>3, <3>4, StorageStep DEF Holds, WriteLimited, At
  <2>2. CASE Move(h, Idle) /\ UNCHANGED files
    <3>1. UNCHANGED <<attachments, files, stored, spoiled>> /\ f \notin files /\ attachments[f] = {}
      BY <1>1, <1>3, <2>2 DEF WriteLimited, At, Holds
    <3>2. Holds(Idle, attachments', files', stored', spoiled')
      BY <1>2 DEF Holds
    <3> QED
      BY <1>1, <1>2, <2>2, <3>1, <3>2, StorageStep
  <2> QED
    BY <1>3, <2>1, <2>2 DEF WriteLimited
<1>4. CASE CreateAttachment(h) /\ Attachable(op[h].issue, op[h].comment)
  <2>1. /\ attachments' = [attachments EXCEPT ![f] = Row(op[h])] /\ stored' = stored \union {f}
        /\ Move(h, Idle) /\ UNCHANGED <<files, spoiled>> /\ f \in files
    BY <1>1, <1>4 DEF CreateAttachment, Holds, At
  <2>2. \A e \in Files \ {f} : attachments'[e] = attachments[e]
    BY <2>1 DEF TypeInv, TypeOK
  <2>3. Holds(Idle, attachments', files', stored', spoiled')
    BY <1>2 DEF Holds
  <2> QED
    BY <1>1, <1>2, <2>1, <2>2, <2>3, StorageStep
<1>5. CASE \/ CreateAttachment(h) /\ ~Attachable(op[h].issue, op[h].comment)
           \/ FailRow(h) \/ LoseAnswer(h)
  <2> DEFINE n == [op[h] EXCEPT !.pc = "undo"]
  <2>1. n.file = f /\ n.pc = "undo"
    BY <1>1, UploadOK DEF Uploading
  <2>2. Move(h, n) /\ UNCHANGED files /\ op[h].pc = "row" /\ f \in files
    BY <1>1, <1>5 DEF CreateAttachment, FailRow, LoseAnswer, At, Holds, storage
  <2> HIDE DEF n
  <2>3. \/ UNCHANGED <<attachments, stored, spoiled>>
        \/ /\ attachments' = [attachments EXCEPT ![f] = Row(op[h])] /\ stored' = stored \union {f}
           /\ spoiled' = spoiled \union {f}
    BY <1>5 DEF CreateAttachment, FailRow, LoseAnswer, storage
  <2>4. \A e \in Files \ {f} : attachments'[e] = attachments[e] /\ (e \in stored' <=> e \in stored)
    BY <2>3 DEF TypeInv, TypeOK
  <2>5. Holds(n, attachments', files', stored', spoiled')
    BY <1>1, <2>1, <2>2, <2>3 DEF Holds
  <2> QED
    BY <1>1, <2>1, <2>2, <2>3, <2>4, <2>5, StorageStep
<1>6. CASE RemoveFile(h)
  <2>1. /\ files' = files \ {f} /\ Move(h, Idle) /\ UNCHANGED <<attachments, stored, spoiled>>
        /\ f \in spoiled \/ attachments[f] = {}
    BY <1>1, <1>6 DEF RemoveFile, At, Holds
  <2>2. Holds(Idle, attachments', files', stored', spoiled')
    BY <1>2 DEF Holds
  <2> QED
    BY <1>1, <1>2, <2>1, <2>2, StorageStep
<1> QED
  BY <1>3, <1>4, <1>5, <1>6

LEMMA AddAttachmentStep ==
  ASSUME TypeInv, StorageInv, NEW h \in Handlers, NEW i \in Issues, NEW c \in Comments \union {0},
         NEW f \in Files, AddAttachment(h, i, c, f)
  PROVE  StorageInv'
<1> DEFINE n == [Idle EXCEPT !.pc = "file", !.issue = i, !.comment = c, !.file = f]
<1>1. Move(h, n) /\ n.pc = "file" /\ n.file = f /\ op[h].file = NoFile
  BY DEF AddAttachment, Idle
<1> HIDE DEF n
<1>2. /\ f \notin files /\ f \notin stored /\ f \notin spoiled /\ \A g \in Handlers : op[g].file # f
      /\ UNCHANGED storage /\ UNCHANGED spoiled
  BY DEF AddAttachment
<1>3. attachments[f] = {}
  BY <1>2 DEF StorageInv, StorageAccounted
<1>4. Holds(n, attachments', files', stored', spoiled')
  BY <1>1, <1>2, <1>3 DEF Holds, storage
<1> QED
  BY <1>1, <1>2, <1>3, <1>4, StorageStep DEF storage

LEMMA CrashStep ==
  ASSUME TypeInv, TypeInv', StorageInv, NEW h \in Handlers, Crash(h)
  PROVE  StorageInv'
<1>1. Move(h, Idle) /\ UNCHANGED storage /\ spoiled \subseteq spoiled'
  BY DEF Crash
<1>2. Idle.file = NoFile /\ Idle.pc = "idle"
  BY DEF Idle
<1>3. CASE op[h].pc \in Uploading
  <2> DEFINE f == op[h].file
  <2>1. f \in Files /\ f \in spoiled'
    BY <1>3, NonesAssumption DEF Crash, TypeInv, Shape
  <2>2. Holds(Idle, attachments', files', stored', spoiled')
    BY <1>2 DEF Holds
  <2> QED
    BY <1>1, <1>2, <2>1, <2>2, StorageStep DEF storage
<1>4. CASE op[h].pc \notin Uploading
  <2>1. op'[h] = Idle /\ \A g \in Handlers \ {h} : op'[g] = op[g]
    BY <1>1 DEF Move, TypeInv, TypeOK
  <2> QED
    BY <1>1, <1>2, <1>4, <2>1, StorageStays DEF Uploading
<1> QED
  BY <1>3, <1>4

\* No step of a comment holds a file.
LEMMA TalkHoldsNothing ==
  ASSUME TypeInv, TypeInv', StorageInv, NEW h \in Handlers, NEW n, Move(h, n),
         op[h].pc \notin Uploading, n.pc \notin Uploading, UNCHANGED storage, spoiled \subseteq spoiled'
  PROVE  StorageInv'
<1>1. op'[h] = n /\ \A g \in Handlers \ {h} : op'[g] = op[g]
  BY DEF Move, TypeInv, TypeOK
<1> QED
  BY <1>1, StorageStays

LEMMA BeginStorage ==
  ASSUME TypeInv, TypeInv', StorageInv, NEW h \in Handlers, NEW i, NEW p, NEW m, NEW u,
         AddComment(h, u, i, p, m) \/ PostComment(h, u, i, p, m)
  PROVE  StorageInv'
<1>1. PICK n : Move(h, n) /\ n.pc = "insert"
  <2>1. [Idle EXCEPT !.pc = "insert", !.issue = i, !.assignee = issues[i].assignee,
                     !.parent = p, !.author = u, !.mentions = m].pc = "insert"
    BY DEF Idle
  <2>2. [Idle EXCEPT !.pc = "insert", !.issue = i, !.parent = p, !.author = u,
                     !.mentions = m].pc = "insert"
    BY DEF Idle
  <2>3. CASE AddComment(h, u, i, p, m)
    BY <2>1, <2>3 DEF AddComment
  <2>4. CASE PostComment(h, u, i, p, m)
    BY <2>2, <2>4 DEF PostComment
  <2> QED
    BY <2>3, <2>4
<1>2. op[h].pc = "idle" /\ UNCHANGED <<storage, spoiled>>
  BY DEF AddComment, PostComment, Idle
<1> QED
  BY <1>1, <1>2, TalkHoldsNothing DEF Uploading

LEMMA TalkStorage ==
  ASSUME TypeInv, TypeInv', StorageInv, NEW h \in Handlers,
         \/ CreateComment(h) \/ CommentRefused(h) \/ NotifyComment(h) \/ NotifyMentions(h)
         \/ (\E u \in People : Notify(h, u)) \/ OnComment(h) \/ (\E a \in Agents : Enqueue(h, a))
         \/ Skip(h)
  PROVE  StorageInv'
<1>0. op[h] \in Ops
  BY DEF TypeInv, TypeOK
<1>1. Idle.pc = "idle"
  BY DEF Idle
<1>2. ASSUME NEW n, NEW pc \in {"tell", "mention", "enqueue"}, NEW left, Enters(n, op[h], pc, left)
      PROVE  n.pc \notin Uploading
  BY <1>1, <1>2 DEF Enters, Uploading
<1>3. CASE NotifyComment(h)
  <2>1. PICK n : Move(h, n) /\ n.pc \notin Uploading /\ op[h].pc = "subscribers"
    BY <1>2, <1>3, NotifyCommentDoes
  <2> QED
    BY <1>3, <2>1, TalkHoldsNothing DEF NotifyComment, Uploading
<1>4. CASE NotifyMentions(h)
  <2>1. PICK n : Move(h, n) /\ n.pc \notin Uploading /\ op[h].pc = "directory"
    BY <1>2, <1>4, NotifyMentionsDoes
  <2> QED
    BY <1>4, <2>1, TalkHoldsNothing DEF NotifyMentions, Uploading
<1>5. CASE OnComment(h)
  <2>1. PICK n : Move(h, n) /\ n.pc \notin Uploading /\ op[h].pc = "agents"
    BY <1>2, <1>5, OnCommentDoes
  <2> QED
    BY <1>5, <2>1, TalkHoldsNothing DEF OnComment, Uploading
<1>6. ASSUME NEW u \in People, Notify(h, u)
      PROVE  StorageInv'
  <2>1. PICK n : Move(h, n) /\ n.pc \notin Uploading /\ op[h].pc \in {"tell", "mention"}
    BY <1>2, <1>6, NotifyDoes
  <2> QED
    BY <1>6, <2>1, TalkHoldsNothing DEF Notify, Uploading
<1>7. ASSUME NEW a \in Agents, Enqueue(h, a)
      PROVE  StorageInv'
  <2>1. PICK n : Move(h, n) /\ n.pc \notin Uploading /\ op[h].pc = "enqueue"
    BY <1>1, <1>2, <1>7, EnqueueDoes DEF Uploading
  <2> QED
    BY <1>7, <2>1, TalkHoldsNothing DEF Enqueue, Uploading
<1>8. CASE Skip(h)
  <2>1. PICK n : Move(h, n) /\ n.pc \notin Uploading /\ op[h].pc \notin Uploading
    BY <1>8, SkipDoes DEF Telling, Calling, Uploading
  <2> QED
    BY <1>8, <2>1, TalkHoldsNothing DEF Skip
<1>9. CASE CreateComment(h) \/ CommentRefused(h)
  <2>1. PICK n : Move(h, n) /\ n.pc \in {"idle", "subscribers", "agents"}
    <3> DEFINE n == [op[h] EXCEPT !.comment = posted + 1,
                       !.pc = IF op[h].author \in Humans THEN "subscribers" ELSE "agents"]
    <3>1. n.pc = IF op[h].author \in Humans THEN "subscribers" ELSE "agents"
      BY <1>0 DEF Ops
    <3>2. Move(h, Idle) \/ Move(h, n)
      BY <1>9 DEF CreateComment, CommentRefused
    <3> HIDE DEF n
    <3> QED
      BY <1>1, <3>1, <3>2
  <2>2. op[h].pc = "insert" /\ UNCHANGED <<storage, spoiled>>
    BY <1>9 DEF CreateComment, CommentRefused, At
  <2> QED
    BY <2>1, <2>2, TalkHoldsNothing DEF Uploading
<1> QED
  BY <1>3, <1>4, <1>5, <1>6, <1>7, <1>8, <1>9

LEMMA StorageNext ==
  ASSUME TypeInv, TypeInv', StorageInv, [Next]_vars
  PROVE  StorageInv'
<1>1. ASSUME UNCHANGED <<storage, op>>, spoiled \subseteq spoiled'
      PROVE  StorageInv'
  BY <1>1, StorageStays
<1>2. ASSUME NEW i \in Issues, DeleteIssue(i)
      PROVE  StorageInv'
  <2>1. \A f \in Files : attachments'[f] = attachments[f] \/ attachments'[f] = {}
    BY <1>2 DEF DeleteIssue
  <2>2. UNCHANGED <<files, stored, spoiled, op>>
    BY <1>2 DEF DeleteIssue
  <2>3. \A h \in Handlers : Holds(op[h], attachments', files', stored', spoiled')
    BY <2>1, <2>2 DEF StorageInv, Holds, TypeInv, Shape, Uploading
  <2> QED
    BY <2>1, <2>2, <2>3 DEF StorageInv, StorageAccounted
<1>3. ASSUME NEW h \in Handlers, Handle(h)
      PROVE  StorageInv'
  <2>1. CASE \/ \E i \in Issues, c \in Comments \union {0}, f \in Files : AddAttachment(h, i, c, f)
             \/ WriteLimited(h) \/ CreateAttachment(h) \/ FailRow(h) \/ LoseAnswer(h)
             \/ RemoveFile(h) \/ Crash(h)
    BY <2>1, AddAttachmentStep, UploadStep, CrashStep
  <2> QED
    BY <1>3, <2>1, BeginStorage, TalkStorage DEF Handle
<1>4. ASSUME Request
      PROVE  StorageInv'
  BY <1>1, <1>2, <1>4 DEF Request, SetMetadata, DeleteMetadata, AddSubscriber, RemoveSubscriber,
     MarkRead, UpdateIssue, TimePasses, DropAgent, UpdateAgent
<1> QED
  BY <1>1, <1>3, <1>4, ScannerLeaves DEF Next, vars
------------------------------------------------------------------------------
(* Comments.                                                               *)

\* Of a comment of u that mentions the names m: who is to be told, and whom it
\* may have called.
Hears(u, m) == {v \in Humans \ {u} : DisplayName[v] \in m}
MayCall(c, u, m, nm, re) == {a \in Agents \ {u} : <<c, a>> \in re \/ nm[a] \in m}

\* What is done when nobody is busy with comment c any more.
Fine(c, cs, tl, rn, ag, nm, re) ==
  LET u == cs[c].author
      m == cs[c].mentions IN
  /\ u \in Humans => \A v \in Hears(u, m) : <<c, v>> \in tl
  /\ MayCall(c, u, m, nm, re) \subseteq ag =>
       \A a \in MayCall(c, u, m, nm, re) : <<c, a>> \in re \/ <<cs[c].issue, c, a>> \in rn

\* How far a request has come with its comment.
Knows(o, cs, tl, rn, ag, nm, re, sp, po) ==
  o.pc \in Telling \union Calling =>
    /\ o.comment <= po
    /\ cs[o.comment] # NoComment /\ o.comment \notin sp =>
         LET c == o.comment
             heard == Hears(o.author, o.mentions)
             called == MayCall(c, o.author, o.mentions, nm, re) IN
         /\ cs[c].issue = o.issue /\ cs[c].author = o.author /\ cs[c].mentions = o.mentions
         /\ o.pc = "tell" /\ o.assignee \in heard => <<c, o.assignee>> \in tl \/ o.assignee \in o.left
         /\ o.pc \in {"directory", "mention"} /\ o.assignee \in heard => <<c, o.assignee>> \in tl
         /\ o.pc = "mention" => \A u \in heard : <<c, u>> \in tl \/ u \in o.left
         /\ o.pc \in Calling /\ o.author \in Humans => \A u \in heard : <<c, u>> \in tl
         /\ o.pc = "enqueue" =>
              /\ o.left \subseteq called
              /\ called \subseteq ag =>
                   \A a \in called : <<c, a>> \in re \/ <<o.issue, c, a>> \in rn \/ a \in o.left

\* A comment goes with its issue.
Rows ==
  \A c \in Comments : comments[c] # NoComment =>
    c <= posted /\ Exists(comments[c].issue) /\ comments[c].issue \in comments[c].under

TalkInv ==
  /\ Rows
  /\ \A h \in Handlers : Knows(op[h], comments, told, runs, agents, names, renamed, spoiled, posted)
  /\ MentionsHeard

\* What the steps of others do to the comments there are.
Onward ==
  /\ \A c \in Comments : c <= posted /\ comments'[c] # NoComment => comments'[c] = comments[c]
  /\ told \subseteq told' /\ agents' \subseteq agents /\ spoiled \subseteq spoiled'
  /\ posted \in Nat /\ posted' \in Nat /\ posted <= posted'
  /\ renamed \subseteq renamed'
  /\ \A c \in Comments, a \in Agents : c <= posted /\ names'[a] # names[a] => <<c, a>> \in renamed'
  /\ \A c \in Comments, a \in agents' :
       comments'[c] # NoComment /\ <<comments[c].issue, c, a>> \in runs => <<comments[c].issue, c, a>> \in runs'

\* Whom a comment may have called it may have called later; new ones are renamed.
LEMMA CallStays ==
  ASSUME Onward, NEW c \in Comments, c <= posted, NEW u, NEW m
  PROVE  LET old == MayCall(c, u, m, names, renamed)
             new == MayCall(c, u, m, names', renamed') IN
         /\ old \subseteq new
         /\ \A a \in new : <<c, a>> \in renamed' \/ (a \in old /\ <<c, a>> \notin renamed)
BY DEF Onward, MayCall

LEMMA KnowsStays ==
  ASSUME TypeInv, Onward, NEW g \in Handlers,
         Knows(op[g], comments, told, runs, agents, names, renamed, spoiled, posted)
  PROVE  Knows(op[g], comments', told', runs', agents', names', renamed', spoiled', posted')
<1> DEFINE o == op[g]
<1> SUFFICES ASSUME o.pc \in Telling \union Calling
             PROVE  Knows(o, comments', told', runs', agents', names', renamed', spoiled', posted')
  BY DEF Knows
<1>1. o.comment \in Comments /\ o.comment <= posted /\ o.comment <= posted'
  <2>1. o.comment \in Comments /\ o.comment \in Nat
    BY DEF TypeInv, Shape, Comments
  <2> QED
    BY <2>1 DEF Knows, Onward
<1>2. CASE comments'[o.comment] = NoComment \/ o.comment \in spoiled'
  BY <1>1, <1>2 DEF Knows
<1>3. CASE comments'[o.comment] # NoComment /\ o.comment \notin spoiled'
  <2>1. comments'[o.comment] = comments[o.comment] /\ o.comment \notin spoiled
    BY <1>1, <1>3 DEF Onward
  <2>2. comments[o.comment].issue = o.issue
    BY <1>3, <2>1 DEF Knows
  <2>3. \A a \in agents' : <<o.issue, o.comment, a>> \in runs => <<o.issue, o.comment, a>> \in runs'
    BY <1>1, <1>3, <2>2 DEF Onward
  <2>4. LET old == MayCall(o.comment, o.author, o.mentions, names, renamed)
            new == MayCall(o.comment, o.author, o.mentions, names', renamed') IN
        /\ old \subseteq new
        /\ \A a \in new : <<o.comment, a>> \in renamed' \/ (a \in old /\ <<o.comment, a>> \notin renamed)
    BY <1>1, CallStays
  <2> QED
    BY <1>1, <2>1, <2>3, <2>4 DEF Knows, Onward
<1> QED
  BY <1>2, <1>3

\* A comment that is finished stays so.
LEMMA FineStays ==
  ASSUME Onward, NEW c \in Comments, c <= posted, comments'[c] # NoComment,
         Fine(c, comments, told, runs, agents, names, renamed)
  PROVE  Fine(c, comments', told', runs', agents', names', renamed')
<1>1. comments'[c] = comments[c]
  BY DEF Onward
<1>2. \A a \in agents' : <<comments[c].issue, c, a>> \in runs => <<comments[c].issue, c, a>> \in runs'
  BY DEF Onward
<1>3. LET old == MayCall(c, comments[c].author, comments[c].mentions, names, renamed)
          new == MayCall(c, comments[c].author, comments[c].mentions, names', renamed') IN
      /\ old \subseteq new
      /\ \A a \in new : <<c, a>> \in renamed' \/ (a \in old /\ <<c, a>> \notin renamed)
  BY CallStays
<1> QED
  BY <1>1, <1>2, <1>3 DEF Fine, Onward

\* Steps that leave the requests about comments alone.
LEMMA TalkStays ==
  ASSUME TypeInv, TalkInv, Rows', Onward, posted' = posted,
         \A h \in Handlers : op'[h] = op[h] \/ (op[h].pc \notin Telling \union Calling
                                               /\ op'[h].pc \notin Telling \union Calling
                                               /\ (op[h].comment = 0 \/ op[h].file # NoFile))
  PROVE  TalkInv'
<1>1. \A h \in Handlers : Knows(op'[h], comments', told', runs', agents', names', renamed', spoiled', posted')
  <2> SUFFICES ASSUME NEW h \in Handlers
               PROVE  Knows(op'[h], comments', told', runs', agents', names', renamed', spoiled', posted')
    OBVIOUS
  <2>1. CASE op'[h] = op[h]
    BY <2>1, KnowsStays DEF TalkInv
  <2>2. CASE op'[h].pc \notin Telling \union Calling
    BY <2>2 DEF Knows
  <2> QED
    BY <2>1, <2>2
<1>2. MentionsHeard'
  <2> SUFFICES ASSUME NEW c \in Comments \ spoiled', comments'[c] # NoComment, ~Busy(c)'
               PROVE  Fine(c, comments', told', runs', agents', names', renamed')
    BY DEF MentionsHeard, Fine, Hears, MayCall
  <2>1. c <= posted /\ c \notin spoiled /\ comments[c] # NoComment /\ c # 0
    <3>1. c <= posted /\ c \notin spoiled /\ c # 0
      BY DEF Rows, Onward, Comments
    <3> QED
      BY <3>1 DEF Onward
  <2>2. ~Busy(c)
    BY <2>1 DEF Busy
  <2>3. Fine(c, comments, told, runs, agents, names, renamed)
    BY <2>1, <2>2 DEF TalkInv, MentionsHeard, Fine, Hears, MayCall
  <2> QED
    BY <2>1, <2>3, FineStays
<1> QED
  BY <1>1, <1>2 DEF TalkInv

\* A step of a handler: it goes on with its comment, or is done with it.
LEMMA TalkStep ==
  ASSUME TypeInv, TalkInv, Rows', Onward, NEW h \in Handlers, NEW n, Move(h, n),
         Knows(n, comments', told', runs', agents', names', renamed', spoiled', posted'),
         \A c \in Comments : c > posted /\ comments'[c] # NoComment => n.comment = c /\ n.file = NoFile,
         \/ n.comment = op[h].comment /\ n.file = op[h].file
         \/ op[h].comment = 0 \/ op[h].file # NoFile
         \/ LET c == op[h].comment IN
            c \in Comments \ spoiled' /\ comments'[c] # NoComment =>
              Fine(c, comments', told', runs', agents', names', renamed')
  PROVE  TalkInv'
<1>1. op'[h] = n /\ \A g \in Handlers \ {h} : op'[g] = op[g]
  BY DEF Move, TypeInv, TypeOK
<1>2. \A g \in Handlers : Knows(op'[g], comments', told', runs', agents', names', renamed', spoiled', posted')
  BY <1>1, KnowsStays DEF TalkInv
<1>3. MentionsHeard'
  <2> SUFFICES ASSUME NEW c \in Comments \ spoiled', comments'[c] # NoComment, ~Busy(c)'
               PROVE  Fine(c, comments', told', runs', agents', names', renamed')
    BY DEF MentionsHeard, Fine, Hears, MayCall
  <2>1. c <= posted /\ c \notin spoiled /\ c # 0 /\ ~(n.comment = c /\ n.file = NoFile)
    <3>1. ~(n.comment = c /\ n.file = NoFile)
      BY <1>1 DEF Busy
    <3>2. c \in Nat /\ c # 0 /\ posted \in Nat
      BY DEF Comments, Onward
    <3> QED
      BY <3>1, <3>2 DEF Onward
  <2>2. CASE Busy(c)
    <3>1. op[h].comment = c /\ op[h].file = NoFile
      BY <1>1, <2>2 DEF Busy
    <3> QED
      BY <2>1, <3>1
  <2>3. CASE ~Busy(c)
    <3>1. Fine(c, comments, told, runs, agents, names, renamed)
      BY <2>1, <2>3 DEF TalkInv, MentionsHeard, Fine, Hears, MayCall, Onward
    <3> QED
      BY <2>1, <3>1, FineStays
  <2> QED
    BY <2>2, <2>3
<1> QED
  BY <1>2, <1>3 DEF TalkInv

\* Steps that add notices, runs and failures at most.
LEMMA Grows ==
  ASSUME TypeInv, TalkInv, UNCHANGED <<issues, roster, comments, posted>>, told \subseteq told',
         runs \subseteq runs', spoiled \subseteq spoiled'
  PROVE  Rows' /\ Onward
<1>1. posted \in Nat
  BY BoundsAssumption DEF TypeInv, TypeOK
<1> QED
  BY <1>1 DEF TalkInv, Rows, Onward, Exists, roster

LEMMA NotifyCommentTalk ==
  ASSUME TypeInv, TalkInv, NEW h \in Handlers, NotifyComment(h)
  PROVE  TalkInv'
<1> DEFINE o == op[h]
           left == ({o.assignee} \union subscribers[o.issue]) \ {o.author, NoUser}
<1>1. PICK n \in Ops : Shape(n) /\ Move(h, n) /\ o.pc = "subscribers" /\ Enters(n, o, "tell", left)
  BY NotifyCommentDoes
<1>2. Rows' /\ Onward /\ UNCHANGED <<comments, told, runs, roster, spoiled, posted>>
  BY Grows DEF NotifyComment, people, roster, talk
<1>3. o.assignee \in Hears(o.author, o.mentions) => o.assignee \in left
  BY PeopleAssumption DEF Hears, People
<1>4. Same(n, o) /\ ((n.pc = "tell" /\ n.left = left) \/ (n.pc = "directory" /\ left = {}))
  BY <1>1 DEF Enters
<1> HIDE DEF left
<1>5. Knows(o, comments, told, runs, agents, names, renamed, spoiled, posted)
  BY DEF TalkInv
<1>6. Knows(n, comments, told, runs, agents, names, renamed, spoiled, posted)
  BY <1>1, <1>3, <1>4, <1>5 DEF Knows, Same, Telling, Calling
<1>7. \A c \in Comments : c > posted => comments'[c] = NoComment
  BY <1>2 DEF TalkInv, Rows, Onward, Comments
<1> QED
  BY <1>1, <1>2, <1>4, <1>6, <1>7, TalkStep DEF Same, roster

LEMMA NotifyMentionsTalk ==
  ASSUME TypeInv, TalkInv, NEW h \in Handlers, NotifyMentions(h)
  PROVE  TalkInv'
<1> DEFINE o == op[h]
           left == Called(o.mentions) \ {o.author, o.assignee}
<1>1. PICK n \in Ops : Shape(n) /\ Move(h, n) /\ o.pc = "directory" /\ Enters(n, o, "mention", left)
  BY NotifyMentionsDoes
<1>2. Rows' /\ Onward /\ UNCHANGED <<comments, told, runs, roster, spoiled, posted>>
  BY Grows DEF NotifyMentions, people, roster, talk
<1>3. \A u \in Hears(o.author, o.mentions) : u \in left \/ u = o.assignee
  BY DEF Hears, Called, People
<1>4. Same(n, o) /\ ((n.pc = "mention" /\ n.left = left) \/ (n.pc = "agents" /\ left = {}))
  BY <1>1 DEF Enters
<1> HIDE DEF left
<1>5. Knows(o, comments, told, runs, agents, names, renamed, spoiled, posted)
  BY DEF TalkInv
<1>6. Knows(n, comments, told, runs, agents, names, renamed, spoiled, posted)
  BY <1>1, <1>3, <1>4, <1>5 DEF Knows, Same, Telling, Calling
<1>7. \A c \in Comments : c > posted => comments'[c] = NoComment
  BY <1>2 DEF TalkInv, Rows, Onward, Comments
<1> QED
  BY <1>1, <1>2, <1>4, <1>6, <1>7, TalkStep DEF Same, roster

LEMMA NotifyTalk ==
  ASSUME TypeInv, TalkInv, NEW h \in Handlers, NEW u \in People, Notify(h, u)
  PROVE  TalkInv'
<1> DEFINE o == op[h]
           left == o.left \ {u}
<1>1. PICK n \in Ops : /\ Shape(n) /\ Move(h, n) /\ o.pc \in {"tell", "mention"} /\ u \in o.left
                      /\ Enters(n, o, o.pc, left)
  BY NotifyDoes
<1>2. Rows' /\ Onward /\ UNCHANGED <<comments, runs, roster, spoiled, posted>>
  BY Grows DEF Notify, people, roster
<1>3. o.comment \in Comments
  BY <1>1 DEF TypeInv, Shape, Telling
<1>4. Same(n, o)
      /\ \/ n.pc = o.pc /\ n.left = left
         \/ left = {} /\ o.pc = "tell" /\ n.pc = "directory"
         \/ left = {} /\ o.pc = "mention" /\ n.pc = "agents"
  BY <1>1 DEF Enters
<1>5. \A v \in o.left : v \in left \/ v = u
  OBVIOUS
<1> HIDE DEF left
<1>6. Knows(o, comments', told', runs', agents', names', renamed', spoiled', posted')
  BY <1>2, KnowsStays DEF TalkInv
<1>7. comments[o.comment] # NoComment /\ o.comment \notin spoiled => <<o.comment, u>> \in told'
  <2>1. ASSUME comments[o.comment] # NoComment, o.comment \notin spoiled
        PROVE  <<o.comment, u>> \in told'
    <3>1. comments[o.comment].issue = o.issue
      BY <1>1, <2>1 DEF TalkInv, Knows, Telling
    <3>2. Exists(o.issue)
      BY <1>3, <2>1, <3>1 DEF TalkInv, Rows
    <3> QED
      BY <3>2 DEF Notify
  <2> QED
    BY <2>1
<1>8. Knows(n, comments', told', runs', agents', names', renamed', spoiled', posted')
  <2> DEFINE heard == Hears(o.author, o.mentions)
  <2>1. n.comment = o.comment /\ o.comment <= posted'
    BY <1>1, <1>4, <1>6 DEF Same, Knows, Telling
  <2>2. CASE comments'[o.comment] = NoComment \/ o.comment \in spoiled'
    BY <2>1, <2>2 DEF Knows
  <2>3. CASE comments'[o.comment] # NoComment /\ o.comment \notin spoiled'
    <3>1. <<o.comment, u>> \in told'
      BY <1>2, <1>7, <2>3
    <3>2. /\ comments'[o.comment].issue = o.issue /\ comments'[o.comment].author = o.author
          /\ comments'[o.comment].mentions = o.mentions
          /\ o.pc = "tell" /\ o.assignee \in heard => <<o.comment, o.assignee>> \in told' \/ o.assignee \in o.left
          /\ o.pc = "mention" /\ o.assignee \in heard => <<o.comment, o.assignee>> \in told'
          /\ o.pc = "mention" => \A v \in heard : <<o.comment, v>> \in told' \/ v \in o.left
      BY <1>1, <1>6, <2>3 DEF Knows, Telling
    <3>3. CASE o.pc = "tell"
      BY <1>4, <1>5, <2>1, <3>1, <3>2, <3>3 DEF Knows, Same, Calling
    <3>4. CASE o.pc = "mention"
      BY <1>4, <1>5, <2>1, <3>1, <3>2, <3>4 DEF Knows, Same, Calling
    <3> QED
      BY <1>1, <3>3, <3>4
  <2> QED
    BY <2>2, <2>3
<1>9. \A c \in Comments : c > posted => comments'[c] = NoComment
  BY <1>2 DEF TalkInv, Rows, Onward, Comments
<1> QED
  BY <1>1, <1>2, <1>4, <1>8, <1>9, TalkStep DEF Same

LEMMA OnCommentTalk ==
  ASSUME TypeInv, TalkInv, NEW h \in Handlers, OnComment(h)
  PROVE  TalkInv'
<1> DEFINE o == op[h]
           left == {a \in agents : names[a] \in o.mentions} \ {o.author}
           called == MayCall(o.comment, o.author, o.mentions, names, renamed)
<1>1. PICK n \in Ops : Shape(n) /\ Move(h, n) /\ o.pc = "agents" /\ Enters(n, o, "enqueue", left)
  BY OnCommentDoes
<1>2. Rows' /\ Onward /\ UNCHANGED <<comments, told, runs, roster, spoiled, posted>>
  BY Grows DEF OnComment, people, roster, talk
<1>3. /\ left \subseteq called
      /\ called \subseteq agents => \A a \in called : <<o.comment, a>> \in renamed \/ a \in left
  BY DEF MayCall, TypeInv, TypeOK
<1>4. Knows(o, comments, told, runs, agents, names, renamed, spoiled, posted)
  BY DEF TalkInv
<1>5. \A c \in Comments : c > posted => comments'[c] = NoComment
  BY <1>2 DEF TalkInv, Rows, Onward, Comments
<1>6. CASE Same(n, o) /\ n.pc = "enqueue" /\ n.left = left
  <2> HIDE DEF left
  <2>1. Knows(n, comments, told, runs, agents, names, renamed, spoiled, posted)
    BY <1>1, <1>3, <1>4, <1>6 DEF Knows, Same, Telling, Calling
  <2> QED
    BY <1>1, <1>2, <1>5, <1>6, <2>1, TalkStep DEF Same, roster
<1>7. CASE left = {} /\ n = Idle
  <2>1. Knows(n, comments, told, runs, agents, names, renamed, spoiled, posted)
    BY <1>7 DEF Knows, Idle, Telling, Calling
  <2>2. ASSUME o.comment \in Comments \ spoiled, comments[o.comment] # NoComment
        PROVE  Fine(o.comment, comments, told, runs, agents, names, renamed)
    <3>1. /\ comments[o.comment].author = o.author /\ comments[o.comment].mentions = o.mentions
          /\ o.author \in Humans => \A u \in Hears(o.author, o.mentions) : <<o.comment, u>> \in told
      BY <1>1, <1>4, <2>2 DEF Knows, Calling
    <3> QED
      BY <1>3, <1>7, <3>1 DEF Fine
  <2> QED
    BY <1>1, <1>2, <1>5, <2>1, <2>2, TalkStep DEF roster
<1> QED
  BY <1>1, <1>6, <1>7 DEF Enters

LEMMA EnqueueTalk ==
  ASSUME TypeInv, TalkInv, NEW h \in Handlers, NEW a \in Agents, Enqueue(h, a)
  PROVE  TalkInv'
<1> DEFINE o == op[h]
           left == o.left \ {a}
           c == o.comment
           called == MayCall(c, o.author, o.mentions, names', renamed')
<1>1. PICK n \in Ops : /\ Shape(n) /\ Move(h, n) /\ o.pc = "enqueue" /\ a \in o.left
                      /\ \/ Exists(o.issue) /\ a \in agents /\ Enters(n, o, "enqueue", left)
                         \/ ~(Exists(o.issue) /\ a \in agents) /\ n = Idle
  BY EnqueueDoes
<1>2. Rows' /\ Onward /\ UNCHANGED <<comments, told, roster, spoiled, posted>>
  BY Grows DEF Enqueue, people, roster
<1>3. c \in Comments
  BY <1>1 DEF TypeInv, Shape, Calling
<1>4. \A d \in Comments : d > posted => comments'[d] = NoComment
  BY <1>2 DEF TalkInv, Rows, Onward, Comments
<1>5. Knows(o, comments', told', runs', agents', names', renamed', spoiled', posted')
  BY <1>2, KnowsStays DEF TalkInv
<1>6. c <= posted' /\
      (comments'[c] # NoComment /\ c \notin spoiled' =>
         /\ comments'[c].issue = o.issue /\ comments'[c].author = o.author
         /\ comments'[c].mentions = o.mentions
         /\ o.author \in Humans => \A u \in Hears(o.author, o.mentions) : <<c, u>> \in told'
         /\ o.left \subseteq called
         /\ called \subseteq agents' =>
              \A b \in called : <<c, b>> \in renamed' \/ <<o.issue, c, b>> \in runs' \/ b \in o.left)
  BY <1>1, <1>5 DEF Knows, Calling
<1>7. CASE Exists(o.issue) /\ a \in agents /\ Enters(n, o, "enqueue", left)
  <2>1. <<o.issue, c, a>> \in runs'
    BY <1>7 DEF Enqueue
  <2>2. left \subseteq o.left /\ \A b \in o.left : b \in left \/ b = a
    OBVIOUS
  <2>3. CASE Same(n, o) /\ n.pc = "enqueue" /\ n.left = left
    <3> HIDE DEF left
    <3>1. Knows(n, comments', told', runs', agents', names', renamed', spoiled', posted')
      BY <1>6, <2>1, <2>2, <2>3 DEF Knows, Same, Calling
    <3> QED
      BY <1>1, <1>2, <1>4, <2>3, <3>1, TalkStep DEF Same
  <2>4. CASE left = {} /\ n = Idle
    <3> HIDE DEF left
    <3>1. Knows(n, comments', told', runs', agents', names', renamed', spoiled', posted')
      BY <2>4 DEF Knows, Idle, Telling, Calling
    <3>2. ASSUME c \in Comments \ spoiled', comments'[c] # NoComment
          PROVE  Fine(c, comments', told', runs', agents', names', renamed')
      BY <1>6, <2>1, <2>2, <2>4, <3>2 DEF Fine
    <3> QED
      BY <1>1, <1>2, <1>4, <3>1, <3>2, TalkStep
  <2> QED
    BY <1>7, <2>3, <2>4 DEF Enters
<1>8. CASE ~(Exists(o.issue) /\ a \in agents) /\ n = Idle
  <2>1. Knows(n, comments', told', runs', agents', names', renamed', spoiled', posted')
    BY <1>8 DEF Knows, Idle, Telling, Calling
  <2>2. ASSUME c \in Comments \ spoiled', comments'[c] # NoComment
        PROVE  Fine(c, comments', told', runs', agents', names', renamed')
    <3>1. Exists(o.issue)
      <4>1. comments[c] # NoComment /\ comments[c].issue = o.issue
        BY <1>2, <1>6, <2>2
      <4> QED
        BY <1>3, <4>1 DEF TalkInv, Rows
    <3>2. a \in called /\ a \notin agents'
      BY <1>1, <1>2, <1>6, <1>8, <2>2, <3>1 DEF roster
    <3> QED
      BY <1>6, <2>2, <3>2 DEF Fine
  <2> QED
    BY <1>1, <1>2, <1>4, <2>1, <2>2, TalkStep
<1> QED
  BY <1>1, <1>7, <1>8

LEMMA SkipTalk ==
  ASSUME TypeInv, TalkInv, NEW h \in Handlers, Skip(h)
  PROVE  TalkInv'
<1>1. PICK n \in Ops : /\ Shape(n) /\ Move(h, n) /\ op[h].pc \in Telling
                      /\ Same(n, op[h]) /\ n.pc \in Telling \union Calling
  BY SkipDoes
<1>2. Rows' /\ Onward /\ UNCHANGED <<comments, told, runs, roster, posted>>
      /\ spoiled' = spoiled \union {op[h].comment}
  BY Grows DEF Skip, people, roster, talk
<1>3. Knows(n, comments', told', runs', agents', names', renamed', spoiled', posted')
  <2>1. op[h].comment <= posted
    BY <1>1 DEF TalkInv, Knows
  <2> QED
    BY <1>1, <1>2, <2>1 DEF Knows, Same
<1>4. \A c \in Comments : c > posted => comments'[c] = NoComment
  BY <1>2 DEF TalkInv, Rows, Onward, Comments
<1> QED
  BY <1>1, <1>2, <1>3, <1>4, TalkStep DEF Same

LEMMA CreateCommentTalk ==
  ASSUME TypeInv, TalkInv, NEW h \in Handlers, CreateComment(h)
  PROVE  TalkInv'
<1> DEFINE o == op[h]
           k == posted + 1
           under == {o.issue} \union (IF o.parent = 0 THEN {} ELSE comments[o.parent].under)
           row == [issue |-> o.issue, parent |-> o.parent, author |-> o.author, mentions |-> o.mentions,
                   under |-> under]
           n == [o EXCEPT !.comment = k, !.pc = IF o.author \in Humans THEN "subscribers" ELSE "agents"]
<1>1. /\ o \in Ops /\ o.pc = "insert" /\ o.issue \in Issues /\ o.author \in People /\ o.file = NoFile
      /\ o.comment = 0 /\ posted \in Nat /\ k \in Comments /\ posted' = k /\ Exists(o.issue)
  BY BoundsAssumption DEF CreateComment, At, TypeInv, TypeOK, Comments, Shape
<1>2. /\ n.comment = k /\ n.issue = o.issue /\ n.author = o.author /\ n.file = NoFile
      /\ n.mentions = o.mentions
      /\ n.pc = IF o.author \in Humans THEN "subscribers" ELSE "agents"
  BY <1>1 DEF Ops
<1>3. Move(h, n) /\ comments' = [comments EXCEPT ![k] = row]
      /\ UNCHANGED <<people, told, runs, roster, spoiled>>
  BY DEF CreateComment, people
<1>4. o.issue \in under /\ row.issue = o.issue /\ row.author = o.author /\ row.mentions = o.mentions
      /\ row.under = under /\ row # NoComment
  <2>1. row.issue # NoComment.issue
    BY <1>1, NonesAssumption DEF NoComment
  <2> QED
    BY <2>1
<1> HIDE DEF n, row, under
<1>5. comments'[k] = row /\ \A c \in Comments \ {k} : comments'[c] = comments[c]
  BY <1>1, <1>3 DEF TypeInv, TypeOK
<1>6. Rows'
  <2> SUFFICES ASSUME NEW c \in Comments, comments'[c] # NoComment
               PROVE  c <= k /\ Exists(comments'[c].issue) /\ comments'[c].issue \in comments'[c].under
    BY <1>1, <1>3 DEF Rows, Exists, people, roster
  <2>1. CASE c = k
    BY <1>1, <1>4, <1>5, <2>1
  <2>2. CASE c # k
    <3>1. c <= posted /\ Exists(comments[c].issue) /\ comments[c].issue \in comments[c].under /\ c \in Nat
      BY <1>5, <2>2 DEF TalkInv, Rows, Comments
    <3> QED
      BY <1>1, <1>5, <2>2, <3>1
  <2> QED
    BY <2>1, <2>2
<1>7. Onward
  BY <1>1, <1>3, <1>5 DEF Onward, Comments, roster
<1>8. Knows(n, comments', told', runs', agents', names', renamed', spoiled', posted')
  <2>1. o.author \in Humans => n.pc = "subscribers"
    BY <1>2
  <2>2. o.author \notin Humans => n.pc = "agents"
    BY <1>2
  <2> QED
    BY <1>1, <1>2, <1>4, <1>5, <2>1, <2>2 DEF Knows, Telling, Calling
<1>9. \A c \in Comments : c > posted /\ comments'[c] # NoComment => n.comment = c /\ n.file = NoFile
  BY <1>1, <1>2, <1>5 DEF TalkInv, Rows, Comments
<1> QED
  BY <1>1, <1>3, <1>6, <1>7, <1>8, <1>9, TalkStep

\* Requests that begin or end, and uploads.
LEMMA OtherTalk ==
  ASSUME TypeInv, TalkInv, NEW h \in Handlers, NEW n, Move(h, n),
         UNCHANGED <<issues, roster, comments, told, runs, posted>>, spoiled \subseteq spoiled',
         n.pc \notin Telling \union Calling,
         op[h].comment = 0 \/ op[h].file # NoFile \/ op[h].comment \in spoiled'
  PROVE  TalkInv'
<1>1. Rows' /\ Onward
  BY Grows
<1>2. Knows(n, comments', told', runs', agents', names', renamed', spoiled', posted')
  BY DEF Knows
<1>3. \A c \in Comments : c > posted => comments'[c] = NoComment
  BY DEF TalkInv, Rows, Comments, TypeInv, TypeOK
<1> QED
  BY <1>1, <1>2, <1>3, TalkStep

LEMMA HandlerTalk ==
  ASSUME TypeInv, TypeInv', TalkInv, NEW h \in Handlers, Handle(h)
  PROVE  TalkInv'
<1>0. Idle.comment = 0 /\ Idle.pc = "idle"
  BY DEF Idle
<1>1. ASSUME NEW i, NEW p, NEW m, NEW u, AddComment(h, u, i, p, m) \/ PostComment(h, u, i, p, m)
      PROVE  TalkInv'
  <2>1. PICK n : Move(h, n) /\ n.pc = "insert"
    <3>1. [Idle EXCEPT !.pc = "insert", !.issue = i, !.assignee = issues[i].assignee,
                       !.parent = p, !.author = u, !.mentions = m].pc = "insert"
      BY DEF Idle
    <3>2. [Idle EXCEPT !.pc = "insert", !.issue = i, !.parent = p, !.author = u,
                       !.mentions = m].pc = "insert"
      BY DEF Idle
    <3>3. CASE AddComment(h, u, i, p, m)
      BY <3>1, <3>3 DEF AddComment
    <3>4. CASE PostComment(h, u, i, p, m)
      BY <3>2, <3>4 DEF PostComment
    <3> QED
      BY <1>1, <3>3, <3>4
  <2>2. op[h].comment = 0 /\ UNCHANGED <<issues, roster, comments, told, runs, posted, spoiled>>
    BY <1>0, <1>1 DEF AddComment, PostComment, people, roster, talk
  <2> QED
    BY <2>1, <2>2, OtherTalk DEF Telling, Calling
<1>2. ASSUME NEW i, NEW c, NEW f, AddAttachment(h, i, c, f)
      PROVE  TalkInv'
  <2>1. [Idle EXCEPT !.pc = "file", !.issue = i, !.comment = c, !.file = f].pc = "file"
    BY DEF Idle
  <2>2. PICK n : Move(h, n) /\ n.pc = "file"
    BY <1>2, <2>1 DEF AddAttachment
  <2>3. op[h].comment = 0 /\ UNCHANGED <<issues, roster, comments, told, runs, posted, spoiled>>
    BY <1>0, <1>2 DEF AddAttachment, people, roster, talk
  <2> QED
    BY <2>2, <2>3, OtherTalk DEF Telling, Calling
<1>3. CASE WriteLimited(h) \/ CreateAttachment(h) \/ FailRow(h) \/ LoseAnswer(h) \/ RemoveFile(h)
  <2>1. op[h].pc \in Uploading /\ UNCHANGED <<issues, roster, comments, told, runs, posted>>
        /\ spoiled \subseteq spoiled'
    BY <1>3 DEF WriteLimited, CreateAttachment, FailRow, LoseAnswer, RemoveFile, At, Uploading,
       people, roster, talk
  <2>2. op[h].file # NoFile
    BY <2>1, NonesAssumption DEF TypeInv, Shape
  <2>3. PICK n : Move(h, n) /\ n.pc \notin Telling \union Calling
    <3>1. \A pc \in Uploading : [op[h] EXCEPT !.pc = pc].pc = pc
      BY <2>1, UploadOK
    <3> QED
      BY <1>0, <1>3, <3>1 DEF WriteLimited, CreateAttachment, FailRow, LoseAnswer, RemoveFile,
         Uploading,
         Telling, Calling
  <2> QED
    BY <2>1, <2>2, <2>3, OtherTalk
<1>4. CASE Crash(h) \/ CommentRefused(h)
  <2>1. Move(h, Idle) /\ UNCHANGED <<issues, roster, comments, told, runs, posted>>
        /\ spoiled \subseteq spoiled'
    BY <1>4 DEF Crash, CommentRefused, people, roster, talk
  <2>2. op[h].comment = 0 \/ op[h].file # NoFile \/ op[h].comment \in spoiled'
    BY <1>4 DEF Crash, CommentRefused, At, TypeInv, Shape
  <2> QED
    BY <1>0, <2>1, <2>2, OtherTalk DEF Telling, Calling
<1> QED
  BY <1>1, <1>2, <1>3, <1>4, CreateCommentTalk, NotifyCommentTalk, NotifyMentionsTalk, NotifyTalk,
     OnCommentTalk, EnqueueTalk, SkipTalk DEF Handle

LEMMA RequestTalk ==
  ASSUME TypeInv, TalkInv, Request
  PROVE  TalkInv'
<1>0. posted \in Nat
  BY BoundsAssumption DEF TypeInv, TypeOK
<1>1. ASSUME UNCHANGED <<issues, roster, talk, op, spoiled>>
      PROVE  TalkInv'
  <2>1. Rows' /\ Onward
    BY <1>1, Grows DEF talk
  <2> QED
    BY <1>1, <2>1, TalkStays DEF talk
<1>2. ASSUME NEW i \in Issues, (\E new \in Issue : UpdateIssue(i, new)) \/ TimePasses(i)
      PROVE  TalkInv'
  <2>1. UNCHANGED <<roster, talk, op, spoiled>>
    BY <1>2 DEF UpdateIssue, TimePasses
  <2>2. \A j : Exists(j) => Exists(j)'
    <3>1. CASE \E new \in Issue : UpdateIssue(i, new)
      BY <3>1 DEF UpdateIssue, Exists, TypeInv, TypeOK
    <3>2. CASE TimePasses(i)
      BY <3>2 DEF TimePasses, Exists, TypeInv, TypeOK, Issue
    <3> QED
      BY <1>2, <3>1, <3>2
  <2>3. Rows' /\ Onward
    BY <1>0, <2>1, <2>2 DEF TalkInv, Rows, Onward, roster, talk
  <2> QED
    BY <2>1, <2>3, TalkStays DEF talk
<1>3. ASSUME NEW i \in Issues, DeleteIssue(i)
      PROVE  TalkInv'
  <2>1. /\ UNCHANGED <<roster, told, posted, op, spoiled>> /\ runs' = {r \in runs : r[1] # i}
        /\ \A c \in Comments : comments'[c] = IF i \in comments[c].under THEN NoComment ELSE comments[c]
    BY <1>3 DEF DeleteIssue
  <2>2. \A j \in Issues \ {i} : Exists(j) => Exists(j)'
    BY <1>3 DEF DeleteIssue, Exists, TypeInv, TypeOK
  <2>3. \A c \in Comments : comments'[c] # NoComment =>
          comments'[c] = comments[c] /\ comments[c].issue \in Issues \ {i}
    BY <2>1 DEF TalkInv, Rows, Exists
  <2>4. Rows'
    BY <2>1, <2>2, <2>3 DEF TalkInv, Rows
  <2>5. Onward
    BY <1>0, <2>1, <2>3 DEF Onward, roster
  <2> QED
    BY <2>1, <2>4, <2>5, TalkStays
<1>4. ASSUME NEW a \in Agents, DropAgent(a)
      PROVE  TalkInv'
  <2>1. /\ UNCHANGED <<issues, names, renamed, comments, told, posted, op, spoiled>> /\ runs' = {r \in runs : r[3] # a}
        /\ agents' = agents \ {a}
    BY <1>4 DEF DropAgent
  <2>2. Rows'
    BY <2>1 DEF TalkInv, Rows, Exists
  <2>3. Onward
    BY <1>0, <2>1 DEF Onward
  <2> QED
    BY <2>1, <2>2, <2>3, TalkStays
<1>5. ASSUME NEW a \in Agents, NEW n \in Names, UpdateAgent(a, n)
      PROVE  TalkInv'
  <2>1. /\ UNCHANGED <<issues, agents, talk, op, spoiled>>
        /\ names' = [names EXCEPT ![a] = n] /\ renamed' = renamed \union ((1 .. posted) \X {a})
    BY <1>5 DEF UpdateAgent
  <2>2. Rows'
    BY <2>1 DEF TalkInv, Rows, Exists, talk
  <2>3. \A c \in Comments, b \in Agents : c <= posted /\ names'[b] # names[b] => <<c, b>> \in renamed'
    BY <1>0, <2>1 DEF TypeInv, TypeOK, Comments
  <2>4. Onward
    BY <1>0, <2>1, <2>3 DEF Onward, talk
  <2> QED
    BY <2>1, <2>2, <2>4, TalkStays DEF talk
<1> QED
  BY <1>1, <1>2, <1>3, <1>4, <1>5 DEF Request, people, roster, SetMetadata, DeleteMetadata,
     AddSubscriber,
     RemoveSubscriber, MarkRead

LEMMA TalkNext ==
  ASSUME TypeInv, TypeInv', TalkInv, [Next]_vars
  PROVE  TalkInv'
<1>1. ASSUME UNCHANGED <<people, talk, op, spoiled>>
      PROVE  TalkInv'
  <2>1. Rows' /\ Onward
    BY <1>1, Grows DEF people, roster, talk
  <2> QED
    BY <1>1, <2>1, TalkStays DEF people, roster, talk
<1> QED
  BY <1>1, HandlerTalk, RequestTalk, ScannerLeaves DEF Next, vars

------------------------------------------------------------------------------
(* The theorems.                                                           *)

LEMMA InitInvs ==
  ASSUME Init
  PROVE  DueInv /\ StorageInv /\ TalkInv
<1>1. Idle.pc = "idle" /\ Idle.file = NoFile /\ Resting.pc = "idle"
  BY DEF Idle, Resting
<1>2. DueInv
  BY <1>1 DEF Init, DueInv, Lookups, DueToldOnce
<1>3. StorageInv
  BY <1>1, NonesAssumption DEF Init, StorageInv, Holds, StorageAccounted
<1>4. TalkInv
  BY <1>1 DEF Init, TalkInv, Rows, Knows, MentionsHeard, Telling, Calling
<1> QED
  BY <1>2, <1>3, <1>4

\* The rows, the requests and the scans in progress are well formed; in
\* particular every entry of the metadata has a value of its type.
THEOREM DiscussionTypes == Spec => []TypeInv
<1>1. Init => TypeInv
  BY InitTypes
<1>2. TypeInv /\ [Next]_vars => TypeInv'
  BY NextTypes
<1> QED
  BY <1>1, <1>2, PTL DEF Spec

\* Rows, requests and scans keep their shape.
THEOREM DiscussionTypeCorrect == Spec => []TypeOK
<1>1. TypeInv => TypeOK
  BY DEF TypeInv
<1> QED
  BY <1>1, DiscussionTypes, PTL

\* No server gives the same due notice twice.
THEOREM DueNoticesOnce == Spec => []DueToldOnce
<1>1. Init => DueInv
  BY InitInvs
<1>2. TypeInv /\ DueInv /\ [Next]_vars => DueInv'
  BY DueStep
<1>3. DueInv => DueToldOnce
  BY DEF DueInv
<1> QED
  BY <1>1, <1>2, <1>3, DiscussionTypes, PTL DEF Spec

\* Attachments and files match, except after a crash or a lost answer.
THEOREM FilesMatch == Spec => []StorageAccounted
<1>1. Init => StorageInv
  BY InitInvs
<1>2. TypeInv /\ TypeInv' /\ StorageInv /\ [Next]_vars => StorageInv'
  BY StorageNext
<1>3. StorageInv => StorageAccounted
  BY DEF StorageInv
<1> QED
  BY <1>1, <1>2, <1>3, DiscussionTypes, PTL DEF Spec

\* Whoever a comment mentions hears of it, a person by a notice and an agent by a
\* run, unless a failure cut it short, the agent has another name since, or an
\* agent it may have called was deleted.
THEOREM MentionsAreHeard == Spec => []MentionsHeard
<1>1. Init => TalkInv
  BY InitInvs
<1>2. TypeInv /\ TypeInv' /\ TalkInv /\ [Next]_vars => TalkInv'
  BY TalkNext
<1>3. TalkInv => MentionsHeard
  BY DEF TalkInv
<1> QED
  BY <1>1, <1>2, <1>3, DiscussionTypes, PTL DEF Spec
==============================================================================
