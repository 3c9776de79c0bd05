------------------------ MODULE PostReactions_proofs -------------------------
(***************************************************************************)
(* For any number of users and requests: the model keeps its types,        *)
(* nothing but reposts and comments created too late outlives the post,    *)
(* threads are whole, what is deleted leaves no trace, and no counter      *)
(* falls short of what it counts.                                          *)
(***************************************************************************)
EXTENDS PostReactions, FiniteSetTheorems, TLAPS

Collections ==
    /\ post \in {"visible", "deleting", "gone"}
    /\ docs \in SUBSET Subjects /\ late \in SUBSET Subjects
    /\ count \in [Kinds -> Int]
    /\ parent \in [Comments -> SUBSET Comments] /\ author \in [Comments -> Users]
    /\ replies \in [Comments -> Int]
    /\ notes \in [Subjects -> Nat]
    /\ logs \in SUBSET Comments
    /\ score \in [Users -> Int]
    /\ twice \in [Requests -> SUBSET Comments] /\ taken \in [Users -> Nat]

\* A request that creates or deletes a comment is about a comment, and only requests that
\* look for the post have one to find.
AboutComment(q) ==
    /\ q.op \in {"comment", "uncomment"} => q.of \in Comments
    /\ q.op = "repost" => Kind(q.of) # "like"
    /\ q.pc \in {"find", "replies"} => q.op = "uncomment"
    /\ q.pc = "target" => q.op \in {"like", "unlike", "repost", "comment"}
    /\ \A t \in q.tasks : t.what = "log" => t.of \in Comments

GoodRequest == {q \in Request : AboutComment(q)}

ReqsOK == req \in [Requests -> GoodRequest]
JobOK == job \in Job

Types == Collections /\ ReqsOK /\ JobOK

LEMMA TypesAreOK == Types => TypeOK
  BY DEF Types, TypeOK, Collections, ReqsOK, JobOK, GoodRequest

----------------------------------------------------------------------------
(* Subjects.                                                               *)

LEMMA CommentSubjects ==
  /\ Top \in Comments /\ Reply \in Comments /\ Top # Reply
  /\ \A r \in Requests : <<"comment", r>> \in Comments
  /\ Comments \subseteq Subjects /\ Reactions \subseteq Subjects
  BY DEF Top, Reply, Comments, Subjects

LEMMA KindType == \A s \in Subjects : Kind(s) \in Kinds
  BY DEF Kind, Kinds, Subjects, Reactions, Comments, Top, Reply

LEMMA CommentKind == \A s \in Subjects : s \in Comments <=> Kind(s) = "comment"
  <1> TAKE s \in Subjects
  <1>1. CASE s \in Comments
    <2>1. Kind(s) = "comment"
      BY <1>1 DEF Kind, Comments, Top, Reply
    <2> QED
      BY <1>1, <2>1
  <1>2. CASE s \notin Comments
    <2>1. s \in Reactions
      BY <1>2 DEF Subjects
    <2>2. Kind(s) \in {"like", "repost"}
      BY <2>1 DEF Kind, Reactions
    <2> QED
      BY <1>2, <2>2
  <1> QED
    BY <1>1, <1>2

LEMMA FiniteComments == IsFiniteSet(Comments)
  <1>1. IsFiniteSet({Top, Reply})
    <2>1. IsFiniteSet({Top} \union {Reply})
      BY FS_Singleton, FS_Union
    <2>2. {Top, Reply} = {Top} \union {Reply}
      OBVIOUS
    <2> QED
      BY <2>1, <2>2
  <1>2. IsFiniteSet({"comment"} \X Requests)
    BY FS_Singleton, FS_Product, RequestsAssumption
  <1> QED
    BY <1>1, <1>2, FS_Union DEF Comments

LEMMA CountOfComments == \A S \in SUBSET Comments : Cardinality(S) \in Nat
  BY FiniteComments, FS_Subset, FS_CardinalityType

LEMMA NoRequestType == \A pc \in Pc \ {"target", "find", "replies"} : NoRequest(pc) \in GoodRequest
  BY CommentSubjects DEF NoRequest, Request, Op, GoodRequest, AboutComment

LEMMA NoJobType == \A pc \in {"none", "queued", "traces", "documents", "post"} : NoJob(pc) \in Job
  BY DEF NoJob, Job

Whats == {"count", "note", "log", "score", "reply",
          "delete", "uncount", "unreply", "unlog", "unscore", "unnote"}

LEMMA TasksType ==
  ASSUME NEW what \in SUBSET Whats, NEW subjects \in SUBSET Subjects
  PROVE  Tasks(what, subjects) \in SUBSET Task
  BY DEF Tasks, Task, Whats

----------------------------------------------------------------------------
(* How a step changes the requests.                                        *)

LEMMA UpdateOK ==
  ASSUME ReqsOK, NEW r \in Requests, NEW x \in GoodRequest, req' = [req EXCEPT ![r] = x]
  PROVE  ReqsOK'
  BY DEF ReqsOK

LEMMA GotoType ==
  ASSUME ReqsOK, NEW r \in Requests, NEW pc \in Pc, Goto(r, pc),
         pc \in {"find", "replies"} => req[r].op = "uncomment", pc # "target"
  PROVE  ReqsOK'
  <1>1. req[r] \in GoodRequest
    BY DEF ReqsOK
  <1> DEFINE x == [req[r] EXCEPT !.pc = pc]
  <1>2. x \in GoodRequest
    BY <1>1 DEF GoodRequest, Request, AboutComment
  <1>3. req' = [req EXCEPT ![r] = x]
    BY DEF Goto
  <1> QED
    BY <1>2, <1>3, UpdateOK

LEMMA FinishType ==
  ASSUME ReqsOK, NEW r \in Requests, Finish(r)
  PROVE  ReqsOK'
  <1>1. NoRequest("done") \in GoodRequest
    BY NoRequestType DEF Pc
  <1> QED
    BY <1>1, UpdateOK DEF Finish

LEMMA LaunchType ==
  ASSUME ReqsOK, NEW r \in Requests, NEW ids \in SUBSET Comments, NEW tasks \in SUBSET Task, Launch(r, ids, tasks),
         \A t \in tasks : t.what = "log" => t.of \in Comments
  PROVE  ReqsOK'
  <1>1. req[r] \in GoodRequest /\ "tasks" \in Pc
    BY DEF ReqsOK, Pc
  <1> DEFINE x == [req[r] EXCEPT !.pc = "tasks", !.ids = ids, !.tasks = tasks]
  <1>2. x \in GoodRequest
    BY <1>1 DEF GoodRequest, Request, AboutComment
  <1>3. req' = [req EXCEPT ![r] = x]
    BY DEF Launch, ReqsOK
  <1> QED
    BY <1>2, <1>3, UpdateOK

LEMMA ResumeType ==
  ASSUME ReqsOK, NEW r \in Requests, NEW tasks \in SUBSET Task, Resume(r, tasks),
         \A t \in tasks : t.what = "log" => t.of \in Comments
  PROVE  ReqsOK'
  <1>1. NoRequest("done") \in GoodRequest
    BY NoRequestType DEF Pc
  <1>2. req[r] \in GoodRequest
    BY DEF ReqsOK
  <1>3. [req[r] EXCEPT !.tasks = tasks] \in GoodRequest
    BY <1>2 DEF GoodRequest, Request, AboutComment
  <1> QED
    BY <1>1, <1>3, UpdateOK DEF Resume

LEMMA JobGoesOnType ==
  ASSUME NEW next \in Job, JobGoesOn(next)
  PROVE  JobOK'
  BY NoJobType DEF JobGoesOn, JobOK

LEMMA AddType ==
  ASSUME Collections, NEW kind \in Kinds, NEW n \in Int
  PROVE  Add(kind, n) \in [Kinds -> Int] /\ Subtract(kind, n) \in [Kinds -> Int]
  BY DEF Collections, Add, Subtract

LEMMA LeaveType ==
  ASSUME Collections, NEW s \in Subjects, NEW doomed, Leave(s, doomed)
  PROVE  late' \in SUBSET Subjects
  BY DEF Collections, Leave

LEMMA AdjustType ==
  ASSUME NEW D, NEW f \in [D -> Int], NEW x, NEW n, x \in D => n \in Int
  PROVE  [f EXCEPT ![x] = n] \in [D -> Int]
  OBVIOUS

LEMMA InitType == Init => Types
  <1> SUFFICES ASSUME Init PROVE Types
    OBVIOUS
  <1>1. PICK fans \in SUBSET Users, said \in {{}, {Top, Reply}} :
           /\ docs = ({"like", "repost"} \X fans) \union said
           /\ count = [k \in Kinds |-> IF k = "comment" THEN Cardinality(said) ELSE Cardinality(fans)]
           /\ replies = [c \in Comments |-> IF c = Top /\ Reply \in said THEN 1 ELSE 0]
           /\ logs = said
           /\ \E u \in Users :
                 /\ author = [c \in Comments |-> u]
                 /\ score = [v \in Users |-> IF v = u THEN Cardinality(said) ELSE 0]
    BY DEF Init
  <1>2. Cardinality(said) \in Nat
    BY CommentSubjects, CountOfComments
  <1>3. Cardinality(fans) \in Nat
    BY UsersAssumption, FS_Subset, FS_CardinalityType
  <1>4. count \in [Kinds -> Int]
    BY <1>1, <1>2, <1>3
  <1>5. docs \in SUBSET Subjects /\ logs \in SUBSET Comments
    BY <1>1, CommentSubjects DEF Reactions
  <1>6. PICK u \in Users : /\ author = [c \in Comments |-> u]
                           /\ score = [v \in Users |-> IF v = u THEN Cardinality(said) ELSE 0]
    BY <1>1
  <1>7. author \in [Comments -> Users] /\ score \in [Users -> Int] /\ replies \in [Comments -> Int]
    BY <1>1, <1>2, <1>6
  <1>8. parent \in [Comments -> SUBSET Comments] /\ notes \in [Subjects -> Nat]
    BY CommentSubjects DEF Init
  <1>9. twice \in [Requests -> SUBSET Comments] /\ taken \in [Users -> Nat] /\ late \in SUBSET Subjects
    BY DEF Init
  <1>10. ReqsOK /\ JobOK
    BY NoRequestType, NoJobType DEF Init, ReqsOK, JobOK, Pc
  <1>11. Collections
    BY <1>4, <1>5, <1>7, <1>8, <1>9 DEF Collections, Init
  <1> QED
    BY <1>10, <1>11 DEF Types

----------------------------------------------------------------------------
(* Type correctness of the steps of a request.                             *)

LEMMA QuietType ==
  ASSUME Types, UNCHANGED <<post_, docs, count, thread, notes, contributions, late, twice>>
  PROVE  Collections' /\ JobOK'
  BY DEF Types, Collections, JobOK, post_, thread, contributions

LEMMA ReqType ==
  ASSUME Types, NEW r \in Requests
  PROVE  /\ req[r] \in GoodRequest
         /\ req[r].op \in Op /\ req[r].of \in Subjects /\ req[r].to \in SUBSET Comments
         /\ req[r].ids \in SUBSET Comments /\ req[r].tasks \in SUBSET Task /\ req[r].pc \in Pc
         /\ ReqsOK
  BY DEF Types, ReqsOK, GoodRequest, Request

LEMMA EntryType ==
  /\ \A op \in Op : Entry[op] \in Pc
  /\ Entry["comment"] = "target" /\ Entry["uncomment"] = "find"
  /\ \A op \in {"like", "unlike", "repost"} : Entry[op] = "target"
  /\ Entry["unrepost"] = "drop"
  BY DEF Op, Entry, Pc

LEMMA ReactType ==
  ASSUME Types, NEW r \in Requests, NEW op \in Op, NEW s \in Reactions, React(r, op, s)
  PROVE  Types'
  <1>1. /\ req[r] \in GoodRequest /\ Entry[op] \in Pc /\ s \in Subjects
        /\ op \in {"like", "unlike", "repost", "unrepost"} 
        /\ Entry[op] \in {"target", "drop"} /\ (op = "unrepost" => Entry[op] = "drop")
    BY EntryType, CommentSubjects, ReqType DEF React
  <1>b. op = "repost" => Kind(s) # "like"
    BY DEF React
  <1> DEFINE x == [req[r] EXCEPT !.op = op, !.of = s, !.pc = Entry[op]]
  <1>2. x \in Request
    BY <1>1 DEF Request, GoodRequest
  <1>3. AboutComment(x)
    BY <1>1, <1>b DEF AboutComment, GoodRequest, Request
  <1>4. req' = [req EXCEPT ![r] = x]
    BY ReqType DEF React, ReqsOK
  <1>5. ReqsOK'
    BY <1>2, <1>3, <1>4, UpdateOK, ReqType DEF GoodRequest
  <1> QED
    BY <1>5, QuietType DEF React, Types

LEMMA UnsayType ==
  ASSUME Types, NEW r \in Requests, NEW c \in Comments, Unsay(r, c)
  PROVE  Types'
  <1>1. /\ req[r] \in GoodRequest /\ Entry["uncomment"] \in Pc /\ c \in Subjects /\ Entry["uncomment"] = "find"
        /\ "uncomment" \in Op
    BY EntryType, CommentSubjects, ReqType DEF Op
  <1> DEFINE x == [req[r] EXCEPT !.op = "uncomment", !.of = c, !.pc = Entry["uncomment"]]
  <1>2. x \in Request
    BY <1>1 DEF Request, GoodRequest
  <1>3. AboutComment(x)
    BY <1>1 DEF AboutComment, GoodRequest, Request
  <1>4. req' = [req EXCEPT ![r] = x]
    BY ReqType DEF Unsay, ReqsOK
  <1>5. ReqsOK'
    BY <1>2, <1>3, <1>4, UpdateOK, ReqType DEF GoodRequest
  <1> QED
    BY <1>5, QuietType DEF Unsay, Types

LEMMA SayType ==
  ASSUME Types, NEW r \in Requests, NEW u \in Users, NEW to \in SUBSET Comments, Say(r, u, to)
  PROVE  Types'
  <1>1. /\ <<"comment", r>> \in Comments /\ <<"comment", r>> \in Subjects /\ "comment" \in Op
        /\ req[r] \in GoodRequest /\ Entry["comment"] = "target" /\ "target" \in Pc
    BY CommentSubjects, ReqType, EntryType DEF Op, Pc
  <1> DEFINE x == [req[r] EXCEPT !.op = "comment", !.of = <<"comment", r>>, !.to = to, !.pc = Entry["comment"]]
  <1>2. x \in Request
    BY <1>1 DEF Request, GoodRequest
  <1>3. AboutComment(x)
    BY <1>1 DEF AboutComment, GoodRequest, Request
  <1>4. req' = [req EXCEPT ![r] = x]
    BY ReqType DEF Say, ReqsOK
  <1>5. ReqsOK'
    BY <1>2, <1>3, <1>4, UpdateOK, ReqType DEF GoodRequest
  <1>6. author' \in [Comments -> Users]
    BY DEF Say, Collections, Types
  <1>7. Collections' /\ JobOK'
    BY <1>6 DEF Say, Collections, JobOK, post_, contributions, Types
  <1> QED
    BY <1>5, <1>7 DEF Types

LEMMA DeleteTasksType ==
  ASSUME NEW c \in Comments, NEW ids \in SUBSET Comments
  PROVE  DeleteTasks(c, ids) \in SUBSET Task /\ \A t \in DeleteTasks(c, ids) : t.what # "log"
  <1>1. c \in Subjects /\ ids \in SUBSET Subjects
    BY CommentSubjects
  <1>2. Tasks({"delete", "uncount", "unnote"}, {c}) \in SUBSET Task
    BY <1>1, TasksType DEF Whats
  <1>3. Tasks({"unlog"}, ids) \in SUBSET Task
    BY <1>1, TasksType DEF Whats
  <1>4. \A t \in DeleteTasks(c, ids) : t.what # "log"
    BY DEF DeleteTasks, Tasks
  <1> QED
    BY <1>2, <1>3, <1>4 DEF DeleteTasks

\* Steps that read and go on.
Reads(r) == \/ Refuse(r) \/ FindTarget(r) \/ FindRepost(r) \/ FindTargetAgain(r)
            \/ FindParent(r) \/ FindComment(r) \/ FindReplies(r)

LEMMA ReadsType ==
  ASSUME Types, NEW r \in Requests, Reads(r)
  PROVE  Types'
  <1> USE ReqType
  <1>1. UNCHANGED <<post_, docs, count, thread, notes, contributions, late, twice>>
    BY DEF Reads, Refuse, FindTarget, FindRepost, FindTargetAgain, FindParent, FindComment, FindReplies
  <1>2. ReqsOK'
    <2>1. CASE Refuse(r)
      BY <2>1, FinishType DEF Refuse
    <2>2. CASE FindTarget(r)
      <3> DEFINE pc == IF req[r].to # {} THEN "parent" ELSE Found[req[r].op]
      <3>1. req[r].op \in {"like", "unlike", "repost", "comment"} => pc \in {"parent", "create", "drop", "exists"}
        BY DEF Found
      <3>2. CASE req[r].op \in {"like", "unlike", "repost", "comment"}
        <4>1. pc \in Pc /\ pc \notin {"find", "replies", "target"}
          BY <3>1, <3>2 DEF Pc
        <4> QED
          BY <2>2, <4>1, GotoType DEF FindTarget
      <3>3. req[r].op \in {"like", "unlike", "repost", "comment"}
        BY <2>2 DEF FindTarget, At, GoodRequest, AboutComment
      <3> QED
        BY <3>2, <3>3
    <2>3. CASE FindRepost(r)
      BY <2>3, FinishType, GotoType DEF FindRepost, Pc
    <2>4. CASE FindTargetAgain(r)
      BY <2>4, FinishType, GotoType DEF FindTargetAgain, Pc
    <2>5. CASE FindParent(r)
      BY <2>5, GotoType DEF FindParent, Pc
    <2>6. CASE FindComment(r)
      <3>1. req[r].of \in Comments /\ req[r].op = "uncomment"
        BY <2>6 DEF FindComment, At, GoodRequest, AboutComment
      <3>2. parent[req[r].of] \in SUBSET Comments
        BY <3>1 DEF Types, Collections
      <3> DEFINE tasks == DeleteTasks(req[r].of, {req[r].of}) \union Tasks({"unreply"}, parent[req[r].of])
      <3>3. Tasks({"unreply"}, parent[req[r].of]) \in SUBSET Task
        BY <3>2, CommentSubjects, TasksType DEF Whats
      <3>4. tasks \in SUBSET Task
        BY <3>1, <3>3, DeleteTasksType
      <3>5. \A t \in tasks : t.what # "log"
        BY <3>1, DeleteTasksType DEF Tasks
      <3> QED
        BY <2>6, <3>1, <3>4, <3>5, FinishType, GotoType, LaunchType DEF FindComment, Pc
    <2>7. CASE FindReplies(r)
      <3>1. req[r].of \in Comments /\ req[r].op = "uncomment"
        BY <2>7 DEF FindReplies, At, GoodRequest, AboutComment
      <3>2. CommentsToDelete(req[r].of) \in SUBSET Comments
        BY <3>1 DEF CommentsToDelete
      <3> QED
        BY <2>7, <3>1, <3>2, DeleteTasksType, LaunchType DEF FindReplies
    <2> QED
      BY <2>1, <2>2, <2>3, <2>4, <2>5, <2>6, <2>7 DEF Reads
  <1> QED
    BY <1>1, <1>2, QuietType DEF Types

\* Steps that write outside a Promise.all.
Writes(r) == \/ CreateReaction(r) \/ CountReaction(r) \/ UndoLike(r) \/ SendNote(r) \/ DropReaction(r)
             \/ UncountRepost(r) \/ RemoveNote(r) \/ CreateComment(r)

LEMMA WritesType ==
  ASSUME Types, NEW r \in Requests, Writes(r)
  PROVE  Types'
  <1> USE ReqType
  <1>0. Collections /\ req[r].of \in Subjects
    BY DEF Types
  <1>1. CASE CreateReaction(r)
    <2>1. late' \in SUBSET Subjects
      BY <1>0, <1>1, LeaveType DEF CreateReaction, Collections
    <2>2. Collections' /\ JobOK'
      BY <1>1, <2>1 DEF CreateReaction, Types, Collections, JobOK, post_, thread, contributions
    <2>3. ReqsOK'
      BY <1>1, FinishType, GotoType DEF CreateReaction, Pc
    <2> QED
      BY <2>2, <2>3 DEF Types
  <1>2. CASE CountReaction(r)
    <2>1. count' \in [Kinds -> Int]
      BY <1>0, <1>2, KindType, AddType DEF CountReaction
    <2>2. Collections' /\ JobOK'
      BY <1>2, <2>1 DEF CountReaction, Types, Collections, JobOK, post_, thread, contributions
    <2>3. AfterCount(r) \in Pc /\ AfterCount(r) \notin {"find", "replies", "target"}
      BY DEF AfterCount, Pc
    <2>4. ReqsOK'
      BY <1>2, <2>3, GotoType DEF CountReaction
    <2> QED
      BY <2>2, <2>4 DEF Types
  <1>3. CASE UndoLike(r)
    <2>1. Collections' /\ JobOK'
      BY <1>3 DEF UndoLike, Types, Collections, JobOK, post_, thread, contributions
    <2> QED
      BY <1>3, <2>1, FinishType DEF UndoLike, Types
  <1>4. CASE SendNote(r)
    <2>1. late' \in SUBSET Subjects /\ notes' \in [Subjects -> Nat]
      BY <1>0, <1>4, LeaveType DEF SendNote, Collections
    <2>2. Collections' /\ JobOK'
      BY <1>4, <2>1 DEF SendNote, Types, Collections, JobOK, post_, thread, contributions
    <2> QED
      BY <1>4, <2>2, FinishType DEF SendNote, Types
  <1>5. CASE DropReaction(r)
    <2>1. Collections' /\ JobOK'
      BY <1>5 DEF DropReaction, Types, Collections, JobOK, post_, thread, contributions
    <2>2. Tasks({"uncount", "unnote"}, {req[r].of}) \in SUBSET Task
      BY TasksType DEF Whats
    <2>3. \A t \in Tasks({"uncount", "unnote"}, {req[r].of}) : t.what # "log"
      BY DEF Tasks
    <2>4. ReqsOK'
      BY <1>5, <2>2, <2>3, FinishType, GotoType, LaunchType DEF DropReaction, Pc
    <2> QED
      BY <2>1, <2>4 DEF Types
  <1>6. CASE UncountRepost(r)
    <2>1. count' \in [Kinds -> Int]
      BY <1>0, <1>6, AddType DEF UncountRepost, Kinds
    <2>2. Collections' /\ JobOK'
      BY <1>6, <2>1 DEF UncountRepost, Types, Collections, JobOK, post_, thread, contributions
    <2> QED
      BY <1>6, <2>2, GotoType DEF UncountRepost, Types, Pc
  <1>7. CASE RemoveNote(r)
    <2>1. notes' \in [Subjects -> Nat]
      BY <1>0, <1>7 DEF RemoveNote, Collections, TakeOne
    <2>2. Collections' /\ JobOK'
      BY <1>7, <2>1 DEF RemoveNote, Types, Collections, JobOK, post_, thread, contributions
    <2> QED
      BY <1>7, <2>2, FinishType DEF RemoveNote, Types
  <1>8. CASE CreateComment(r)
    <2>1. late' \in SUBSET Subjects
      BY <1>0, <1>8, LeaveType DEF CreateComment
    <2>2. parent' \in [Comments -> SUBSET Comments]
      BY <1>0, <1>8 DEF CreateComment, Collections
    <2>3. Collections' /\ JobOK'
      BY <1>8, <2>1, <2>2 DEF CreateComment, Types, Collections, JobOK, post_, contributions
    <2>4. req[r].of \in Comments
      BY <1>8 DEF CreateComment, GoodRequest, AboutComment
    <2>5. ASSUME NEW tasks \in CommentTasks(r)
          PROVE  tasks \in SUBSET Task /\ \A t \in tasks : t.what = "log" => t.of \in Comments
      <3>1. PICK extra \in {{}, {"log", "score"}} :
                tasks = Tasks({"count", "note"} \union extra, {req[r].of}) \union Tasks({"reply"}, req[r].to)
        BY <2>5 DEF CommentTasks
      <3>2. Tasks({"count", "note"} \union extra, {req[r].of}) \in SUBSET Task
        BY TasksType DEF Whats
      <3>3. Tasks({"reply"}, req[r].to) \in SUBSET Task
        BY TasksType, CommentSubjects DEF Whats
      <3>4. \A t \in tasks : t.what = "log" => t.of \in Comments
        BY <2>4, <3>1 DEF Tasks
      <3> QED
        BY <3>1, <3>2, <3>3, <3>4
    <2>6. PICK tasks \in CommentTasks(r) : Launch(r, {}, tasks)
      BY <1>8 DEF CreateComment
    <2>7. ReqsOK'
      BY <2>5, <2>6, LaunchType
    <2> QED
      BY <2>3, <2>7 DEF Types
  <1> QED
    BY <1>1, <1>2, <1>3, <1>4, <1>5, <1>6, <1>7, <1>8 DEF Writes

----------------------------------------------------------------------------
(* Type correctness of the branches of a Promise.all and of the job.       *)

LEMMA TaskType ==
  ASSUME Types, NEW r \in Requests, DoTask(r)
  PROVE  Types'
  <1> USE ReqType
  <1>0. PICK t \in req[r].tasks :
          \/ CountTask(r, t) \/ ReplyTask(r, t) \/ NoteTask(r, t) \/ LogTask(r, t) \/ ScoreTask(r, t)
          \/ DeleteTask(r, t) \/ UnlogTask(r, t) \/ UnnoteTask(r, t)
    BY DEF DoTask
  <1>1. Collections /\ t \in Task /\ t.of \in Subjects
    BY DEF Types, Task
  <1>2. JobOK'
    BY DEF DoTask, post_, JobOK, Types
  <1>3. post' = post
    BY DEF DoTask, post_
  <1>4. Rest(r, t) \in SUBSET Task /\ \A q \in Rest(r, t) : q.what = "log" => q.of \in Comments
    BY DEF Rest, GoodRequest, AboutComment
  <1>5. Resume(r, Rest(r, t)) => ReqsOK'
    BY <1>4, ResumeType
  <1>6. CASE CountTask(r, t)
    <2>1. Kind(t.of) \in Kinds /\ Cardinality(req[r].ids) \in Int
      BY <1>1, KindType, CountOfComments
    <2>2. count' \in [Kinds -> Int]
      BY <1>1, <1>6, <2>1, AddType, SMTT(30) DEF CountTask
    <2>3. Collections'
      BY <1>1, <1>3, <1>6, <2>2 DEF CountTask, Collections, thread, contributions
    <2> QED
      BY <1>2, <1>5, <1>6, <2>3 DEF CountTask, Types
  <1>7. CASE ReplyTask(r, t)
    <2> DEFINE n == IF t.of \notin docs THEN replies[t.of]
                    ELSE IF t.what = "reply" THEN replies[t.of] + 1
                    ELSE IF Subtractable(t.of) THEN replies[t.of] - 1 ELSE replies[t.of]
    <2>0. replies \in [Comments -> Int] /\ replies' = [replies EXCEPT ![t.of] = n]
      BY <1>1, <1>7 DEF ReplyTask, Collections
    <2>a. t.of \in Comments => n \in Int
      BY <2>0
    <2> HIDE DEF n
    <2>1. replies' \in [Comments -> Int]
      BY <2>0, <2>a, AdjustType
    <2>2. Collections'
      BY <1>1, <1>3, <1>7, <2>1 DEF ReplyTask, Collections, contributions
    <2> QED
      BY <1>2, <1>5, <1>7, <2>2 DEF ReplyTask, Types
  <1>8. CASE NoteTask(r, t)
    <2>1. late' \in SUBSET Subjects /\ notes' \in [Subjects -> Nat]
      BY <1>1, <1>8, LeaveType DEF NoteTask, Collections
    <2>2. Collections'
      BY <1>1, <1>3, <1>8, <2>1 DEF NoteTask, Collections, thread, contributions
    <2> QED
      BY <1>2, <1>5, <1>8, <2>2 DEF NoteTask, Types
  <1>9. CASE LogTask(r, t)
    <2>1. late' \in SUBSET Subjects /\ t.of \in Comments
      BY <1>1, <1>9, LeaveType DEF LogTask, GoodRequest, AboutComment
    <2>2. Collections'
      BY <1>1, <1>3, <1>9, <2>1 DEF LogTask, Collections, thread
    <2> QED
      BY <1>2, <1>5, <1>9, <2>2 DEF LogTask, Types
  <1>10. CASE ScoreTask(r, t)
    <2> DEFINE u == author[t.of]
               n == IF t.what = "score" THEN score[u] + 1 ELSE score[u] - 1
    <2>0. score \in [Users -> Int] /\ score' = [score EXCEPT ![u] = n]
      BY <1>1, <1>10 DEF ScoreTask, Collections
    <2>a. u \in Users => n \in Int
      BY <2>0
    <2> HIDE DEF u, n
    <2>1. score' \in [Users -> Int]
      BY <2>0, <2>a, AdjustType
    <2>2. Collections'
      BY <1>1, <1>3, <1>10, <2>1 DEF ScoreTask, Collections, thread
    <2> QED
      BY <1>2, <1>5, <1>10, <2>2 DEF ScoreTask, Types
  <1>11. CASE DeleteTask(r, t)
    <2>1. twice' \in [Requests -> SUBSET Comments]
      BY <1>1, <1>11 DEF DeleteTask, Collections
    <2>2. Collections'
      BY <1>1, <1>3, <1>11, <2>1 DEF DeleteTask, Collections, thread, contributions
    <2> QED
      BY <1>2, <1>5, <1>11, <2>2 DEF DeleteTask, Types
  <1>12. CASE UnlogTask(r, t)
    <2>1. Tasks({"unscore"}, {t.of}) \in SUBSET Task /\ \A q \in Tasks({"unscore"}, {t.of}) : q.what # "log"
      BY <1>1, TasksType, ZenonT(40) DEF Whats, Tasks
    <2> DEFINE tasks == Rest(r, t) \union (IF Logged(t.of) THEN Tasks({"unscore"}, {t.of}) ELSE {})
    <2>2. tasks \in SUBSET Task /\ \A q \in tasks : q.what = "log" => q.of \in Comments
      BY <1>4, <2>1
    <2>3. ReqsOK'
      BY <1>12, <2>2, ResumeType DEF UnlogTask
    <2>4. Collections'
      BY <1>1, <1>3, <1>12 DEF UnlogTask, Collections, thread
    <2> QED
      BY <1>2, <2>3, <2>4 DEF Types
  <1>13. CASE UnnoteTask(r, t)
    <2>0. notes \in [Subjects -> Nat] /\ t.of \in Subjects
      BY <1>1 DEF Collections
    <2>1. notes' \in [Subjects -> Nat]
      <3>1. CASE notes' = [s \in Subjects |-> IF s \in req[r].ids THEN 0 ELSE notes[s]]
        BY <2>0, <3>1
      <3>2. CASE notes' = [notes EXCEPT ![t.of] = TakeOne(@)]
        <4>1. TakeOne(notes[t.of]) \in Nat
          BY <2>0 DEF TakeOne
        <4> QED
          BY <2>0, <3>2, <4>1
      <3> QED
        BY <1>13, <3>1, <3>2 DEF UnnoteTask
    <2>2. Collections'
      BY <1>1, <1>3, <1>13, <2>1 DEF UnnoteTask, Collections, thread, contributions
    <2> QED
      BY <1>2, <1>5, <1>13, <2>2 DEF UnnoteTask, Types
  <1> QED
    BY <1>0, <1>6, <1>7, <1>8, <1>9, <1>10, <1>11, <1>12, <1>13

\* Steps of the deletion.
Deletion == MarkDeleting \/ JobStep

LEMMA DeletionType ==
  ASSUME Types, Deletion
  PROVE  Types'
  <1>0. Collections /\ job \in Job /\ ReqsOK /\ req' = req
    BY DEF Types, JobOK, Deletion, MarkDeleting, JobStep, JobRead, JobFindLogs, JobDeleteLogs, JobRemoveNotes,
           JobRemovePost, JobUncount, JobDelete
  <1>1. ReqsOK'
    BY <1>0 DEF ReqsOK
  <1>2. CASE MarkDeleting
    <2>1. JobOK'
      BY <1>2, NoJobType DEF MarkDeleting, JobOK
    <2>2. Collections'
      BY <1>0, <1>2 DEF MarkDeleting, Collections, thread, contributions
    <2> QED
      BY <1>1, <2>1, <2>2 DEF Types
  <1>3. CASE JobRead
    <2>1. [NoJob("traces") EXCEPT !.ids = docs \intersect Comments, !.tasks = {"find logs", "notes"}] \in Job
      BY NoJobType DEF Job
    <2>2. JobOK'
      BY <1>3, <2>1 DEF JobRead, JobOK
    <2>3. Collections'
      BY <1>0, <1>3 DEF JobRead, Collections, thread, contributions
    <2> QED
      BY <1>1, <2>2, <2>3 DEF Types
  <1>4. CASE JobFindLogs
    <2> DEFINE found == logs \intersect job.ids
               next == [job EXCEPT !.found = found,
                                   !.tasks = (job.tasks \ {"find logs"}) \union (IF found = {} THEN {} ELSE {"delete logs"})]
    <2>1. next \in Job
      BY <1>0 DEF Job
    <2>2. JobOK'
      BY <1>4, <2>1, JobGoesOnType DEF JobFindLogs
    <2>3. Collections'
      BY <1>0, <1>4 DEF JobFindLogs, Collections, thread, contributions
    <2> QED
      BY <1>1, <2>2, <2>3 DEF Types
  <1>5. CASE JobDeleteLogs
    <2> DEFINE next == [job EXCEPT !.tasks = job.tasks \ {"delete logs"}, !.users = {u \in Users : FoundOf(u) # {}}]
    <2>1. next \in Job
      BY <1>0 DEF Job
    <2>2. JobOK'
      BY <1>5, <2>1, JobGoesOnType DEF JobDeleteLogs
    <2>3. \A u \in Users : Cardinality(FoundOf(u) \ logs) \in Nat
      <3>1. \A u \in Users : FoundOf(u) \ logs \in SUBSET Comments
        BY <1>0 DEF FoundOf, Job
      <3> QED
        BY <3>1, CountOfComments
    <2>4. taken' \in [Users -> Nat] /\ logs' \in SUBSET Comments
      <3>1. taken \in [Users -> Nat] /\ logs \in SUBSET Comments
        BY <1>0 DEF Collections
      <3>2. taken' = [u \in Users |-> taken[u] + Cardinality(FoundOf(u) \ logs)] /\ logs' = logs \ job.found
        BY <1>5 DEF JobDeleteLogs
      <3>3. \A u \in Users : taken[u] + Cardinality(FoundOf(u) \ logs) \in Nat
        BY <2>3, <3>1
      <3> QED
        BY <3>1, <3>2, <3>3
    <2>5. Collections'
      BY <1>0, <1>5, <2>4 DEF JobDeleteLogs, Collections, thread
    <2> QED
      BY <1>1, <2>2, <2>5 DEF Types
  <1>6. CASE \E u \in Users : JobUncount(u)
    <2>1. PICK u \in Users : JobUncount(u)
      BY <1>6
    <2>2. [job EXCEPT !.users = job.users \ {u}] \in Job
      BY <1>0 DEF Job
    <2>3. JobOK'
      BY <2>1, <2>2, JobGoesOnType DEF JobUncount
    <2>4. Cardinality(FoundOf(u)) \in Nat
      <3>1. FoundOf(u) \in SUBSET Comments
        BY <1>0 DEF FoundOf, Job
      <3> QED
        BY <3>1, CountOfComments
    <2>5. score' \in [Users -> Int]
      BY <1>0, <2>1, <2>4 DEF JobUncount, Collections, CounterReset
    <2>6. Collections'
      BY <1>0, <2>1, <2>5 DEF JobUncount, Collections, thread
    <2> QED
      BY <1>1, <2>3, <2>6 DEF Types
  <1>7. CASE JobRemoveNotes
    <2>1. [job EXCEPT !.tasks = job.tasks \ {"notes"}] \in Job
      BY <1>0 DEF Job
    <2>2. JobOK'
      BY <1>7, <2>1, JobGoesOnType DEF JobRemoveNotes
    <2>3. notes' \in [Subjects -> Nat]
      BY <1>0, <1>7 DEF JobRemoveNotes, Collections
    <2>4. Collections'
      BY <1>0, <1>7, <2>3 DEF JobRemoveNotes, Collections, thread, contributions
    <2> QED
      BY <1>1, <2>2, <2>4 DEF Types
  <1>8. CASE JobDelete
    <2>1. JobOK'
      BY <1>8, NoJobType DEF JobDelete, JobOK
    <2>2. Collections'
      BY <1>0, <1>8 DEF JobDelete, Collections, thread, contributions
    <2> QED
      BY <1>1, <2>1, <2>2 DEF Types
  <1>9. CASE JobRemovePost
    <2>1. JobOK'
      BY <1>9, NoJobType DEF JobRemovePost, JobOK
    <2>2. Collections'
      BY <1>0, <1>9 DEF JobRemovePost, Collections, thread, contributions
    <2> QED
      BY <1>1, <2>1, <2>2 DEF Types
  <1> QED
    BY <1>2, <1>3, <1>4, <1>5, <1>6, <1>7, <1>8, <1>9 DEF Deletion, JobStep

LEMMA NextType == Types /\ [Next]_vars => Types'
  <1> SUFFICES ASSUME Types, [Next]_vars PROVE Types'
    OBVIOUS
  <1>1. CASE \E r \in Requests, op \in Op, s \in Reactions : React(r, op, s)
    BY <1>1, ReactType
  <1>2. CASE \E r \in Requests, u \in Users, to \in {{}} \union {{c} : c \in docs \intersect Comments} : Say(r, u, to)
    BY <1>2, SayType
  <1>3. CASE \E r \in Requests, c \in docs \intersect Comments : Unsay(r, c)
    BY <1>3, UnsayType
  <1>4. CASE \E r \in Requests : Step(r)
    BY <1>4, ReadsType, WritesType, TaskType DEF Step, Reads, Writes
  <1>5. CASE Deletion
    BY <1>5, DeletionType
  <1>6. CASE UNCHANGED vars
    <2>1. Collections' /\ JobOK' /\ ReqsOK'
      BY <1>6 DEF vars, Types, Collections, ReqsOK, JobOK, post_, thread, contributions
    <2> QED
      BY <2>1 DEF Types
  <1> QED
    BY <1>1, <1>2, <1>3, <1>4, <1>5, <1>6 DEF Next, Deletion

LEMMA AlwaysTypes == Spec => []Types
  BY InitType, NextType, PTL DEF Spec

\* The documents, counters, traces, requests and the job keep their types, for any number
\* of users and requests.
THEOREM TypeCorrect == Spec => []TypeOK
  BY AlwaysTypes, TypesAreOK, PTL

----------------------------------------------------------------------------
(* Nothing outlives the post.                                              *)

Likes == {"like"} \X Users

\* The job has deleted the documents.
Emptied == job.pc = "post" \/ post = "gone"

\* likePost is about to find that there is no post to count this like on.
TakenBack(s) == \E r \in Requests : req[r].op = "like" /\ req[r].of = s /\ req[r].pc \in {"count", "undo"}

\* A post with a job is being deleted; without one there is nothing to do.
JobFits == IF job.pc = "none" THEN job.tasks = {} /\ job.users = {} ELSE post = "deleting"

\* Whatever is there once the documents were deleted was created afterwards, and a like
\* among it has its request still under way.
GoneInv ==
    /\ JobFits
    /\ Emptied => \A s \in docs : s \in late /\ (s \in Likes => TakenBack(s))

LEMMA OthersKept ==
  ASSUME ReqsOK, NEW r \in Requests, NEW q \in Requests, q # r
  PROVE  /\ \A pc : Goto(r, pc) => req'[q] = req[q]
         /\ Finish(r) => req'[q] = req[q]
         /\ \A ids, tasks : Launch(r, ids, tasks) => req'[q] = req[q]
         /\ \A tasks : Resume(r, tasks) => req'[q] = req[q]
  <1>1. \A pc : Goto(r, pc) => req'[q] = req[q]
    BY DEF ReqsOK, Goto
  <1>2. Finish(r) => req'[q] = req[q]
    BY DEF ReqsOK, Finish
  <1>3. \A ids, tasks : Launch(r, ids, tasks) => req'[q] = req[q]
    BY DEF ReqsOK, Launch
  <1>4. \A tasks : Resume(r, tasks) => req'[q] = req[q]
    BY DEF ReqsOK, Resume
  <1> QED
    BY <1>1, <1>2, <1>3, <1>4

\* A step of a request that neither creates a document nor takes a like back.
LEMMA Frame ==
  ASSUME GoneInv, UNCHANGED post_, docs' \subseteq docs, late \subseteq late',
         NEW r \in Requests, req[r].pc \notin {"count", "undo"},
         \A q \in Requests \ {r} : req'[q] = req[q]
  PROVE  GoneInv'
  <1>1. JobFits'
    BY DEF GoneInv, JobFits, post_
  <1>2. ASSUME Emptied', NEW s \in docs'
        PROVE  s \in late' /\ (s \in Likes => TakenBack(s)')
    <2>1. Emptied /\ s \in docs /\ s \in late'
      BY <1>2 DEF Emptied, post_, GoneInv
    <2>2. s \in Likes => TakenBack(s)'
      BY <2>1 DEF GoneInv, TakenBack
    <2> QED
      BY <2>1, <2>2
  <1> QED
    BY <1>1, <1>2 DEF GoneInv

LEMMA LeaveKeeps ==
  ASSUME NEW s, NEW doomed, Leave(s, doomed)
  PROVE  late \subseteq late'
  BY DEF Leave

LEMMA InitGone == Init => GoneInv
  BY DEF Init, GoneInv, JobFits, Emptied, NoJob

LEMMA SendGone ==
  ASSUME Types, GoneInv, NEW r \in Requests,
         \/ \E op \in Op, s \in Reactions : React(r, op, s)
         \/ \E u \in Users, to \in SUBSET Comments : Say(r, u, to)
         \/ \E c \in Comments : Unsay(r, c)
  PROVE  GoneInv'
  <1>1. At(r, "idle") /\ UNCHANGED <<post_, docs, late>>
    BY DEF React, Say, Unsay
  <1>2. \A q \in Requests \ {r} : req'[q] = req[q]
    BY DEF React, Say, Unsay, Types, ReqsOK
  <1> QED
    BY <1>1, <1>2, Frame DEF At

LEMMA ReadsGone ==
  ASSUME Types, GoneInv, NEW r \in Requests, Reads(r)
  PROVE  GoneInv'
  <1>1. UNCHANGED <<post_, docs, late>> /\ req[r].pc \notin {"count", "undo"}
    BY DEF Reads, Refuse, FindTarget, FindRepost, FindTargetAgain, FindParent, FindComment, FindReplies, At
  <1>2. \A q \in Requests \ {r} : req'[q] = req[q]
    BY OthersKept
       DEF Types, Reads, Refuse, FindTarget, FindRepost, FindTargetAgain, FindParent, FindComment, FindReplies
  <1> QED
    BY <1>1, <1>2, Frame

LEMMA TaskGone ==
  ASSUME Types, GoneInv, NEW r \in Requests, DoTask(r)
  PROVE  GoneInv'
  <1>0. PICK t \in req[r].tasks :
          \/ CountTask(r, t) \/ ReplyTask(r, t) \/ NoteTask(r, t) \/ LogTask(r, t) \/ ScoreTask(r, t)
          \/ DeleteTask(r, t) \/ UnlogTask(r, t) \/ UnnoteTask(r, t)
    BY DEF DoTask
  <1>1. UNCHANGED post_ /\ req[r].pc \notin {"count", "undo"}
    BY DEF DoTask, At
  <1>2. docs' \subseteq docs
    BY <1>0 DEF CountTask, ReplyTask, NoteTask, LogTask, ScoreTask, DeleteTask, UnlogTask, UnnoteTask
  <1>3. late \subseteq late'
    BY <1>0, LeaveKeeps DEF CountTask, ReplyTask, NoteTask, LogTask, ScoreTask, DeleteTask, UnlogTask, UnnoteTask
  <1>4. \E tasks : Resume(r, tasks)
    BY <1>0 DEF CountTask, ReplyTask, NoteTask, LogTask, ScoreTask, DeleteTask, UnlogTask, UnnoteTask
  <1>5. \A q \in Requests \ {r} : req'[q] = req[q]
    BY <1>4, OthersKept DEF Types
  <1> QED
    BY <1>1, <1>2, <1>3, <1>5, Frame

LEMMA WritesGone ==
  ASSUME Types, GoneInv, NEW r \in Requests, Writes(r)
  PROVE  GoneInv'
  <1> USE ReqType
  <1>0. UNCHANGED post_ /\ JobFits'
    BY DEF Writes, CreateReaction, CountReaction, UndoLike, SendNote, DropReaction, UncountRepost, RemoveNote,
           CreateComment, GoneInv, JobFits, post_
  <1>1. Emptied' => Emptied /\ ~Visible
    BY <1>0 DEF Emptied, Visible, GoneInv, JobFits, post_
  <1>2. CASE SendNote(r) \/ DropReaction(r) \/ UncountRepost(r) \/ RemoveNote(r)
    <2>1. req[r].pc \notin {"count", "undo"} /\ docs' \subseteq docs /\ late \subseteq late'
      BY <1>2, LeaveKeeps DEF SendNote, DropReaction, UncountRepost, RemoveNote, At
    <2>2. \A q \in Requests \ {r} : req'[q] = req[q]
      BY <1>2, OthersKept DEF SendNote, DropReaction, UncountRepost, RemoveNote
    <2> QED
      BY <1>0, <2>1, <2>2, Frame
  <1>3. CASE CreateReaction(r)
    <2>1. CASE req[r].of \in docs
      <3>1. req[r].pc \notin {"count", "undo"} /\ docs' \subseteq docs /\ late \subseteq late'
        BY <1>3, <2>1 DEF CreateReaction, At
      <3>2. \A q \in Requests \ {r} : req'[q] = req[q]
        BY <1>3, <2>1, OthersKept DEF CreateReaction
      <3> QED
        BY <1>0, <3>1, <3>2, Frame
    <2>2. CASE req[r].of \notin docs
      <3>1. Goto(r, "count") /\ Leave(req[r].of, ~Visible) /\ At(r, "create") /\ req[r].op \in {"like", "repost"}
        BY <1>3, <2>2 DEF CreateReaction
      <3>2. \A q \in Requests \ {r} : req'[q] = req[q]
        BY <3>1, OthersKept
      <3>3. req'[r].pc = "count" /\ req'[r].op = req[r].op /\ req'[r].of = req[r].of
        BY <3>1 DEF Goto, ReqsOK, GoodRequest, Request
      <3>4. ASSUME Emptied', NEW s \in docs'
            PROVE  s \in late' /\ (s \in Likes => TakenBack(s)')
        <4>1. CASE s = req[r].of
          <5>1. s \in late'
            BY <1>1, <3>1, <3>4, <4>1 DEF Leave
          <5>2. CASE req[r].op = "like"
            BY <3>3, <4>1, <5>1, <5>2 DEF TakenBack
          <5>3. CASE req[r].op = "repost"
            <6>1. s \notin Likes
              BY <4>1, <5>3 DEF GoodRequest, AboutComment, Likes, Kind
            <6> QED
              BY <5>1, <6>1
          <5> QED
            BY <3>1, <5>2, <5>3
        <4>2. CASE s # req[r].of
          <5>1. s \in docs /\ Emptied
            BY <1>1, <1>3, <3>4, <4>2 DEF CreateReaction
          <5>2. s \in late'
            BY <3>1, <5>1, LeaveKeeps DEF GoneInv
          <5>3. s \in Likes => TakenBack(s)'
            BY <3>1, <3>2, <5>1 DEF GoneInv, TakenBack, At
          <5> QED
            BY <5>2, <5>3
        <4> QED
          BY <4>1, <4>2
      <3> QED
        BY <1>0, <3>4 DEF GoneInv
    <2> QED
      BY <2>1, <2>2
  <1>4. CASE CountReaction(r)
    <2>1. Goto(r, AfterCount(r)) /\ At(r, "count") /\ UNCHANGED <<docs, late>>
      BY <1>4 DEF CountReaction
    <2>2. \A q \in Requests \ {r} : req'[q] = req[q]
      BY <2>1, OthersKept
    <2>3. req'[r].pc = AfterCount(r) /\ req'[r].op = req[r].op /\ req'[r].of = req[r].of
      BY <2>1 DEF Goto, ReqsOK, GoodRequest, Request
    <2>4. ASSUME Emptied', NEW s \in docs'
          PROVE  s \in late' /\ (s \in Likes => TakenBack(s)')
      <3>1. s \in docs /\ s \in late' /\ (s \in Likes => TakenBack(s)) /\ ~Visible
        BY <1>1, <2>1, <2>4 DEF GoneInv
      <3>2. s \in Likes => TakenBack(s)'
        BY <2>2, <2>3, <3>1 DEF TakenBack, AfterCount
      <3> QED
        BY <3>1, <3>2
    <2> QED
      BY <1>0, <2>4 DEF GoneInv
  <1>5. CASE UndoLike(r)
    <2>1. Finish(r) /\ docs' = docs \ {req[r].of} /\ late' = late
      BY <1>5 DEF UndoLike
    <2>2. \A q \in Requests \ {r} : req'[q] = req[q]
      BY <2>1, OthersKept
    <2>3. ASSUME Emptied', NEW s \in docs'
          PROVE  s \in late' /\ (s \in Likes => TakenBack(s)')
      <3>1. s \in docs /\ s # req[r].of /\ s \in late' /\ (s \in Likes => TakenBack(s))
        BY <1>1, <2>1, <2>3 DEF GoneInv
      <3>2. s \in Likes => TakenBack(s)'
        BY <2>2, <3>1 DEF TakenBack
      <3> QED
        BY <3>1, <3>2
    <2> QED
      BY <1>0, <2>3 DEF GoneInv
  <1>6. CASE CreateComment(r)
    <2>1. At(r, "create") /\ Leave(req[r].of, ~Visible \/ \E p \in req[r].to : Doomed(p))
          /\ docs' = docs \union {req[r].of} /\ \E tasks : Launch(r, {}, tasks)
      BY <1>6 DEF CreateComment
    <2>2. \A q \in Requests \ {r} : req'[q] = req[q]
      BY <2>1, OthersKept
    <2>3. req[r].of \in Comments /\ req[r].of \notin Likes
      <3>1. req[r].of \in Comments
        BY <1>6 DEF CreateComment, GoodRequest, AboutComment
      <3>2. Kind(req[r].of) = "comment"
        BY <3>1, CommentKind
      <3> QED
        BY <3>1, <3>2 DEF Likes, Kind
    <2>4. ASSUME Emptied', NEW s \in docs'
          PROVE  s \in late' /\ (s \in Likes => TakenBack(s)')
      <3>1. CASE s = req[r].of
        BY <1>1, <2>1, <2>3, <2>4, <3>1 DEF Leave
      <3>2. CASE s # req[r].of
        <4>1. s \in docs /\ s \in late' /\ (s \in Likes => TakenBack(s))
          BY <1>1, <2>1, <2>4, <3>2, LeaveKeeps DEF GoneInv
        <4>2. s \in Likes => TakenBack(s)'
          BY <2>1, <2>2, <4>1 DEF TakenBack, At
        <4> QED
          BY <4>1, <4>2
      <3> QED
        BY <3>1, <3>2
    <2> QED
      BY <1>0, <2>4 DEF GoneInv
  <1> QED
    BY <1>2, <1>3, <1>4, <1>5, <1>6 DEF Writes

LEMMA DeletionGone ==
  ASSUME Types, GoneInv, Deletion
  PROVE  GoneInv'
  <1>1. CASE MarkDeleting \/ JobRead \/ JobDelete
    <2>1. CASE MarkDeleting \/ JobRead
      <3>1. post' = "deleting" /\ job'.pc \in {"queued", "traces"}
        <4>1. CASE MarkDeleting
          BY <4>1 DEF MarkDeleting, NoJob
        <4>2. CASE JobRead
          BY <4>2 DEF JobRead, NoJob, GoneInv, JobFits
        <4> QED
          BY <2>1, <4>1, <4>2
      <3>2. JobFits' /\ ~Emptied'
        BY <3>1 DEF JobFits, Emptied
      <3> QED
        BY <3>2 DEF GoneInv
    <2>2. CASE JobDelete
      <3>1. JobFits' /\ docs' = {}
        BY <2>2 DEF JobDelete, NoJob, GoneInv, JobFits
      <3> QED
        BY <3>1 DEF GoneInv
    <2> QED
      BY <1>1, <2>1, <2>2
  <1>2. CASE JobFindLogs \/ JobDeleteLogs \/ JobRemoveNotes \/ \E u \in Users : JobUncount(u)
    <2>1. UNCHANGED <<post, docs, req, late>> /\ job.pc # "none"
      BY <1>2 DEF JobFindLogs, JobDeleteLogs, JobRemoveNotes, JobUncount, GoneInv, JobFits
    <2>2. \E next : next.pc = job.pc /\ JobGoesOn(next)
      <3> USE DEF Types, JobOK, Job
      <3>1. CASE JobFindLogs
        <4> DEFINE found == logs \intersect job.ids
                   next == [job EXCEPT !.found = found,
                                       !.tasks = (job.tasks \ {"find logs"}) \union (IF found = {} THEN {} ELSE {"delete logs"})]
        <4>1. next.pc = job.pc
          OBVIOUS
        <4>2. JobGoesOn(next)
          BY <3>1 DEF JobFindLogs
        <4> QED
          BY <4>1, <4>2
      <3>2. CASE JobDeleteLogs
        <4> DEFINE next == [job EXCEPT !.tasks = job.tasks \ {"delete logs"}, !.users = {u \in Users : FoundOf(u) # {}}]
        <4>1. next.pc = job.pc
          OBVIOUS
        <4>2. JobGoesOn(next)
          BY <3>2 DEF JobDeleteLogs
        <4> QED
          BY <4>1, <4>2
      <3>3. CASE JobRemoveNotes
        <4> DEFINE next == [job EXCEPT !.tasks = job.tasks \ {"notes"}]
        <4>1. next.pc = job.pc
          OBVIOUS
        <4>2. JobGoesOn(next)
          BY <3>3 DEF JobRemoveNotes
        <4> QED
          BY <4>1, <4>2
      <3>4. ASSUME NEW u \in Users, JobUncount(u)
            PROVE  \E next : next.pc = job.pc /\ JobGoesOn(next)
        <4> DEFINE next == [job EXCEPT !.users = job.users \ {u}]
        <4>1. next.pc = job.pc
          OBVIOUS
        <4>2. JobGoesOn(next)
          BY <3>4 DEF JobUncount
        <4> QED
          BY <4>1, <4>2
      <3> QED
        BY <1>2, <3>1, <3>2, <3>3, <3>4
    <2>5. job'.pc \in {job.pc, "documents"}
      BY <2>2 DEF JobGoesOn, NoJob
    <2>3. JobFits'
      BY <2>1, <2>5 DEF GoneInv, JobFits
    <2>4. Emptied' => Emptied
      BY <2>1, <2>5 DEF GoneInv, JobFits, Emptied
    <2> QED
      BY <2>1, <2>3, <2>4 DEF GoneInv, TakenBack
  <1>3. CASE JobRemovePost
    <2>1. UNCHANGED <<docs, req, late>> /\ JobFits' /\ Emptied
      BY <1>3 DEF JobRemovePost, NoJob, JobFits, Emptied
    <2> QED
      BY <2>1 DEF GoneInv, TakenBack
  <1> QED
    BY <1>1, <1>2, <1>3 DEF Deletion, JobStep

LEMMA NextGone == Types /\ GoneInv /\ [Next]_vars => GoneInv'
  <1> SUFFICES ASSUME Types, GoneInv, [Next]_vars PROVE GoneInv'
    OBVIOUS
  <1>1. CASE \E r \in Requests, op \in Op, s \in Reactions : React(r, op, s)
    BY <1>1, SendGone
  <1>2. CASE \E r \in Requests, u \in Users, to \in {{}} \union {{c} : c \in docs \intersect Comments} : Say(r, u, to)
    BY <1>2, SendGone
  <1>3. CASE \E r \in Requests, c \in docs \intersect Comments : Unsay(r, c)
    BY <1>3, SendGone
  <1>4. CASE \E r \in Requests : Step(r)
    BY <1>4, ReadsGone, WritesGone, TaskGone DEF Step, Reads, Writes
  <1>5. CASE Deletion
    BY <1>5, DeletionGone
  <1>6. CASE UNCHANGED vars
    BY <1>6 DEF vars, post_, GoneInv, JobFits, Emptied, TakenBack
  <1> QED
    BY <1>1, <1>2, <1>3, <1>4, <1>5, <1>6 DEF Next, Deletion

LEMMA GoneSuffices == GoneInv => GoneLeavesNothing
  <1> SUFFICES ASSUME GoneInv, Quiet, post = "gone", NEW s \in docs
               PROVE  s \in late \ Likes
    BY DEF GoneLeavesNothing, Likes
  <1>1. s \in late /\ (s \in Likes => TakenBack(s))
    BY DEF GoneInv, Emptied
  <1>2. ~TakenBack(s)
    BY DEF Quiet, TakenBack, At
  <1> QED
    BY <1>1, <1>2

\* No like outlives its post, and no repost or comment that was there when the post was
\* hidden, whatever the requests do while the cleanup runs.
THEOREM GoneIsEmpty == Spec => []GoneLeavesNothing
  BY InitType, NextType, InitGone, NextGone, GoneSuffices, PTL DEF Spec

----------------------------------------------------------------------------
(* Threads are whole, and what is deleted leaves no trace.                 *)

\* What a request is about, and that it deletes nothing before it has launched that.
Sensible(r) ==
    /\ req[r].op = "comment" => req[r].of = <<"comment", r>>
    /\ \A p, q \in req[r].to : p = q
    /\ req[r].pc \in {"exists", "count", "undo", "note", "drop"} => req[r].op \notin {"comment", "uncomment"}
    /\ req[r].pc \notin {"idle", "tasks", "done"} /\ req[r].op \notin {"comment", "uncomment"} => req[r].of \in Reactions
    /\ req[r].pc # "tasks" => req[r].ids = {}

\* The request that was to create this comment has done so.
Created(c) == \A r \in Requests : c = <<"comment", r>> => req[r].pc \in {"tasks", "done"}

\* The comment above is there, is no reply, and who deletes it deletes this one.
Whole(c) == \A p \in parent[c] :
    /\ p \in docs /\ parent[p] = {} /\ parent[c] = {p}
    /\ \A r \in Requests : p \in req[r].ids => c \in req[r].ids

\* The comments that were not created too late are whole, and what a request is going to
\* reply to was created and is no reply.
ThreadInv ==
    /\ \A r \in Requests : Sensible(r)
    /\ \A c \in docs \intersect Comments : Created(c) /\ (c \notin late => Whole(c))
    /\ \A r \in Requests : At(r, "create") /\ req[r].op = "comment" =>
          \A p \in req[r].to : Created(p) /\ parent[p] = {}

\* The new value of the request that makes a step.
LEMMA OwnStep ==
  ASSUME ReqsOK, NEW r \in Requests
  PROVE  /\ \A pc : Goto(r, pc) =>
               /\ req'[r].pc = pc
               /\ req'[r].op = req[r].op /\ req'[r].of = req[r].of /\ req'[r].to = req[r].to
               /\ req'[r].ids = req[r].ids /\ req'[r].tasks = req[r].tasks
         /\ Finish(r) => req'[r] = NoRequest("done")
         /\ \A ids, tasks : Launch(r, ids, tasks) =>
               /\ req'[r].pc = "tasks"
               /\ req'[r].op = req[r].op /\ req'[r].of = req[r].of /\ req'[r].to = req[r].to
               /\ req'[r].ids = ids /\ req'[r].tasks = tasks
         /\ \A tasks : Resume(r, tasks) =>
               /\ req'[r].tasks = tasks
               /\ IF tasks = {} THEN req'[r] = NoRequest("done")
                  ELSE /\ req'[r].pc = req[r].pc /\ req'[r].op = req[r].op /\ req'[r].of = req[r].of
                       /\ req'[r].to = req[r].to /\ req'[r].ids = req[r].ids
  <1>0. req[r] \in Request
    BY DEF ReqsOK, GoodRequest
  <1>1. ASSUME NEW pc, Goto(r, pc)
        PROVE  /\ req'[r].pc = pc
               /\ req'[r].op = req[r].op /\ req'[r].of = req[r].of /\ req'[r].to = req[r].to
               /\ req'[r].ids = req[r].ids /\ req'[r].tasks = req[r].tasks
    BY <1>0, <1>1 DEF Goto, ReqsOK, Request
  <1>2. Finish(r) => req'[r] = NoRequest("done")
    BY DEF Finish, ReqsOK
  <1>3. ASSUME NEW ids, NEW tasks, Launch(r, ids, tasks)
        PROVE  /\ req'[r].pc = "tasks"
               /\ req'[r].op = req[r].op /\ req'[r].of = req[r].of /\ req'[r].to = req[r].to
               /\ req'[r].ids = ids /\ req'[r].tasks = tasks
    BY <1>0, <1>3 DEF Launch, ReqsOK, Request
  <1>4. ASSUME NEW tasks, Resume(r, tasks)
        PROVE  /\ req'[r].tasks = tasks
               /\ IF tasks = {} THEN req'[r] = NoRequest("done")
                  ELSE /\ req'[r].pc = req[r].pc /\ req'[r].op = req[r].op /\ req'[r].of = req[r].of
                       /\ req'[r].to = req[r].to /\ req'[r].ids = req[r].ids
    <2>1. CASE tasks = {}
      BY <1>4, <2>1 DEF Resume, ReqsOK, NoRequest
    <2>2. CASE tasks # {}
      BY <1>0, <1>4, <2>2 DEF Resume, ReqsOK, Request
    <2> QED
      BY <2>1, <2>2
  <1> QED
    BY <1>1, <1>2, <1>3, <1>4

LEMMA SensibleAtEnd ==
  ASSUME NEW r \in Requests, req'[r] = NoRequest("done")
  PROVE  Sensible(r)' /\ req'[r].pc = "done" /\ req'[r].ids = {} /\ ~At(r, "create")'
  BY DEF Sensible, NoRequest, At

LEMMA InitThreads == Init => ThreadInv
  <1> SUFFICES ASSUME Init PROVE ThreadInv
    OBVIOUS
  <1>1. PICK fans \in SUBSET Users, said \in {{}, {Top, Reply}} : docs = ({"like", "repost"} \X fans) \union said
    BY DEF Init
  <1>2. ASSUME NEW r \in Requests PROVE Sensible(r) /\ ~At(r, "create")
    BY DEF Init, Sensible, NoRequest, At
  <1>3. ASSUME NEW c \in docs \intersect Comments
        PROVE  Created(c) /\ Whole(c)
    <2>1. c \in said
      BY <1>1, <1>3, CommentKind, CommentSubjects DEF Kind
    <2>2. Created(c)
      BY <2>1, RequestsAssumption DEF Created, Top, Reply
    <2>3. ASSUME NEW p \in parent[c]
          PROVE  p \in docs /\ parent[p] = {} /\ parent[c] = {p}
      <3>1. c = Reply /\ p = Top /\ parent[c] = {Top} /\ parent[Top] = {}
        BY <2>3, CommentSubjects DEF Init
      <3> QED
        BY <1>1, <2>1, <3>1
    <2>4. \A r \in Requests : req[r].ids = {}
      BY DEF Init, NoRequest
    <2>5. Whole(c)
      BY <2>3, <2>4 DEF Whole
    <2> QED
      BY <2>2, <2>5
  <1> QED
    BY <1>2, <1>3 DEF ThreadInv

\* A step of a request that creates no comment.
LEMMA ThreadFrame ==
  ASSUME Types, ThreadInv, parent' = parent, late \subseteq late', docs' \intersect Comments \subseteq docs,
         NEW r \in Requests, \A q \in Requests \ {r} : req'[q] = req[q],
         Sensible(r)', req[r].pc \in {"tasks", "done"} => req'[r].pc \in {"tasks", "done"},
         \A c \in (docs' \intersect Comments) \ late : \A p \in parent[c] :
            p \in docs' /\ (p \in req'[r].ids => c \in req'[r].ids),
         At(r, "create")' /\ req'[r].op = "comment" => \A p \in req'[r].to : Created(p) /\ parent[p] = {}
  PROVE  ThreadInv'
  <1>1. ASSUME NEW q \in Requests PROVE Sensible(q)'
    <2>1. CASE q = r
      BY <2>1
    <2>2. CASE q # r
      <3>1. req'[q] = req[q] /\ Sensible(q)
        BY <2>2 DEF ThreadInv
      <3> QED
        BY <3>1 DEF Sensible
    <2> QED
      BY <2>1, <2>2
  <1>2. ASSUME NEW c, Created(c) PROVE Created(c)'
    BY <1>2 DEF Created
  <1>3. ASSUME NEW c \in docs' \intersect Comments
        PROVE  Created(c)' /\ (c \notin late' => Whole(c)')
    <2>1. c \in docs \intersect Comments
      BY <1>3
    <2>2. ASSUME c \notin late', NEW p \in parent'[c]
          PROVE  /\ p \in docs' /\ parent'[p] = {} /\ parent'[c] = {p}
                 /\ \A q \in Requests : p \in req'[q].ids => c \in req'[q].ids
      <3>1. c \notin late /\ p \in parent[c]
        BY <2>2
      <3>2. /\ parent[p] = {} /\ parent[c] = {p}
            /\ \A q \in Requests : p \in req[q].ids => c \in req[q].ids
        BY <2>1, <3>1 DEF ThreadInv, Whole
      <3> QED
        BY <1>3, <3>1, <3>2
    <2> QED
      BY <1>2, <2>1, <2>2 DEF ThreadInv, Whole
  <1>4. ASSUME NEW q \in Requests, At(q, "create")', req'[q].op = "comment", NEW p \in req'[q].to
        PROVE  Created(p)' /\ parent'[p] = {}
    <2>1. Created(p) /\ parent[p] = {}
      BY <1>4 DEF ThreadInv, At
    <2> QED
      BY <1>2, <2>1
  <1> QED
    BY <1>1, <1>3, <1>4 DEF ThreadInv

\* A step of a request that creates and deletes no comment and launches no deletion.
LEMMA QuietThread ==
  ASSUME Types, ThreadInv, parent' = parent, late \subseteq late', docs' \intersect Comments = docs \intersect Comments,
         NEW r \in Requests, \A q \in Requests \ {r} : req'[q] = req[q],
         Sensible(r)', req[r].pc \in {"tasks", "done"} => req'[r].pc \in {"tasks", "done"},
         req'[r].ids \in {{}, req[r].ids},
         At(r, "create")' /\ req'[r].op = "comment" => \A p \in req'[r].to : Created(p) /\ parent[p] = {}
  PROVE  ThreadInv'
  <1>1. ASSUME NEW c \in (docs' \intersect Comments) \ late, NEW p \in parent[c]
        PROVE  p \in docs' /\ (p \in req'[r].ids => c \in req'[r].ids)
    <2>1. p \in docs /\ (p \in req[r].ids => c \in req[r].ids)
      BY <1>1 DEF ThreadInv, Whole
    <2>2. p \in Comments
      BY <1>1 DEF Types, Collections
    <2> QED
      BY <2>1, <2>2
  <1> QED
    BY <1>1, ThreadFrame

LEMMA SendThreads ==
  ASSUME Types, ThreadInv, NEW r \in Requests,
         \/ \E op \in Op, s \in Reactions : React(r, op, s)
         \/ \E u \in Users, to \in {{}} \union {{c} : c \in docs \intersect Comments} : Say(r, u, to)
         \/ \E c \in docs \intersect Comments : Unsay(r, c)
  PROVE  ThreadInv'
  <1>1. At(r, "idle") /\ UNCHANGED <<parent, docs, late>>
    BY DEF React, Say, Unsay, thread
  <1>2. \A q \in Requests \ {r} : req'[q] = req[q]
    BY DEF React, Say, Unsay, Types, ReqsOK
  <1>3. req[r] \in Request /\ req[r].ids = {} /\ \A p, q \in req[r].to : p = q
    BY <1>1, ReqType DEF ThreadInv, Sensible, At, GoodRequest
  <1>4. Sensible(r)' /\ req'[r].ids = {} /\ ~At(r, "create")'
    <2>1. ASSUME NEW op \in Op, NEW s \in Reactions, React(r, op, s)
          PROVE  Sensible(r)' /\ req'[r].ids = {} /\ ~At(r, "create")'
      <3>1. /\ req'[r].op = op /\ req'[r].of = s /\ req'[r].pc = Entry[op]
            /\ req'[r].to = req[r].to /\ req'[r].ids = req[r].ids
        BY <1>3, <2>1 DEF React, Types, ReqsOK, Request
      <3>2. op \in {"like", "unlike", "repost", "unrepost"} /\ Entry[op] \in {"target", "drop"}
        BY <2>1, EntryType DEF React
      <3> QED
        BY <1>3, <3>1, <3>2 DEF Sensible, At
    <2>2. ASSUME NEW u \in Users, NEW to \in {{}} \union {{c} : c \in docs \intersect Comments}, Say(r, u, to)
          PROVE  Sensible(r)' /\ req'[r].ids = {} /\ ~At(r, "create")'
      <3>1. /\ req'[r].op = "comment" /\ req'[r].of = <<"comment", r>> /\ req'[r].pc = "target"
            /\ req'[r].to = to /\ req'[r].ids = req[r].ids
        BY <1>3, <2>2, EntryType DEF Say, Types, ReqsOK, Request
      <3>2. \A p, q \in to : p = q
        OBVIOUS
      <3> QED
        BY <1>3, <3>1, <3>2 DEF Sensible, At
    <2>3. ASSUME NEW c \in docs \intersect Comments, Unsay(r, c)
          PROVE  Sensible(r)' /\ req'[r].ids = {} /\ ~At(r, "create")'
      <3>1. /\ req'[r].op = "uncomment" /\ req'[r].pc = "find"
            /\ req'[r].to = req[r].to /\ req'[r].ids = req[r].ids
        BY <1>3, <2>3, EntryType DEF Unsay, Types, ReqsOK, Request
      <3> QED
        BY <1>3, <3>1 DEF Sensible, At
    <2> QED
      BY <2>1, <2>2, <2>3
  <1>5. req[r].pc \notin {"tasks", "done"}
    BY <1>1 DEF At
  <1> QED
    BY <1>1, <1>2, <1>3, <1>4, <1>5, QuietThread

\* A request that goes on with what it was about.
LEMMA GotoThreads ==
  ASSUME Types, ThreadInv, NEW r \in Requests, req[r].pc \notin {"tasks", "done", "idle"},
         parent' = parent, late \subseteq late', docs' \intersect Comments = docs \intersect Comments,
         NEW pc \in Pc, Goto(r, pc), pc \in {"exists", "count", "undo", "note", "drop"} => req[r].op \notin {"comment", "uncomment"},
         pc \notin {"tasks", "done", "idle"},
         pc = "create" /\ req[r].op = "comment" => \A p \in req[r].to : TopLevel(p)
  PROVE  ThreadInv'
  <1>1. \A q \in Requests \ {r} : req'[q] = req[q]
    BY OthersKept DEF Types
  <1>2. /\ req'[r].pc = pc
        /\ req'[r].op = req[r].op /\ req'[r].of = req[r].of /\ req'[r].to = req[r].to /\ req'[r].ids = req[r].ids
    BY OwnStep DEF Types
  <1>3. Sensible(r)'
    BY <1>2 DEF ThreadInv, Sensible
  <1>4. ASSUME pc = "create", req[r].op = "comment", NEW p \in req[r].to
        PROVE  Created(p) /\ parent[p] = {}
    <2>1. p \in docs \intersect Comments /\ parent[p] = {}
      BY <1>4, ReqType DEF TopLevel
    <2> QED
      BY <2>1 DEF ThreadInv
  <1> QED
    BY <1>1, <1>2, <1>3, <1>4, QuietThread DEF At

LEMMA FinishThreads ==
  ASSUME Types, ThreadInv, NEW r \in Requests, Finish(r),
         parent' = parent, late \subseteq late', docs' \intersect Comments = docs \intersect Comments
  PROVE  ThreadInv'
  <1>1. \A q \in Requests \ {r} : req'[q] = req[q]
    BY OthersKept DEF Types
  <1>2. req'[r] = NoRequest("done")
    BY OwnStep DEF Types
  <1> QED
    BY <1>1, <1>2, SensibleAtEnd, QuietThread

\* A request launches the deletion of comments that are there, with the replies to each.
LEMMA LaunchThreads ==
  ASSUME Types, ThreadInv, NEW r \in Requests, req[r].pc # "create",
         parent' = parent, late \subseteq late', docs' \intersect Comments = docs \intersect Comments,
         NEW ids, NEW tasks, Launch(r, ids, tasks),
         \A c \in (docs \intersect Comments) \ late : \A p \in parent[c] : p \in ids => c \in ids
  PROVE  ThreadInv'
  <1>1. \A q \in Requests \ {r} : req'[q] = req[q]
    BY OthersKept DEF Types
  <1>2. /\ req'[r].pc = "tasks" /\ req'[r].ids = ids
        /\ req'[r].op = req[r].op /\ req'[r].of = req[r].of /\ req'[r].to = req[r].to
    BY OwnStep DEF Types
  <1>3. Sensible(r)' /\ ~At(r, "create")'
    BY <1>2 DEF ThreadInv, Sensible, At
  <1>4. ASSUME NEW c \in (docs' \intersect Comments) \ late, NEW p \in parent[c]
        PROVE  p \in docs' /\ (p \in req'[r].ids => c \in req'[r].ids)
    <2>1. p \in docs /\ p \in Comments
      BY <1>4 DEF ThreadInv, Whole, Types, Collections
    <2> QED
      BY <1>2, <1>4, <2>1
  <1> QED
    BY <1>1, <1>2, <1>3, <1>4, ThreadFrame

LEMMA ReadsThreads ==
  ASSUME Types, ThreadInv, NEW r \in Requests, Reads(r)
  PROVE  ThreadInv'
  <1> USE ReqType
  <1>0. UNCHANGED <<parent, docs, late>>
    BY DEF Reads, Refuse, FindTarget, FindRepost, FindTargetAgain, FindParent, FindComment, FindReplies, thread
  <1>1. CASE Refuse(r)
    BY <1>0, <1>1, FinishThreads DEF Refuse
  <1>2. CASE FindTarget(r)
    <2> DEFINE pc == IF req[r].to # {} THEN "parent" ELSE Found[req[r].op]
    <2>1. req[r].pc = "target" /\ req[r].op \in {"like", "unlike", "repost", "comment"} /\ Goto(r, pc)
      BY <1>2 DEF FindTarget, At, GoodRequest, AboutComment
    <2>2. /\ pc \in {"parent", "create", "drop", "exists"}
          /\ pc \in {"drop", "exists"} => req[r].op # "comment"
          /\ pc = "create" => req[r].to = {}
      BY <2>1 DEF Found
    <2> QED
      BY <1>0, <2>1, <2>2, GotoThreads DEF Pc
  <1>3. CASE FindRepost(r)
    <2>1. req[r].pc = "exists" /\ req[r].op # "comment"
      BY <1>3 DEF FindRepost, At, ThreadInv, Sensible
    <2>2. CASE Finish(r)
      BY <1>0, <2>2, FinishThreads
    <2>3. CASE Goto(r, "create") /\ req[r].op # "comment"
      BY <1>0, <2>1, <2>3, GotoThreads DEF Pc
    <2> QED
      BY <1>3, <2>1, <2>2, <2>3 DEF FindRepost
  <1>4. CASE FindTargetAgain(r)
    <2>1. req[r].pc = "recheck"
      BY <1>4 DEF FindTargetAgain, At
    <2>2. Finish(r) \/ Goto(r, "unnote")
      BY <1>4 DEF FindTargetAgain
    <2> QED
      BY <1>0, <2>1, <2>2, FinishThreads, GotoThreads DEF Pc
  <1>5. CASE FindParent(r)
    BY <1>0, <1>5, GotoThreads DEF FindParent, At, Pc
  <1>6. CASE FindComment(r)
    <2>1. req[r].pc = "find"
      BY <1>6 DEF FindComment, At
    <2>2. CASE Finish(r)
      BY <1>0, <2>2, FinishThreads
    <2>3. CASE Goto(r, "replies")
      BY <1>0, <2>1, <2>3, GotoThreads DEF Pc
    <2>4. CASE parent[req[r].of] # {} /\ \E tasks : Launch(r, {req[r].of}, tasks)
      <3>1. \A c \in (docs \intersect Comments) \ late : \A p \in parent[c] : p # req[r].of
        BY <2>4 DEF ThreadInv, Whole
      <3> QED
        BY <1>0, <2>1, <2>4, <3>1, LaunchThreads
    <2> QED
      BY <1>6, <2>2, <2>3, <2>4 DEF FindComment, TopLevel
  <1>7. CASE FindReplies(r)
    <2> DEFINE ids == CommentsToDelete(req[r].of)
    <2>1. req[r].pc = "replies" /\ \E tasks : Launch(r, ids, tasks)
      BY <1>7 DEF FindReplies, At
    <2>2. ASSUME NEW c \in (docs \intersect Comments) \ late, NEW p \in parent[c], p \in ids
          PROVE  c \in ids
      <3>1. parent[c] = {p} /\ parent[p] = {}
        BY <2>2 DEF ThreadInv, Whole
      <3>2. p = req[r].of
        BY <2>2, <3>1 DEF CommentsToDelete
      <3> QED
        BY <3>1, <3>2 DEF CommentsToDelete
    <2> HIDE DEF ids
    <2> QED
      BY <1>0, <2>1, <2>2, LaunchThreads
  <1> QED
    BY <1>1, <1>2, <1>3, <1>4, <1>5, <1>6, <1>7 DEF Reads

\* Reactions are no comments.
LEMMA ReactionsApart == Reactions \intersect Comments = {}
  <1> SUFFICES ASSUME NEW s \in Reactions, s \in Comments PROVE FALSE
    OBVIOUS
  <1>1. Kind(s) = "comment" /\ Kind(s) \in {"like", "repost"}
    BY CommentSubjects, CommentKind DEF Reactions, Kind
  <1> QED
    BY <1>1

LEMMA CreateThreads ==
  ASSUME Types, ThreadInv, NEW r \in Requests, CreateComment(r)
  PROVE  ThreadInv'
  <1> USE ReqType
  <1> DEFINE x == <<"comment", r>>
  <1>1. /\ req[r].pc = "create" /\ req[r].op = "comment" /\ req[r].of = x /\ x \in Comments
        /\ \A p, q \in req[r].to : p = q
        /\ docs' = docs \union {x} /\ parent' = [parent EXCEPT ![x] = req[r].to]
        /\ late' = IF ~Visible \/ \E p \in req[r].to : Doomed(p) THEN late \union {x} ELSE late
    BY CommentSubjects DEF CreateComment, At, ThreadInv, Sensible, Leave
  <1>2. PICK tasks : Launch(r, {}, tasks)
    BY DEF CreateComment
  <1>3. \A q \in Requests \ {r} : req'[q] = req[q]
    BY <1>2, OthersKept DEF Types
  <1>4. /\ req'[r].pc = "tasks" /\ req'[r].ids = {}
        /\ req'[r].op = req[r].op /\ req'[r].of = req[r].of /\ req'[r].to = req[r].to
    BY <1>2, OwnStep DEF Types
  <1>5. ~Created(x) /\ x \notin docs
    BY <1>1 DEF Created, ThreadInv
  <1>6. ASSUME NEW c, Created(c) PROVE Created(c)' /\ c # x /\ (c \in Comments => parent'[c] = parent[c])
    <2>1. Created(c)'
      BY <1>3, <1>4, <1>6 DEF Created
    <2>2. c # x
      BY <1>5, <1>6
    <2> QED
      BY <1>1, <2>1, <2>2 DEF Types, Collections
  <1>7. ASSUME NEW q \in Requests PROVE Sensible(q)'
    <2>1. CASE q = r
      BY <1>1, <1>4, <2>1 DEF ThreadInv, Sensible
    <2>2. CASE q # r
      <3>1. req'[q] = req[q] /\ Sensible(q)
        BY <1>3, <2>2 DEF ThreadInv
      <3> QED
        BY <3>1 DEF Sensible
    <2> QED
      BY <2>1, <2>2
  <1>8. ASSUME NEW c \in docs' \intersect Comments
        PROVE  Created(c)' /\ (c \notin late' => Whole(c)')
    <2>1. CASE c = x
      <3>1. Created(c)'
        BY <1>4, <2>1 DEF Created
      <3>2. ASSUME c \notin late', NEW p \in parent'[c]
            PROVE  /\ p \in docs' /\ parent'[p] = {} /\ parent'[c] = {p}
                   /\ \A q \in Requests : p \in req'[q].ids => c \in req'[q].ids
        <4>1. parent'[c] = req[r].to /\ p \in req[r].to /\ p \in Comments
          BY <1>1, <2>1, <3>2 DEF Types, Collections
        <4>2. ~Doomed(p)
          BY <1>1, <2>1, <3>2, <4>1
        <4>3. Created(p) /\ parent[p] = {}
          BY <1>1, <4>1 DEF ThreadInv, At
        <4>4. p \in docs' /\ parent'[p] = {}
          BY <1>1, <1>6, <4>1, <4>2, <4>3 DEF Doomed
        <4>5. parent'[c] = {p}
          BY <1>1, <4>1
        <4>6. \A q \in Requests : p \notin req'[q].ids
          BY <1>3, <1>4, <4>2 DEF Doomed
        <4> QED
          BY <4>4, <4>5, <4>6
      <3> QED
        BY <3>1, <3>2 DEF Whole
    <2>2. CASE c # x
      <3>1. c \in docs \intersect Comments /\ Created(c) /\ (c \notin late => Whole(c))
        BY <1>1, <1>8, <2>2 DEF ThreadInv
      <3>2. ASSUME c \notin late', NEW p \in parent'[c]
            PROVE  /\ p \in docs' /\ parent'[p] = {} /\ parent'[c] = {p}
                   /\ \A q \in Requests : p \in req'[q].ids => c \in req'[q].ids
        <4>1. c \notin late /\ parent'[c] = parent[c] /\ p \in parent[c] /\ p \in Comments
          BY <1>1, <1>6, <3>1, <3>2 DEF Types, Collections
        <4>2. /\ p \in docs /\ parent[p] = {} /\ parent[c] = {p}
              /\ \A q \in Requests : p \in req[q].ids => c \in req[q].ids
          BY <3>1, <4>1 DEF Whole
        <4>3. parent'[p] = {}
          BY <1>6, <4>1, <4>2 DEF ThreadInv
        <4> QED
          BY <1>1, <1>3, <1>4, <4>1, <4>2, <4>3
      <3> QED
        BY <1>6, <3>1, <3>2 DEF Whole
    <2> QED
      BY <2>1, <2>2
  <1>9. ASSUME NEW q \in Requests, At(q, "create")', req'[q].op = "comment", NEW p \in req'[q].to
        PROVE  Created(p)' /\ parent'[p] = {}
    <2>1. q # r /\ req'[q] = req[q]
      BY <1>3, <1>4, <1>9 DEF At
    <2>2. Created(p) /\ parent[p] = {} /\ p \in Comments
      BY <1>9, <2>1, ReqType DEF ThreadInv, At
    <2> QED
      BY <1>6, <2>2
  <1> QED
    BY <1>7, <1>8, <1>9 DEF ThreadInv

LEMMA WritesThreads ==
  ASSUME Types, ThreadInv, NEW r \in Requests, Writes(r)
  PROVE  ThreadInv'
  <1> USE ReqType
  <1>0. Sensible(r)
    BY DEF ThreadInv
  <1>1. CASE CreateComment(r)
    BY <1>1, CreateThreads
  <1>2. CASE ~CreateComment(r)
    <2>1. parent' = parent /\ late \subseteq late'
      BY <1>2, LeaveKeeps
         DEF Writes, CreateReaction, CountReaction, UndoLike, SendNote, DropReaction, UncountRepost, RemoveNote, thread
    <2>2. docs' \intersect Comments = docs \intersect Comments
      <3>1. CASE CreateReaction(r) \/ UndoLike(r) \/ DropReaction(r)
        <4>1. req[r].of \in Reactions
          BY <1>0, <3>1 DEF CreateReaction, UndoLike, DropReaction, Sensible, At
        <4> QED
          BY <3>1, <4>1, ReactionsApart DEF CreateReaction, UndoLike, DropReaction
      <3>2. CASE CountReaction(r) \/ SendNote(r) \/ UncountRepost(r) \/ RemoveNote(r)
        BY <3>2 DEF CountReaction, SendNote, UncountRepost, RemoveNote
      <3> QED
        BY <1>2, <3>1, <3>2 DEF Writes
    <2>3. CASE Finish(r)
      BY <2>1, <2>2, <2>3, FinishThreads
    <2>4. CASE \E pc \in {"count", "undo", "note", "uncount", "recheck"} :
                  Goto(r, pc) /\ req[r].pc \in {"create", "count", "drop", "uncount"}
                  /\ (pc \in {"count", "undo", "note"} => req[r].op \notin {"comment", "uncomment"})
      BY <2>1, <2>2, <2>4, GotoThreads DEF Pc
    <2>5. CASE req[r].pc = "drop" /\ \E tasks : Launch(r, {}, tasks)
      BY <2>1, <2>2, <2>5, LaunchThreads
    <2>6. CreateReaction(r) => Finish(r) \/ (Goto(r, "count") /\ req[r].pc = "create" /\ req[r].op \in {"like", "repost"})
      BY DEF CreateReaction, At
    <2>7. CountReaction(r) => \E pc \in {"undo", "note"} : Goto(r, pc) /\ req[r].pc = "count"
      BY DEF CountReaction, At, AfterCount
    <2>8. DropReaction(r) => \/ Finish(r)
                             \/ req[r].pc = "drop" /\ \E tasks : Launch(r, {}, tasks)
                             \/ Goto(r, "uncount") /\ req[r].pc = "drop"
      BY DEF DropReaction, At
    <2>9. UncountRepost(r) => Goto(r, "recheck") /\ req[r].pc = "uncount"
      BY DEF UncountRepost, At
    <2>10. UndoLike(r) \/ SendNote(r) \/ RemoveNote(r) => Finish(r)
      BY DEF UndoLike, SendNote, RemoveNote
    <2>11. req[r].pc = "count" => req[r].op \notin {"comment", "uncomment"}
      BY <1>0 DEF Sensible
    <2> QED
      BY <1>2, <2>3, <2>4, <2>5, <2>6, <2>7, <2>8, <2>9, <2>10, <2>11 DEF Writes
  <1> QED
    BY <1>1, <1>2

LEMMA TaskThreads ==
  ASSUME Types, ThreadInv, NEW r \in Requests, DoTask(r)
  PROVE  ThreadInv'
  <1> USE ReqType
  <1>0. PICK t \in req[r].tasks :
          \/ CountTask(r, t) \/ ReplyTask(r, t) \/ NoteTask(r, t) \/ LogTask(r, t) \/ ScoreTask(r, t)
          \/ DeleteTask(r, t) \/ UnlogTask(r, t) \/ UnnoteTask(r, t)
    BY DEF DoTask
  <1>1. parent' = parent /\ late \subseteq late'
    BY <1>0, LeaveKeeps
       DEF CountTask, ReplyTask, NoteTask, LogTask, ScoreTask, DeleteTask, UnlogTask, UnnoteTask, thread
  <1>2. PICK tasks : Resume(r, tasks)
    BY <1>0 DEF CountTask, ReplyTask, NoteTask, LogTask, ScoreTask, DeleteTask, UnlogTask, UnnoteTask
  <1>3. \A q \in Requests \ {r} : req'[q] = req[q]
    BY <1>2, OthersKept DEF Types
  <1>4. req[r].pc = "tasks" /\ Sensible(r)
    BY DEF DoTask, At, ThreadInv
  <1>5. Sensible(r)' /\ req'[r].pc \in {"tasks", "done"} /\ req'[r].ids \in {{}, req[r].ids}
    <2>1. CASE tasks = {}
      <3>1. req'[r] = NoRequest("done")
        BY <1>2, <2>1, OwnStep DEF Types
      <3> QED
        BY <3>1, SensibleAtEnd
    <2>2. CASE tasks # {}
      <3>1. /\ req'[r].pc = "tasks" /\ req'[r].op = req[r].op /\ req'[r].of = req[r].of
            /\ req'[r].to = req[r].to /\ req'[r].ids = req[r].ids
        BY <1>2, <1>4, <2>2, OwnStep DEF Types
      <3> QED
        BY <1>4, <3>1 DEF Sensible
    <2> QED
      BY <2>1, <2>2
  <1>6. ~At(r, "create")'
    BY <1>5 DEF At
  <1>7. CASE ~DeleteTask(r, t)
    <2>1. docs' = docs
      BY <1>0, <1>7 DEF CountTask, ReplyTask, NoteTask, LogTask, ScoreTask, UnlogTask, UnnoteTask
    <2> QED
      BY <1>1, <1>3, <1>5, <1>6, <2>1, QuietThread
  <1>8. CASE DeleteTask(r, t)
    <2>1. docs' = docs \ req[r].ids
      BY <1>8 DEF DeleteTask
    <2>2. ASSUME NEW c \in (docs' \intersect Comments) \ late, NEW p \in parent[c]
          PROVE  p \in docs' /\ (p \in req'[r].ids => c \in req'[r].ids)
      <3>1. p \in docs /\ (p \in req[r].ids => c \in req[r].ids) /\ c \notin req[r].ids
        BY <2>1, <2>2 DEF ThreadInv, Whole
      <3> QED
        BY <1>5, <2>1, <3>1
    <2> QED
      BY <1>1, <1>3, <1>5, <1>6, <2>1, <2>2, ThreadFrame
  <1> QED
    BY <1>7, <1>8

LEMMA DeletionThreads ==
  ASSUME Types, ThreadInv, Deletion
  PROVE  ThreadInv'
  <1>1. UNCHANGED <<parent, req, late>> /\ docs' \in {docs, {}}
    BY DEF Deletion, JobStep, MarkDeleting, JobRead, JobFindLogs, JobDeleteLogs, JobRemoveNotes, JobUncount, JobDelete,
           JobRemovePost, thread
  <1> QED
    BY <1>1 DEF ThreadInv, Sensible, Created, Whole, At

LEMMA NextThreads == Types /\ ThreadInv /\ [Next]_vars => ThreadInv'
  <1> SUFFICES ASSUME Types, ThreadInv, [Next]_vars PROVE ThreadInv'
    OBVIOUS
  <1>1. CASE \E r \in Requests, op \in Op, s \in Reactions : React(r, op, s)
    BY <1>1, SendThreads
  <1>2. CASE \E r \in Requests, u \in Users, to \in {{}} \union {{c} : c \in docs \intersect Comments} : Say(r, u, to)
    BY <1>2, SendThreads
  <1>3. CASE \E r \in Requests, c \in docs \intersect Comments : Unsay(r, c)
    BY <1>3, SendThreads
  <1>4. CASE \E r \in Requests : Step(r)
    BY <1>4, ReadsThreads, WritesThreads, TaskThreads DEF Step, Reads, Writes
  <1>5. CASE Deletion
    BY <1>5, DeletionThreads
  <1>6. CASE UNCHANGED vars
    BY <1>6 DEF vars, thread, ThreadInv, Sensible, Created, Whole, At
  <1> QED
    BY <1>1, <1>2, <1>3, <1>4, <1>5, <1>6 DEF Next, Deletion

LEMMA ThreadsSuffice == ThreadInv => ThreadsAreWhole
  BY DEF ThreadInv, Whole, ThreadsAreWhole

\* A reply that was not created too late stands below a comment that is there, whatever
\* requests and the cleanup do at the same time; it does so even while they are at work.
THEOREM ThreadsStayWhole == Spec => []ThreadsAreWhole
  BY InitType, NextType, InitThreads, NextThreads, ThreadsSuffice, PTL DEF Spec

----------------------------------------------------------------------------
(* Traces.                                                                 *)

\* The job has not read the comments yet.
Unread == post = "visible" \/ job.pc = "queued"

Noted(s) == notes[s] > 0 /\ s \notin late
Listed(s) == s \in logs /\ s \notin late

Unnotes(r) == \E t \in req[r].tasks : t.what = "unnote" /\ Kind(t.of) = "comment"
Unlogs(r, c) == \E t \in req[r].tasks : t.what = "unlog" /\ t.of = c
Deleted(c) == \E r \in Requests : c \in req[r].ids

\* Whoever deletes a comment that has a trace is still to remove that trace.
Removes(r) == \A c \in req[r].ids : (Noted(c) => Unnotes(r)) /\ (Listed(c) => Unlogs(r, c))

\* A comment with a trace is there for the job to read, or has somebody who removes it.
NoteKept(c) == \/ c \in docs /\ Unread
               \/ Deleted(c)
               \/ "notes" \in job.tasks /\ c \in job.ids

LogKept(c) == \/ c \in docs /\ Unread
              \/ Deleted(c)
              \/ "find logs" \in job.tasks /\ c \in job.ids
              \/ "delete logs" \in job.tasks /\ c \in job.found

TraceInv ==
    /\ \A r \in Requests : Removes(r)
    /\ \A c \in Comments : (Noted(c) => NoteKept(c)) /\ (Listed(c) => LogKept(c))
    /\ \A s \in Reactions : Noted(s) => Unread \/ "notes" \in job.tasks
    /\ job.pc # "traces" => job.tasks = {} /\ job.users = {}
    /\ "find logs" \in job.tasks => "delete logs" \notin job.tasks

LEMMA InitTraces == Init => TraceInv
  <1> SUFFICES ASSUME Init PROVE TraceInv
    OBVIOUS
  <1>1. PICK said \in {{}, {Top, Reply}} : said \subseteq docs /\ logs = said
    BY DEF Init
  <1>2. Unread /\ job.tasks = {} /\ job.users = {} /\ \A r \in Requests : req[r].ids = {}
    BY DEF Init, Unread, NoJob, NoRequest
  <1>3. \A s \in Subjects : notes[s] > 0 => s \in docs
    BY DEF Init
  <1>4. \A c \in Comments : c \in Subjects
    BY CommentSubjects
  <1> QED
    BY <1>1, <1>2, <1>3, <1>4 DEF TraceInv, Removes, NoteKept, LogKept, Noted, Listed

\* What is traced now that was not, and is not late, was created in time.
Fresh(s) == Visible /\ (s \in Comments => s \in docs /\ ~Deleted(s))

\* A step of a request: it traces what is fresh, deletes what it has launched, removes the
\* traces of all it launches, and is not done before it has.
LEMMA TraceFrame ==
  ASSUME Types, TraceInv, UNCHANGED post_,
         NEW r \in Requests, \A q \in Requests \ {r} : req'[q] = req[q],
         \A s \in Subjects : Noted(s)' => Noted(s) \/ Fresh(s),
         \A c \in Comments : Listed(c)' => Listed(c) \/ Fresh(c),
         \A c \in docs \intersect Comments : c \in docs' \/ c \in req[r].ids,
         \A c \in req'[r].ids : c \in req[r].ids \/ (Unnotes(r)' /\ Unlogs(r, c)'),
         \A c \in req[r].ids : (Noted(c)' => Unnotes(r)') /\ (Listed(c)' => Unlogs(r, c)'),
         req[r].ids # {} /\ req'[r].tasks # {} => req'[r].ids = req[r].ids
  PROVE  TraceInv'
  <1>0. /\ UNCHANGED <<post, job>> /\ Unread' = Unread
        /\ \A q \in Requests : req[q].ids \in SUBSET Comments /\ req[q].ids \in SUBSET Subjects
    BY CommentSubjects, ReqType DEF post_, Unread
  <1>1. ASSUME NEW q \in Requests PROVE Removes(q)'
    <2>1. CASE q = r
      <3>1. ASSUME NEW c \in req'[r].ids
            PROVE  (Noted(c)' => Unnotes(r)') /\ (Listed(c)' => Unlogs(r, c)')
        BY <3>1
      <3> QED
        BY <2>1, <3>1 DEF Removes
    <2>2. CASE q # r
      <3>1. req'[q] = req[q] /\ Removes(q)
        BY <2>2 DEF TraceInv
      <3>2. ASSUME NEW c \in req'[q].ids
            PROVE  (Noted(c)' => Unnotes(q)') /\ (Listed(c)' => Unlogs(q, c)')
        <4>1. c \in req[q].ids /\ c \in Comments /\ c \in Subjects /\ ~Fresh(c)
          BY <1>0, <3>1, <3>2 DEF Fresh, Deleted
        <4>2. (Noted(c)' => Noted(c)) /\ (Listed(c)' => Listed(c))
          BY <4>1
        <4> QED
          BY <3>1, <4>1, <4>2 DEF Removes, Unnotes, Unlogs
      <3> QED
        BY <3>2 DEF Removes
    <2> QED
      BY <2>1, <2>2
  <1>2. ASSUME NEW c \in Comments, Deleted(c), Noted(c)' \/ Listed(c)' PROVE Deleted(c)'
    <2>1. PICK q \in Requests : c \in req[q].ids
      BY <1>2 DEF Deleted
    <2>2. CASE q = r
      <3>1. req'[r].tasks # {}
        BY <1>2, <2>1, <2>2 DEF Unnotes, Unlogs
      <3> QED
        BY <2>1, <2>2, <3>1 DEF Deleted
    <2>3. CASE q # r
      BY <2>1, <2>3 DEF Deleted
    <2> QED
      BY <2>2, <2>3
  <1>3. ASSUME NEW c \in Comments, c \in docs, Unread, Noted(c)' \/ Listed(c)'
        PROVE  (c \in docs' /\ Unread') \/ Deleted(c)'
    <2>1. CASE c \in docs'
      BY <1>0, <1>3, <2>1
    <2>2. CASE c \in req[r].ids
      BY <1>2, <1>3, <2>2 DEF Deleted
    <2> QED
      BY <1>3, <2>1, <2>2
  <1>4. ASSUME NEW c \in Comments, Noted(c)' PROVE NoteKept(c)'
    <2>1. (c \in docs /\ Unread) \/ Deleted(c) \/ ("notes" \in job.tasks /\ c \in job.ids)
      <3>1. CASE Fresh(c)
        BY <3>1 DEF Fresh, Visible, Unread
      <3>2. CASE Noted(c)
        BY <3>2 DEF TraceInv, NoteKept
      <3> QED
        BY <1>4, <3>1, <3>2, CommentSubjects
    <2> QED
      BY <1>0, <1>2, <1>3, <1>4, <2>1 DEF NoteKept
  <1>5. ASSUME NEW c \in Comments, Listed(c)' PROVE LogKept(c)'
    <2>1. \/ c \in docs /\ Unread
          \/ Deleted(c)
          \/ "find logs" \in job.tasks /\ c \in job.ids
          \/ "delete logs" \in job.tasks /\ c \in job.found
      <3>1. CASE Fresh(c)
        BY <3>1 DEF Fresh, Visible, Unread
      <3>2. CASE Listed(c)
        BY <3>2 DEF TraceInv, LogKept
      <3> QED
        BY <1>5, <3>1, <3>2
    <2> QED
      BY <1>0, <1>2, <1>3, <1>5, <2>1 DEF LogKept
  <1>6. ASSUME NEW s \in Reactions, Noted(s)' PROVE (Unread \/ "notes" \in job.tasks)'
    <2>1. Noted(s) \/ Fresh(s)
      BY <1>6, CommentSubjects
    <2> QED
      BY <1>0, <2>1 DEF TraceInv, Fresh, Visible, Unread
  <1> QED
    BY <1>0, <1>1, <1>4, <1>5, <1>6 DEF TraceInv

\* A step of a request that has launched nothing.
LEMMA QuietTrace ==
  ASSUME Types, ThreadInv, TraceInv, UNCHANGED post_,
         NEW r \in Requests, \A q \in Requests \ {r} : req'[q] = req[q], req[r].pc # "tasks",
         \A s \in Subjects : Noted(s)' => Noted(s) \/ Fresh(s),
         logs' = logs, late \subseteq late', docs \intersect Comments \subseteq docs',
         \A c \in req'[r].ids : Unnotes(r)' /\ Unlogs(r, c)'
  PROVE  TraceInv'
  <1>1. req[r].ids = {}
    BY DEF ThreadInv, Sensible
  <1>2. \A c \in Comments : Listed(c)' => Listed(c)
    BY DEF Listed
  <1> QED
    BY <1>1, <1>2, TraceFrame

LEMMA SendTraces ==
  ASSUME Types, ThreadInv, TraceInv, NEW r \in Requests,
         \/ \E op \in Op, s \in Reactions : React(r, op, s)
         \/ \E u \in Users, to \in SUBSET Comments : Say(r, u, to)
         \/ \E c \in Comments : Unsay(r, c)
  PROVE  TraceInv'
  <1>1. At(r, "idle") /\ UNCHANGED <<post_, docs, late, notes, logs>>
    BY DEF React, Say, Unsay, contributions
  <1>2. \A q \in Requests \ {r} : req'[q] = req[q]
    BY DEF React, Say, Unsay, Types, ReqsOK
  <1>3. req[r] \in Request /\ req[r].ids = {}
    BY <1>1, ReqType DEF ThreadInv, Sensible, At, GoodRequest
  <1>4. req'[r].ids = {}
    <2>1. ASSUME NEW op \in Op, NEW s \in Reactions, React(r, op, s) PROVE req'[r].ids = {}
      BY <1>3, <2>1 DEF React, Types, ReqsOK, Request
    <2>2. ASSUME NEW u \in Users, NEW to \in SUBSET Comments, Say(r, u, to) PROVE req'[r].ids = {}
      BY <1>3, <2>2 DEF Say, Types, ReqsOK, Request
    <2>3. ASSUME NEW c \in Comments, Unsay(r, c) PROVE req'[r].ids = {}
      BY <1>3, <2>3 DEF Unsay, Types, ReqsOK, Request
    <2> QED
      BY <2>1, <2>2, <2>3
  <1>5. \A s \in Subjects : Noted(s)' => Noted(s)
    BY <1>1 DEF Noted
  <1> QED
    BY <1>1, <1>2, <1>4, <1>5, QuietTrace DEF At

\* The tasks of a deletion remove the traces of all it deletes.
LEMMA DeletionRemoves ==
  ASSUME NEW c \in Comments, NEW ids
  PROVE  /\ \E t \in DeleteTasks(c, ids) : t.what = "unnote" /\ Kind(t.of) = "comment"
         /\ \A d \in ids : \E t \in DeleteTasks(c, ids) : t.what = "unlog" /\ t.of = d
  <1>1. Kind(c) = "comment"
    BY CommentSubjects, CommentKind
  <1>2. [what |-> "unnote", of |-> c] \in DeleteTasks(c, ids)
    BY DEF DeleteTasks, Tasks
  <1>3. ASSUME NEW d \in ids PROVE [what |-> "unlog", of |-> d] \in DeleteTasks(c, ids)
    BY DEF DeleteTasks, Tasks
  <1> QED
    BY <1>1, <1>2, <1>3

LEMMA ReadsTraces ==
  ASSUME Types, ThreadInv, TraceInv, NEW r \in Requests, Reads(r)
  PROVE  TraceInv'
  <1> USE ReqType
  <1>1. UNCHANGED <<post_, docs, late, notes, logs>> /\ req[r].pc # "tasks"
    BY DEF Reads, Refuse, FindTarget, FindRepost, FindTargetAgain, FindParent, FindComment, FindReplies, contributions, At
  <1>2. \A q \in Requests \ {r} : req'[q] = req[q]
    BY OthersKept
       DEF Types, Reads, Refuse, FindTarget, FindRepost, FindTargetAgain, FindParent, FindComment, FindReplies
  <1>3. \A s \in Subjects : Noted(s)' => Noted(s)
    BY <1>1 DEF Noted
  <1>4. req[r].ids = {}
    BY <1>1 DEF ThreadInv, Sensible
  <1>5. \A c \in req'[r].ids : Unnotes(r)' /\ Unlogs(r, c)'
    <2>1. CASE Finish(r) \/ \E pc : Goto(r, pc)
      BY <1>4, <2>1, OwnStep DEF NoRequest
    <2>2. CASE FindComment(r) /\ ~Finish(r) /\ ~Goto(r, "replies")
      <3> DEFINE c == req[r].of
                 tasks == DeleteTasks(c, {c}) \union Tasks({"unreply"}, parent[c])
      <3>1. c \in Comments /\ Launch(r, {c}, tasks)
        BY <2>2 DEF FindComment, At, GoodRequest, AboutComment
      <3>3. \A t \in DeleteTasks(c, {c}) : t \in tasks
        OBVIOUS
      <3> HIDE DEF tasks, c
      <3>2. req'[r].ids = {c} /\ req'[r].tasks = tasks
        BY <3>1, OwnStep
      <3> QED
        BY <3>1, <3>2, <3>3, DeletionRemoves DEF Unnotes, Unlogs
    <2>3. CASE FindReplies(r)
      <3> DEFINE ids == CommentsToDelete(req[r].of)
      <3>1. req[r].of \in Comments /\ Launch(r, ids, DeleteTasks(req[r].of, ids))
        BY <2>3 DEF FindReplies, At, GoodRequest, AboutComment
      <3>2. req'[r].ids = ids /\ req'[r].tasks = DeleteTasks(req[r].of, ids)
        BY <3>1, OwnStep
      <3> HIDE DEF ids
      <3> QED
        BY <3>1, <3>2, DeletionRemoves DEF Unnotes, Unlogs
    <2>4. \/ Finish(r) \/ \E pc : Goto(r, pc)
          \/ FindComment(r) /\ ~Finish(r) /\ ~Goto(r, "replies")
          \/ FindReplies(r)
      BY DEF Reads, Refuse, FindTarget, FindRepost, FindTargetAgain, FindParent, FindComment
    <2> QED
      BY <2>1, <2>2, <2>3, <2>4
  <1> QED
    BY <1>1, <1>2, <1>3, <1>5, QuietTrace

LEMMA WritesTraces ==
  ASSUME Types, ThreadInv, TraceInv, NEW r \in Requests, Writes(r)
  PROVE  TraceInv'
  <1> USE ReqType
  <1>0. Sensible(r) /\ notes \in [Subjects -> Nat]
    BY DEF ThreadInv, Types, Collections
  <1>1. /\ UNCHANGED <<post_, logs>> /\ late \subseteq late'
        /\ req[r].pc \in {"create", "count", "undo", "note", "drop", "uncount", "unnote"}
    BY LeaveKeeps
       DEF Writes, CreateReaction, CountReaction, UndoLike, SendNote, DropReaction, UncountRepost, RemoveNote, CreateComment,
           contributions, At
  <1>2. \/ Finish(r) \/ (\E pc : Goto(r, pc)) \/ \E tasks : Launch(r, {}, tasks)
    BY DEF Writes, CreateReaction, CountReaction, UndoLike, SendNote, DropReaction, UncountRepost, RemoveNote, CreateComment
  <1>3. \A q \in Requests \ {r} : req'[q] = req[q]
    BY <1>2, OthersKept
  <1>4. req'[r].ids = {}
    BY <1>0, <1>1, <1>2, OwnStep DEF Sensible, NoRequest
  <1>5. docs \intersect Comments \subseteq docs'
    <2>1. CASE UndoLike(r) \/ DropReaction(r)
      <3>1. req[r].of \in Reactions
        BY <1>0, <2>1 DEF UndoLike, DropReaction, Sensible, At
      <3> QED
        BY <2>1, <3>1, ReactionsApart DEF UndoLike, DropReaction
    <2>2. CASE ~UndoLike(r) /\ ~DropReaction(r)
      BY <2>2 DEF Writes, CreateReaction, CountReaction, SendNote, UncountRepost, RemoveNote, CreateComment
    <2> QED
      BY <2>1, <2>2
  <1>6. ASSUME NEW s \in Subjects, Noted(s)'
        PROVE  Noted(s) \/ Fresh(s)
    <2>1. CASE SendNote(r)
      <3>1. req[r].of \in Reactions
        BY <1>0, <2>1 DEF SendNote, Sensible, At
      <3>2. CASE s = req[r].of /\ notes' # notes
        <4>1. Visible
          BY <1>6, <2>1, <3>2 DEF SendNote, Leave, Noted
        <4> QED
          BY <3>1, <3>2, <4>1, ReactionsApart DEF Fresh
      <3>3. CASE s # req[r].of \/ notes' = notes
        <4>1. notes'[s] = notes[s]
          BY <1>0, <2>1, <3>3 DEF SendNote
        <4> QED
          BY <1>1, <1>6, <4>1 DEF Noted
      <3> QED
        BY <3>2, <3>3
    <2>2. CASE ~SendNote(r)
      <3>1. notes'[s] <= notes[s] /\ notes'[s] \in Nat /\ notes[s] \in Nat
        BY <1>0, <2>2
           DEF Writes, CreateReaction, CountReaction, UndoLike, DropReaction, UncountRepost, RemoveNote, CreateComment, TakeOne
      <3> QED
        BY <1>1, <1>6, <3>1 DEF Noted
    <2> QED
      BY <2>1, <2>2
  <1> QED
    BY <1>1, <1>3, <1>4, <1>5, <1>6, QuietTrace

LEMMA TaskTraces ==
  ASSUME Types, ThreadInv, TraceInv, NEW r \in Requests, DoTask(r)
  PROVE  TraceInv'
  <1> USE ReqType
  <1>0. PICK t \in req[r].tasks :
          \/ CountTask(r, t) \/ ReplyTask(r, t) \/ NoteTask(r, t) \/ LogTask(r, t) \/ ScoreTask(r, t)
          \/ DeleteTask(r, t) \/ UnlogTask(r, t) \/ UnnoteTask(r, t)
    BY DEF DoTask
  <1>1. UNCHANGED post_ /\ late \subseteq late' /\ docs \subseteq docs' \union req[r].ids
    BY <1>0, LeaveKeeps
       DEF DoTask, CountTask, ReplyTask, NoteTask, LogTask, ScoreTask, DeleteTask, UnlogTask, UnnoteTask
  <1>2. PICK tasks : Resume(r, tasks) /\ Rest(r, t) \subseteq tasks
    BY <1>0 DEF CountTask, ReplyTask, NoteTask, LogTask, ScoreTask, DeleteTask, UnlogTask, UnnoteTask
  <1>3. \A q \in Requests \ {r} : req'[q] = req[q]
    BY <1>2, OthersKept
  <1>4. req'[r].tasks = tasks /\ (tasks # {} => req'[r].ids = req[r].ids) /\ (tasks = {} => req'[r].ids = {})
    BY <1>2, OwnStep DEF NoRequest
  <1>5. /\ \A q \in req[r].tasks : q = t \/ q \in tasks
        /\ t.of \in Subjects /\ notes \in [Subjects -> Nat] /\ \A c \in req[r].ids : c \in Subjects
    BY <1>2, CommentSubjects DEF Rest, Task, Types, Collections
  <1>6. ASSUME NEW s \in Subjects, Noted(s)'
        PROVE  Noted(s) \/ Fresh(s)
    <2>1. CASE NoteTask(r, t)
      <3>1. CASE s = t.of /\ notes' # notes
        <4>1. ~Doomed(t.of)
          BY <1>6, <2>1, <3>1 DEF NoteTask, Leave, Noted
        <4> QED
          BY <3>1, <4>1 DEF Fresh, Doomed, Deleted
      <3>2. CASE s # t.of \/ notes' = notes
        <4>1. notes'[s] = notes[s]
          BY <1>5, <2>1, <3>2 DEF NoteTask
        <4> QED
          BY <1>1, <1>6, <4>1 DEF Noted
      <3> QED
        BY <3>1, <3>2
    <2>2. CASE ~NoteTask(r, t)
      <3>1. notes'[s] <= notes[s] /\ notes'[s] \in Nat /\ notes[s] \in Nat
        BY <1>0, <1>5, <2>2
           DEF CountTask, ReplyTask, LogTask, ScoreTask, DeleteTask, UnlogTask, UnnoteTask, TakeOne
      <3> QED
        BY <1>1, <1>6, <3>1 DEF Noted
    <2> QED
      BY <2>1, <2>2
  <1>7. ASSUME NEW c \in Comments, Listed(c)'
        PROVE  Listed(c) \/ Fresh(c)
    <2>1. CASE c \in logs
      BY <1>1, <1>7, <2>1 DEF Listed
    <2>2. CASE c \notin logs
      <3>1. LogTask(r, t) /\ c = t.of
        BY <1>0, <1>7, <2>2
           DEF CountTask, ReplyTask, NoteTask, LogTask, ScoreTask, DeleteTask, UnlogTask, UnnoteTask, contributions, Listed
      <3>2. ~Doomed(c)
        BY <1>7, <3>1 DEF LogTask, Leave, Listed
      <3> QED
        BY <3>2 DEF Fresh, Doomed, Deleted
    <2> QED
      BY <2>1, <2>2
  <1>8. ASSUME NEW c \in req[r].ids
        PROVE  (Noted(c)' => Unnotes(r)') /\ (Listed(c)' => Unlogs(r, c)')
    <2>0. c \in Comments /\ ~Fresh(c) /\ Removes(r)
      BY <1>8 DEF Fresh, Deleted, TraceInv
    <2>1. ASSUME Noted(c)' PROVE Unnotes(r)'
      <3>1. Noted(c)
        BY <1>6, <2>0, <2>1, CommentSubjects
      <3>2. PICK q \in req[r].tasks : q.what = "unnote" /\ Kind(q.of) = "comment"
        BY <1>8, <2>0, <3>1 DEF Removes, Unnotes
      <3>3. q # t
        <4>1. CASE UnnoteTask(r, t)
          BY <1>5, <1>8, <2>1, <3>2, <4>1 DEF UnnoteTask, Noted
        <4>2. CASE ~UnnoteTask(r, t)
          BY <1>0, <3>2, <4>2 DEF CountTask, ReplyTask, NoteTask, LogTask, ScoreTask, DeleteTask, UnlogTask
        <4> QED
          BY <4>1, <4>2
      <3> QED
        BY <1>4, <1>5, <3>2, <3>3 DEF Unnotes
    <2>2. ASSUME Listed(c)' PROVE Unlogs(r, c)'
      <3>1. Listed(c)
        BY <1>7, <2>0, <2>2
      <3>2. PICK q \in req[r].tasks : q.what = "unlog" /\ q.of = c
        BY <1>8, <2>0, <3>1 DEF Removes, Unlogs
      <3>3. q # t
        <4>1. CASE UnlogTask(r, t)
          BY <2>2, <3>2, <4>1 DEF UnlogTask, Listed
        <4>2. CASE ~UnlogTask(r, t)
          BY <1>0, <3>2, <4>2 DEF CountTask, ReplyTask, NoteTask, LogTask, ScoreTask, DeleteTask, UnnoteTask
        <4> QED
          BY <4>1, <4>2
      <3> QED
        BY <1>4, <1>5, <3>2, <3>3 DEF Unlogs
    <2> QED
      BY <2>1, <2>2
  <1>9. \A c \in req'[r].ids : c \in req[r].ids
    BY <1>4
  <1> QED
    BY <1>1, <1>3, <1>4, <1>6, <1>7, <1>8, <1>9, TraceFrame

\* What the job has left to do once it goes on.
LEMMA JobGoes ==
  ASSUME NEW next \in Job, JobGoesOn(next)
  PROVE  /\ job'.tasks = next.tasks /\ job'.users = next.users
         /\ next.tasks # {} => job' = next
         /\ job'.pc # "traces" => (job'.tasks = {} /\ job'.users = {}) \/ next.pc # "traces"
         /\ job'.pc = "queued" => next.pc = "queued"
  BY DEF JobGoesOn, NoJob, Job

\* A step of the job that reads and removes traces.
LEMMA JobFrame ==
  ASSUME Types, TraceInv, UNCHANGED <<post, docs, req, late>>, job.pc = "traces",
         NEW next \in Job, JobGoesOn(next), next.pc = "traces", next.ids = job.ids,
         next.found = job.found \/ "delete logs" \notin job.tasks,
         "find logs" \in next.tasks => "delete logs" \notin next.tasks,
         \A s \in Subjects : notes'[s] > 0 => notes[s] > 0,
         \A s \in Subjects : notes'[s] > 0 /\ "notes" \in job.tasks =>
            "notes" \in next.tasks \/ s \notin Reactions \union job.ids,
         logs' \subseteq logs,
         \A c \in logs' : c \in job.ids /\ "find logs" \in job.tasks =>
            "find logs" \in next.tasks \/ ("delete logs" \in next.tasks /\ c \in next.found),
         \A c \in logs' : c \in job.found /\ "delete logs" \in job.tasks =>
            "delete logs" \in next.tasks /\ next.found = job.found
  PROVE  TraceInv'
  <1>1. /\ job'.tasks = next.tasks /\ job'.users = next.users /\ (next.tasks # {} => job' = next)
        /\ job'.pc # "traces" => job'.tasks = {} /\ job'.users = {}
    BY JobGoes
  <1>2. \A s \in Subjects : Noted(s)' => Noted(s)
    BY DEF Noted
  <1>3. \A c \in Comments : Listed(c)' => Listed(c)
    BY DEF Listed
  <1>4. ASSUME NEW r \in Requests PROVE Removes(r)'
    <2>1. \A c \in req[r].ids : c \in Comments /\ c \in Subjects
      BY ReqType, CommentSubjects
    <2> QED
      BY <1>2, <1>3, <2>1 DEF TraceInv, Removes, Unnotes, Unlogs
  <1>5. Unread => Unread'
    BY DEF Unread
  <1>6. ASSUME NEW c \in Comments, Noted(c)' PROVE NoteKept(c)'
    <2>1. c \in Subjects /\ NoteKept(c) /\ notes'[c] > 0
      BY <1>2, <1>6, CommentSubjects DEF TraceInv, Noted
    <2>2. CASE "notes" \in job.tasks /\ c \in job.ids
      BY <1>1, <2>1, <2>2 DEF NoteKept
    <2>3. CASE ~("notes" \in job.tasks /\ c \in job.ids)
      BY <1>5, <2>1, <2>3 DEF NoteKept, Deleted
    <2> QED
      BY <2>2, <2>3
  <1>7. ASSUME NEW c \in Comments, Listed(c)' PROVE LogKept(c)'
    <2>1. LogKept(c) /\ c \in logs'
      BY <1>3, <1>7 DEF TraceInv, Listed
    <2>2. CASE "find logs" \in job.tasks /\ c \in job.ids
      BY <1>1, <2>1, <2>2 DEF LogKept
    <2>3. CASE "delete logs" \in job.tasks /\ c \in job.found
      BY <1>1, <2>1, <2>3 DEF LogKept
    <2>4. CASE (c \in docs /\ Unread) \/ Deleted(c)
      BY <1>5, <2>4 DEF LogKept, Deleted
    <2> QED
      BY <2>1, <2>2, <2>3, <2>4 DEF LogKept
  <1>8. ASSUME NEW s \in Reactions, Noted(s)' PROVE (Unread \/ "notes" \in job.tasks)'
    <2>1. s \in Subjects /\ notes'[s] > 0 /\ (Unread \/ "notes" \in job.tasks)
      BY <1>2, <1>8, CommentSubjects DEF TraceInv, Noted
    <2> QED
      BY <1>1, <1>5, <2>1
  <1> QED
    BY <1>1, <1>4, <1>6, <1>7, <1>8 DEF TraceInv

LEMMA JobTraces ==
  ASSUME Types, GoneInv, TraceInv,
         JobFindLogs \/ JobDeleteLogs \/ JobRemoveNotes \/ \E u \in Users : JobUncount(u)
  PROVE  TraceInv'
  <1>0. job \in Job /\ notes \in [Subjects -> Nat]
    BY DEF Types, JobOK, Collections
  <1>1. UNCHANGED <<post, docs, req, late>> /\ job.pc = "traces"
    BY DEF JobFindLogs, JobDeleteLogs, JobRemoveNotes, JobUncount, TraceInv
  <1>2. CASE JobFindLogs
    <2> DEFINE found == logs \intersect job.ids
               next == [job EXCEPT !.found = found,
                                   !.tasks = (job.tasks \ {"find logs"}) \union (IF found = {} THEN {} ELSE {"delete logs"})]
    <2>1. /\ next \in Job /\ next.pc = job.pc /\ next.ids = job.ids /\ next.found = found
          /\ next.tasks = (job.tasks \ {"find logs"}) \union (IF found = {} THEN {} ELSE {"delete logs"})
      BY <1>0 DEF Job
    <2>2. JobGoesOn(next) /\ UNCHANGED <<notes, logs>> /\ "find logs" \in job.tasks
      BY <1>2 DEF JobFindLogs, contributions
    <2>3. "delete logs" \notin job.tasks
      BY <2>2 DEF TraceInv
    <2>4. \A c \in logs' : c \in job.ids => "delete logs" \in next.tasks /\ c \in next.found
      BY <2>1, <2>2
    <2> HIDE DEF next
    <2> QED
      BY <1>1, <2>1, <2>2, <2>3, <2>4, JobFrame
  <1>3. CASE JobDeleteLogs
    <2> DEFINE next == [job EXCEPT !.tasks = job.tasks \ {"delete logs"}, !.users = {u \in Users : FoundOf(u) # {}}]
    <2>1. /\ next \in Job /\ next.pc = job.pc /\ next.ids = job.ids /\ next.found = job.found
          /\ next.tasks = job.tasks \ {"delete logs"}
      BY <1>0 DEF Job
    <2>2. JobGoesOn(next) /\ notes' = notes /\ logs' = logs \ job.found /\ "delete logs" \in job.tasks
      BY <1>3 DEF JobDeleteLogs
    <2>3. "find logs" \notin job.tasks
      BY <2>2 DEF TraceInv
    <2> HIDE DEF next
    <2> QED
      BY <1>1, <2>1, <2>2, <2>3, JobFrame
  <1>4. CASE JobRemoveNotes
    <2> DEFINE next == [job EXCEPT !.tasks = job.tasks \ {"notes"}]
    <2>1. /\ next \in Job /\ next.pc = job.pc /\ next.ids = job.ids /\ next.found = job.found
          /\ next.tasks = job.tasks \ {"notes"}
      BY <1>0 DEF Job
    <2>2. JobGoesOn(next) /\ logs' = logs
      BY <1>4 DEF JobRemoveNotes, contributions
    <2>3. \A s \in Subjects : notes'[s] > 0 => notes[s] > 0 /\ s \notin Reactions \union job.ids
      BY <1>0, <1>4 DEF JobRemoveNotes
    <2> HIDE DEF next
    <2> QED
      BY <1>1, <2>1, <2>2, <2>3, JobFrame DEF TraceInv
  <1>5. CASE \E u \in Users : JobUncount(u)
    <2>0. PICK u \in Users : JobUncount(u)
      BY <1>5
    <2> DEFINE next == [job EXCEPT !.users = job.users \ {u}]
    <2>1. /\ next \in Job /\ next.pc = job.pc /\ next.ids = job.ids /\ next.found = job.found
          /\ next.tasks = job.tasks
      BY <1>0 DEF Job
    <2>2. JobGoesOn(next) /\ UNCHANGED <<notes, logs>>
      BY <2>0 DEF JobUncount
    <2> HIDE DEF next
    <2> QED
      BY <1>1, <2>1, <2>2, JobFrame DEF TraceInv
  <1> QED
    BY <1>2, <1>3, <1>4, <1>5

LEMMA DeletionTraces ==
  ASSUME Types, GoneInv, TraceInv, Deletion
  PROVE  TraceInv'
  <1>0. UNCHANGED <<req, late>>
    BY DEF Deletion, JobStep, MarkDeleting, JobRead, JobFindLogs, JobDeleteLogs, JobRemoveNotes, JobUncount, JobDelete,
           JobRemovePost
  <1>1. CASE MarkDeleting
    <2>1. job.tasks = {} /\ job'.tasks = {} /\ job'.users = {} /\ Unread' /\ UNCHANGED <<docs, notes, logs>>
      BY <1>1 DEF MarkDeleting, GoneInv, JobFits, NoJob, Unread, Visible, contributions
    <2> QED
      BY <1>0, <2>1 DEF TraceInv, Removes, NoteKept, LogKept, Noted, Listed, Unnotes, Unlogs, Deleted
  <1>2. CASE JobRead
    <2>1. /\ job.tasks = {} /\ job'.pc = "traces" /\ job'.tasks = {"find logs", "notes"} /\ job'.ids = docs \intersect Comments
          /\ UNCHANGED <<docs, notes, logs>>
      BY <1>2 DEF JobRead, NoJob, TraceInv, contributions
    <2>2. ASSUME NEW r \in Requests PROVE Removes(r)'
      <3>1. Removes(r)
        BY DEF TraceInv
      <3> QED
        BY <1>0, <2>1, <3>1 DEF Removes, Noted, Listed, Unnotes, Unlogs
    <2>3. ASSUME NEW c \in Comments, Noted(c)' PROVE NoteKept(c)'
      <3>1. NoteKept(c)
        BY <1>0, <2>1, <2>3 DEF TraceInv, Noted
      <3> QED
        BY <1>0, <2>1, <3>1 DEF NoteKept, Deleted
    <2>4. ASSUME NEW c \in Comments, Listed(c)' PROVE LogKept(c)'
      <3>1. LogKept(c)
        BY <1>0, <2>1, <2>4 DEF TraceInv, Listed
      <3> QED
        BY <1>0, <2>1, <3>1 DEF LogKept, Deleted
    <2> QED
      BY <2>1, <2>2, <2>3, <2>4 DEF TraceInv
  <1>3. CASE JobFindLogs \/ JobDeleteLogs \/ JobRemoveNotes \/ \E u \in Users : JobUncount(u)
    BY <1>3, JobTraces
  <1>4. CASE JobDelete \/ JobRemovePost
    <2>1. ~Unread /\ job.tasks = {} /\ job'.tasks = {} /\ job'.users = {} /\ UNCHANGED <<notes, logs>>
      <3>1. job.pc \in {"documents", "post"} /\ (\E pc : job' = NoJob(pc)) /\ UNCHANGED <<notes, logs>>
        BY <1>4 DEF JobDelete, JobRemovePost, contributions
      <3>2. ~Unread /\ job.tasks = {}
        BY <3>1 DEF GoneInv, JobFits, Unread, TraceInv
      <3> QED
        BY <3>1, <3>2 DEF NoJob
    <2> QED
      BY <1>0, <2>1 DEF TraceInv, Removes, NoteKept, LogKept, Noted, Listed, Unnotes, Unlogs, Deleted
  <1> QED
    BY <1>1, <1>2, <1>3, <1>4 DEF Deletion, JobStep

LEMMA NextTraces == Types /\ GoneInv /\ ThreadInv /\ TraceInv /\ [Next]_vars => TraceInv'
  <1> SUFFICES ASSUME Types, GoneInv, ThreadInv, TraceInv, [Next]_vars PROVE TraceInv'
    OBVIOUS
  <1>1. CASE \E r \in Requests, op \in Op, s \in Reactions : React(r, op, s)
    BY <1>1, SendTraces
  <1>2. CASE \E r \in Requests, u \in Users, to \in {{}} \union {{c} : c \in docs \intersect Comments} : Say(r, u, to)
    BY <1>2, SendTraces
  <1>3. CASE \E r \in Requests, c \in docs \intersect Comments : Unsay(r, c)
    BY <1>3, SendTraces
  <1>4. CASE \E r \in Requests : Step(r)
    BY <1>4, ReadsTraces, WritesTraces, TaskTraces DEF Step, Reads, Writes
  <1>5. CASE Deletion
    BY <1>5, DeletionTraces
  <1>6. CASE UNCHANGED vars
    BY <1>6 DEF vars, post_, contributions, TraceInv, Removes, NoteKept, LogKept, Noted, Listed, Unread, Unnotes, Unlogs,
                Deleted
  <1> QED
    BY <1>1, <1>2, <1>3, <1>4, <1>5, <1>6 DEF Next, Deletion

LEMMA TracesSuffice == Types /\ ThreadInv /\ TraceInv => NoTraceLeft
  <1> SUFFICES ASSUME Types, ThreadInv, TraceInv, Quiet, NEW s \in Subjects \ late,
                      IF s \in Comments THEN s \notin docs ELSE post = "gone"
               PROVE  notes[s] = 0 /\ s \notin logs
    BY DEF NoTraceLeft
  <1>1. job.tasks = {} /\ job.pc = "none" /\ ~Deleted(s)
    <2>1. \A r \in Requests : req[r].pc # "tasks"
      BY DEF Quiet, At
    <2> QED
      BY <2>1 DEF Quiet, TraceInv, Deleted, ThreadInv, Sensible
  <1>2. notes[s] \in Nat /\ logs \subseteq Comments
    BY DEF Types, Collections
  <1>3. ~Noted(s) /\ ~Listed(s)
    <2>1. CASE s \in Comments
      BY <1>1, <2>1 DEF TraceInv, NoteKept, LogKept
    <2>2. CASE s \notin Comments
      BY <1>1, <1>2, <2>2 DEF TraceInv, Unread, Subjects, Listed
    <2> QED
      BY <2>1, <2>2
  <1> QED
    BY <1>2, <1>3 DEF Noted, Listed

\* Once nothing is in flight, no comment that is deleted and no post that is gone has
\* left a notification or a log behind but what was written while it was being removed,
\* in whatever order the requests and the cleanup did their branches.
THEOREM NoTraceStays == Spec => []NoTraceLeft
  BY InitType, NextType, InitGone, NextGone, InitThreads, NextThreads, InitTraces, NextTraces, TracesSuffice, PTL DEF Spec

----------------------------------------------------------------------------
(* Sizes.                                                                  *)

LEMMA FiniteSubjects == \A S \in SUBSET Subjects : IsFiniteSet(S) /\ Cardinality(S) \in Nat
  <1>1. IsFiniteSet({"like", "repost"})
    <2>1. IsFiniteSet({"like"} \union {"repost"})
      BY FS_Singleton, FS_Union
    <2>2. {"like", "repost"} = {"like"} \union {"repost"}
      OBVIOUS
    <2> QED
      BY <2>1, <2>2
  <1>2. IsFiniteSet(Reactions)
    BY <1>1, FS_Product, UsersAssumption DEF Reactions
  <1>3. IsFiniteSet(Subjects)
    BY <1>2, FiniteComments, FS_Union DEF Subjects
  <1> QED
    BY <1>3, FS_Subset, FS_CardinalityType

\* How many of D are in S.
Size(D, S) == Cardinality(D \intersect S)

\* How much of something requests have pending about the subjects of a set.
Owing(f, S) == Cardinality({x \in Requests \X S : x[2] \in f[x[1]]})

\* What one request has pending apart.
LEMMA OwingSplit ==
  ASSUME NEW f \in [Requests -> SUBSET Subjects], NEW S \in SUBSET Subjects, NEW r \in Requests
  PROVE  LET O == {x \in (Requests \ {r}) \X Subjects : x[2] \in f[x[1]] \intersect S}
         IN  /\ Cardinality(O) \in Nat /\ Cardinality(f[r] \intersect S) \in Nat
             /\ Owing(f, S) = Cardinality(O) + Cardinality(f[r] \intersect S)
  <1> DEFINE O == {x \in (Requests \ {r}) \X Subjects : x[2] \in f[x[1]] \intersect S}
             own == f[r] \intersect S
             P == {x \in Requests \X S : x[2] \in f[x[1]]}
             R == {r} \X own
  <1>1. own \in SUBSET Subjects /\ IsFiniteSet(own) /\ Cardinality(own) \in Nat
    BY FiniteSubjects
  <1>2. IsFiniteSet(R) /\ Cardinality(R) = Cardinality(own)
    <2>1. IsFiniteSet({r}) /\ Cardinality({r}) = 1
      BY FS_Singleton
    <2>2. IsFiniteSet(R) /\ Cardinality(R) = Cardinality({r}) * Cardinality(own)
      BY <1>1, <2>1, FS_Product
    <2> QED
      BY <1>1, <2>1, <2>2
  <1>3. IsFiniteSet(O) /\ Cardinality(O) \in Nat
    <2>1. IsFiniteSet(Subjects)
      BY FiniteSubjects
    <2>2. IsFiniteSet(Requests \X Subjects)
      BY <2>1, FS_Product, RequestsAssumption
    <2>3. O \subseteq Requests \X Subjects
      OBVIOUS
    <2> QED
      BY <2>2, <2>3, FS_Subset, FS_CardinalityType
  <1>4. P = O \union R
    OBVIOUS
  <1>5. O \intersect R = {}
    OBVIOUS
  <1>6. Cardinality(P) = Cardinality(O) + Cardinality(R) - Cardinality(O \intersect R)
    BY <1>2, <1>3, <1>4, FS_Union
  <1>7. Cardinality(O \intersect R) = 0
    BY <1>5, FS_EmptySet
  <1> QED
    BY <1>1, <1>2, <1>3, <1>6, <1>7 DEF Owing

\* All requests but one have the same pending about S before and about T afterwards.
Alike(f, S, g, T, r) == \A q \in Requests \ {r} : g[q] \intersect T = f[q] \intersect S

\* What is pending changes by what one request had pending and has now.
Moves(f, S, g, T, r) ==
    /\ Owing(f, S) \in Nat /\ Owing(g, T) \in Nat /\ Size(f[r], S) \in Nat /\ Size(g[r], T) \in Nat
    /\ Owing(g, T) + Size(f[r], S) = Owing(f, S) + Size(g[r], T)

LEMMA OwingStep ==
  ASSUME NEW f \in [Requests -> SUBSET Subjects], NEW g \in [Requests -> SUBSET Subjects],
         NEW S \in SUBSET Subjects, NEW T \in SUBSET Subjects, NEW r \in Requests,
         Alike(f, S, g, T, r)
  PROVE  Moves(f, S, g, T, r)
  <1> DEFINE O == {x \in (Requests \ {r}) \X Subjects : x[2] \in f[x[1]] \intersect S}
             Q == {x \in (Requests \ {r}) \X Subjects : x[2] \in g[x[1]] \intersect T}
  <1>1. O = Q
    BY DEF Alike
  <1>2. /\ Cardinality(O) \in Nat /\ Size(f[r], S) \in Nat
        /\ Owing(f, S) = Cardinality(O) + Size(f[r], S)
    BY OwingSplit DEF Size
  <1>3. /\ Cardinality(Q) \in Nat /\ Size(g[r], T) \in Nat
        /\ Owing(g, T) = Cardinality(Q) + Size(g[r], T)
    BY OwingSplit DEF Size
  <1> HIDE DEF O, Q
  <1> QED
    BY <1>1, <1>2, <1>3 DEF Moves

LEMMA OwingSame ==
  ASSUME NEW f \in [Requests -> SUBSET Subjects], NEW g \in [Requests -> SUBSET Subjects],
         NEW S \in SUBSET Subjects, NEW T \in SUBSET Subjects,
         \A q \in Requests : g[q] \intersect T = f[q] \intersect S
  PROVE  Owing(g, T) = Owing(f, S)
  <1>1. {x \in Requests \X T : x[2] \in g[x[1]]} = {x \in Requests \X S : x[2] \in f[x[1]]}
    OBVIOUS
  <1> QED
    BY <1>1 DEF Owing

LEMMA SizeSplit ==
  ASSUME NEW D \in SUBSET Subjects, NEW E \in SUBSET Subjects, NEW S \in SUBSET Subjects
  PROVE  /\ Size(D, S) \in Nat /\ Size(D \ E, S) \in Nat /\ Size(D \intersect E, S) \in Nat
         /\ Size(D, S) = Size(D \ E, S) + Size(D \intersect E, S)
  <1> DEFINE A == (D \ E) \intersect S
             B == (D \intersect E) \intersect S
  <1>1. /\ IsFiniteSet(A) /\ IsFiniteSet(B) /\ Cardinality(A) \in Nat /\ Cardinality(B) \in Nat
        /\ Cardinality(D \intersect S) \in Nat
    BY FiniteSubjects
  <1>2. D \intersect S = A \union B /\ A \intersect B = {}
    OBVIOUS
  <1>3. Cardinality(A \union B) = Cardinality(A) + Cardinality(B) - Cardinality(A \intersect B)
    BY <1>1, FS_Union
  <1>4. Cardinality(A \intersect B) = 0
    BY <1>2, FS_EmptySet
  <1> HIDE DEF A, B
  <1>5. Cardinality(D \intersect S) = Cardinality(A \union B)
    BY <1>2
  <1>6. Cardinality(D \intersect S) = Cardinality(A) + Cardinality(B)
    BY <1>1, <1>3, <1>4, <1>5
  <1> QED
    BY <1>1, <1>6 DEF A, B, Size

LEMMA SizeOfNone == \A S : Size({}, S) = 0
  <1> TAKE S
  <1>1. {} \intersect S = {}
    OBVIOUS
  <1> QED
    BY <1>1, FS_EmptySet DEF Size

LEMMA SizeOfMore ==
  ASSUME NEW D \in SUBSET Subjects, NEW x \in Subjects \ D, NEW S \in SUBSET Subjects
  PROVE  /\ Size(D, S) \in Nat /\ Size({x}, S) \in Nat
         /\ Size(D \union {x}, S) = Size(D, S) + Size({x}, S)
  <1> DEFINE E == D \union {x}
             F == {x}
  <1>0. E \in SUBSET Subjects /\ F \in SUBSET Subjects
    OBVIOUS
  <1>1. E \ F = D /\ E \intersect F = F
    OBVIOUS
  <1> HIDE DEF E, F
  <1>2. /\ Size(E \ F, S) \in Nat /\ Size(E \intersect F, S) \in Nat
        /\ Size(E, S) = Size(E \ F, S) + Size(E \intersect F, S)
    BY <1>0, SizeSplit, ZenonT(40)
  <1>3. Size(D, S) \in Nat /\ Size(F, S) \in Nat /\ Size(E, S) = Size(D, S) + Size(F, S)
    BY <1>1, <1>2
  <1> QED
    BY <1>3 DEF E, F

LEMMA SizeOfLess ==
  ASSUME NEW D \in SUBSET Subjects, NEW E \in SUBSET D, NEW S \in SUBSET Subjects
  PROVE  Size(E, S) <= Size(D, S)
  <1>0. E \in SUBSET Subjects
    OBVIOUS
  <1>1. D \intersect E = E
    OBVIOUS
  <1>2. /\ Size(D \ E, S) \in Nat /\ Size(D \intersect E, S) \in Nat
        /\ Size(D, S) = Size(D \ E, S) + Size(D \intersect E, S)
    BY <1>0, SizeSplit, ZenonT(40)
  <1>3. Size(D \intersect E, S) = Size(E, S)
    BY <1>1
  <1> QED
    BY <1>2, <1>3

LEMMA SizeOfOne ==
  ASSUME NEW x \in Subjects, NEW S \in SUBSET Subjects
  PROVE  Size({x}, S) = IF x \in S THEN 1 ELSE 0
  <1>1. CASE x \in S
    <2>1. {x} \intersect S = {x}
      BY <1>1
    <2> QED
      BY <1>1, <2>1, FS_Singleton DEF Size
  <1>2. CASE x \notin S
    <2>1. {x} \intersect S = {}
      BY <1>2
    <2> QED
      BY <1>2, <2>1, FS_EmptySet DEF Size
  <1> QED
    BY <1>1, <1>2

----------------------------------------------------------------------------
(* What a request is still to count, and what it is about.                 *)

Pending(q, what) == \E t \in q.tasks : t.what = what
PendingOn(q, what) == {t.of : t \in {t \in q.tasks : t.what = what}}

\* What a request is about to count, to delete, to count off, and so on.
Adds(q) == IF q.pc = "count" \/ Pending(q, "count") THEN {q.of} ELSE {}
Deletes(q) == IF Pending(q, "delete") THEN q.ids ELSE {}
Takes(q) == IF q.pc = "uncount" THEN {q.of}
            ELSE IF ~Pending(q, "uncount") THEN {}
            ELSE IF Kind(q.of) = "comment" THEN q.ids ELSE {q.of}
AddsReply(q) == IF Pending(q, "reply") THEN {q.of} ELSE {}
TakesReply(q) == IF Pending(q, "unreply") THEN {q.of} ELSE {}
Scores(q) == IF Pending(q, "score") THEN {q.of} ELSE {}
Logs(q) == IF Pending(q, "log") THEN {q.of} ELSE {}
Unscores(q) == PendingOn(q, "unscore")

KindOf == [like |-> "like", unlike |-> "like", repost |-> "repost", unrepost |-> "repost",
           comment |-> "comment", uncomment |-> "comment"]

\* The branches an operation launches.
Fits(r, t) ==
    \/ /\ req[r].op = "comment" /\ req[r].ids = {}
       /\ \/ t.what \in {"count", "note", "log", "score"} /\ t.of = req[r].of
          \/ t.what = "reply" /\ parent[req[r].of] = {t.of}
    \/ /\ req[r].op = "unlike" /\ req[r].ids = {}
       /\ t.what \in {"uncount", "unnote"} /\ t.of = req[r].of
    \/ /\ req[r].op = "uncomment"
       /\ \/ t.what \in {"delete", "uncount", "unnote"} /\ t.of = req[r].of
          \/ t.what \in {"unlog", "unscore"} /\ t.of \in req[r].ids
          \/ t.what = "unreply" /\ req[r].ids = {req[r].of} /\ parent[req[r].of] = {t.of}

\* A request is about what its operation is about, has launched what belongs to it, and
\* has found nothing deleted before it deletes.
Apt(r) ==
    /\ req[r].pc \notin {"idle", "done"} => Kind(req[r].of) = KindOf[req[r].op]
    /\ req[r].pc = "drop" => req[r].op \in {"unlike", "unrepost"}
    /\ req[r].pc = "uncount" => req[r].op = "unrepost"
    /\ req[r].pc # "tasks" => req[r].tasks = {}
    /\ \A t \in req[r].tasks : Fits(r, t)
    /\ \A t \in req[r].tasks : t.what = "unscore" => t.of \notin PendingOn(req[r], "unlog")
    /\ req[r].pc \notin {"tasks", "done"} \/ Pending(req[r], "delete") => twice[r] = {}

AptInv == \A r \in Requests : Apt(r)

\* What is deleted, answered, logged or counted was created before.
Known(r) ==
    /\ \A c \in req[r].ids \union twice[r] : Created(c)
    /\ req[r].op = "uncomment" /\ req[r].pc \notin {"idle", "done"} => Created(req[r].of)
    /\ req[r].op = "comment" /\ req[r].pc \notin {"idle", "done"} => \A p \in req[r].to : Created(p)
    /\ Pending(req[r], "log") => req[r].of \notin logs

KnownInv ==
    /\ \A r \in Requests : Known(r)
    /\ \A c \in logs \union job.found : Created(c)
    /\ \A c \in Comments : (~Created(c) => parent[c] = {}) /\ \A p \in parent[c] : Created(p) /\ parent[c] = {p}

Nothing(q) == /\ Adds(q) = {} /\ Deletes(q) = {} /\ Takes(q) = {} /\ AddsReply(q) = {} /\ TakesReply(q) = {}
              /\ Scores(q) = {} /\ Logs(q) = {} /\ Unscores(q) = {}

Same(p, q) == /\ Adds(p) = Adds(q) /\ Deletes(p) = Deletes(q) /\ Takes(p) = Takes(q)
              /\ AddsReply(p) = AddsReply(q) /\ TakesReply(p) = TakesReply(q)
              /\ Scores(p) = Scores(q) /\ Logs(p) = Logs(q) /\ Unscores(p) = Unscores(q)

LEMMA NothingYet == \A q : q.pc \notin {"count", "uncount"} /\ q.tasks = {} => Nothing(q)
  BY DEF Nothing, Adds, Deletes, Takes, AddsReply, TakesReply, Scores, Logs, Unscores, Pending, PendingOn

LEMMA NothingDone == Nothing(NoRequest("done"))
  <1>1. NoRequest("done").pc = "done" /\ NoRequest("done").tasks = {}
    BY DEF NoRequest
  <1> QED
    BY <1>1, NothingYet

LEMMA SameTask == \A t, u \in Task : t.what = u.what /\ t.of = u.of => t = u
  BY DEF Task

Single == {"count", "log", "score", "reply", "delete", "uncount", "unreply"}

\* A request has one branch at most of each of these.
LEMMA OneBranch ==
  ASSUME Types, AptInv, NEW r \in Requests, NEW t \in req[r].tasks, NEW u \in req[r].tasks,
         t.what = u.what, t.what \in Single
  PROVE  t = u
  <1>1. t \in Task /\ u \in Task /\ Fits(r, t) /\ Fits(r, u)
    BY ReqType DEF AptInv, Apt
  <1>2. t.of = u.of
    BY <1>1 DEF Fits, Single
  <1> QED
    BY <1>1, <1>2, SameTask

\* What is pending once a branch is done, and its place is taken by others.
LEMMA BranchDone ==
  ASSUME Types, AptInv, NEW r \in Requests, req[r].pc = "tasks", NEW t \in req[r].tasks,
         NEW more \in SUBSET Task, \A u \in more : u.what = "unscore", Resume(r, Rest(r, t) \union more)
  PROVE  /\ \A what \in Single : Pending(req'[r], what) <=> Pending(req[r], what) /\ t.what # what
         /\ Unscores(req'[r]) = (Unscores(req[r]) \ (IF t.what = "unscore" THEN {t.of} ELSE {})) \union {u.of : u \in more}
         /\ req'[r].pc \in {"tasks", "done"}
         /\ req'[r].tasks # {} => req'[r].of = req[r].of /\ req'[r].ids = req[r].ids
  <1> DEFINE tasks == Rest(r, t) \union more
  <1>1. /\ req'[r].tasks = tasks
        /\ IF tasks = {} THEN req'[r] = NoRequest("done")
           ELSE req'[r].pc = "tasks" /\ req'[r].of = req[r].of /\ req'[r].ids = req[r].ids
    BY OwnStep DEF Types
  <1>2. ASSUME NEW what \in Single
        PROVE  Pending(req'[r], what) <=> Pending(req[r], what) /\ t.what # what
    <2>1. \A u \in more : u.what # what
      BY <1>2 DEF Single
    <2>2. \A u \in req[r].tasks : u.what = what /\ t.what = what => u = t
      BY <1>2, OneBranch
    <2>3. \A u \in req[r].tasks : u.what = what /\ t.what # what => u # t
      OBVIOUS
    <2> QED
      BY <1>1, <2>1, <2>2, <2>3 DEF Pending, Rest
  <1>3. Unscores(req'[r]) = (Unscores(req[r]) \ (IF t.what = "unscore" THEN {t.of} ELSE {})) \union {u.of : u \in more}
    <2>1. \A u \in req[r].tasks : u \in Task
      BY ReqType
    <2>2. \A u \in req[r].tasks : u.what = "unscore" /\ t.what = "unscore" /\ u.of = t.of => u = t
      BY <2>1, SameTask
    <2>3. Unscores(req'[r]) = {u.of : u \in {u \in Rest(r, t) : u.what = "unscore"}} \union {u.of : u \in more}
      BY <1>1 DEF Unscores, PendingOn
    <2>4. {u.of : u \in {u \in Rest(r, t) : u.what = "unscore"}}
            = Unscores(req[r]) \ (IF t.what = "unscore" THEN {t.of} ELSE {})
      BY <2>2 DEF Unscores, PendingOn, Rest
    <2> QED
      BY <2>3, <2>4
  <1>4. req'[r].pc \in {"tasks", "done"}
    BY <1>1 DEF NoRequest
  <1> QED
    BY <1>1, <1>2, <1>3, <1>4

----------------------------------------------------------------------------
(* A ledger: what the counters tell and what requests owe them.            *)

LEMMA PartsType ==
  ASSUME NEW q \in Request
  PROVE  /\ Adds(q) \in SUBSET Subjects /\ Deletes(q) \in SUBSET Subjects /\ Takes(q) \in SUBSET Subjects
         /\ AddsReply(q) \in SUBSET Subjects /\ TakesReply(q) \in SUBSET Subjects
         /\ Scores(q) \in SUBSET Subjects /\ Logs(q) \in SUBSET Subjects /\ Unscores(q) \in SUBSET Subjects
  <1>1. q.of \in Subjects /\ q.ids \in SUBSET Subjects /\ q.tasks \in SUBSET Task
    BY CommentSubjects DEF Request
  <1>2. Unscores(q) \in SUBSET Subjects
    BY <1>1 DEF Unscores, PendingOn, Task
  <1> QED
    BY <1>1, <1>2 DEF Adds, Deletes, Takes, AddsReply, TakesReply, Scores, Logs

Adding == [r \in Requests |-> Adds(req[r])]
Deleting == [r \in Requests |-> Deletes(req[r])]
Taking == [r \in Requests |-> Takes(req[r])]
AddingReply == [r \in Requests |-> AddsReply(req[r])]
TakingReply == [r \in Requests |-> TakesReply(req[r])]
Scoring == [r \in Requests |-> Scores(req[r])]
Logging == [r \in Requests |-> Logs(req[r])]
Unscoring == [r \in Requests |-> Unscores(req[r])]

OfKind(k) == {s \in Subjects : Kind(s) = k}
By(u) == {c \in Comments : author[c] = u}

\* With what is still to come, the post counts no less than there is, and a comment no
\* fewer replies.
CountOK(k) ==
    count[k] + Owing(Adding, OfKind(k)) + Owing(Deleting, OfKind(k)) + Owing(twice, OfKind(k))
        >= Size(docs, OfKind(k)) + Owing(Taking, OfKind(k))

ReplyOK(p) ==
    replies[p] + Owing(AddingReply, RepliesTo(p)) + Owing(Deleting, RepliesTo(p)) + Owing(twice, RepliesTo(p))
        >= Size(docs, RepliesTo(p)) + Owing(TakingReply, RepliesTo(p))

\* The contributions of a user, and what tells of them.
Due(u) == score[u] + Owing(Scoring, By(u))
Told(u) == Size(logs, By(u)) + Owing(Logging, By(u)) + Owing(Unscoring, By(u))

\* The job is about to count these contributions off.
JobTakes(u) == IF u \in job.users THEN FoundOf(u) ELSE {}

CountInv == Visible => /\ \A k \in Kinds : CountOK(k)
                       /\ \A p \in Comments : p \in docs \/ ~Created(p) => ReplyOK(p)

ScoreInv == \A u \in Users : /\ Visible => Due(u) = Told(u)
                             /\ Due(u) + taken[u] >= Told(u) + Cardinality(JobTakes(u))

----------------------------------------------------------------------------
(* A step of one request changes the balance by what changes at it.        *)

\* The balance of counters, before and after.
LEMMA Balance ==
  ASSUME NEW n \in Int, NEW m \in Int, NEW D \in SUBSET Subjects, NEW E \in SUBSET Subjects,
         NEW S \in SUBSET Subjects, NEW T \in SUBSET Subjects, NEW r,
         NEW a, NEW b, NEW d, NEW e, NEW v, NEW w, NEW x, NEW y,
         Moves(a, S, b, T, r), Moves(d, S, e, T, r), Moves(v, S, w, T, r), Moves(x, S, y, T, r),
         n + Owing(a, S) + Owing(d, S) + Owing(v, S) >= Size(D, S) + Owing(x, S),
         m + Size(b[r], T) + Size(e[r], T) + Size(w[r], T) + Size(D, S) + Size(x[r], S)
            >= n + Size(a[r], S) + Size(d[r], S) + Size(v[r], S) + Size(E, T) + Size(y[r], T)
  PROVE  m + Owing(b, T) + Owing(e, T) + Owing(w, T) >= Size(E, T) + Owing(y, T)
  <1>1. Size(D, S) \in Nat /\ Size(E, T) \in Nat
    BY SizeSplit
  <1> QED
    BY <1>1 DEF Moves

Others(r) == \A q \in Requests \ {r} : req'[q] = req[q] /\ twice'[q] = twice[q]

LEMMA OwesType ==
  ASSUME Types, Types'
  PROVE  /\ Adding \in [Requests -> SUBSET Subjects] /\ Adding' \in [Requests -> SUBSET Subjects]
         /\ Deleting \in [Requests -> SUBSET Subjects] /\ Deleting' \in [Requests -> SUBSET Subjects]
         /\ Taking \in [Requests -> SUBSET Subjects] /\ Taking' \in [Requests -> SUBSET Subjects]
         /\ AddingReply \in [Requests -> SUBSET Subjects] /\ AddingReply' \in [Requests -> SUBSET Subjects]
         /\ TakingReply \in [Requests -> SUBSET Subjects] /\ TakingReply' \in [Requests -> SUBSET Subjects]
         /\ Scoring \in [Requests -> SUBSET Subjects] /\ Scoring' \in [Requests -> SUBSET Subjects]
         /\ Logging \in [Requests -> SUBSET Subjects] /\ Logging' \in [Requests -> SUBSET Subjects]
         /\ Unscoring \in [Requests -> SUBSET Subjects] /\ Unscoring' \in [Requests -> SUBSET Subjects]
         /\ twice \in [Requests -> SUBSET Subjects] /\ twice' \in [Requests -> SUBSET Subjects]
  <1>1. \A r \in Requests : req[r] \in Request /\ req'[r] \in Request
    BY DEF Types, ReqsOK, GoodRequest
  <1>2. twice \in [Requests -> SUBSET Subjects] /\ twice' \in [Requests -> SUBSET Subjects]
    BY CommentSubjects DEF Types, Collections
  <1> QED
    BY <1>1, <1>2, PartsType
       DEF Adding, Deleting, Taking, AddingReply, TakingReply, Scoring, Logging, Unscoring

\* What a request is to do with replies and contributions is about comments that were created.
LEMMA PartsCreated ==
  ASSUME ThreadInv, AptInv, KnownInv, NEW q \in Requests
  PROVE  \A c \in AddsReply(req[q]) \union TakesReply(req[q]) \union Deletes(req[q]) \union twice[q]
                    \union Scores(req[q]) \union Logs(req[q]) \union Unscores(req[q]) : Created(c)
  <1>1. \A c \in req[q].ids \union twice[q] : Created(c)
    BY DEF KnownInv, Known
  <1>2. \A t \in req[q].tasks : Fits(q, t) /\ req[q].pc = "tasks"
    BY DEF AptInv, Apt
  <1>3. ASSUME NEW t \in req[q].tasks, req[q].op = "comment" PROVE Created(req[q].of)
    <2>1. req[q].of = <<"comment", q>>
      BY <1>3 DEF ThreadInv, Sensible
    <2> QED
      BY <1>2, <2>1 DEF Created
  <1>4. ASSUME NEW t \in req[q].tasks, t.what \in {"reply", "score", "log"} PROVE Created(req[q].of)
    BY <1>2, <1>3, <1>4 DEF Fits
  <1>5. ASSUME NEW t \in req[q].tasks, t.what = "unreply" PROVE Created(req[q].of)
    BY <1>1, <1>2, <1>5 DEF Fits
  <1>6. ASSUME NEW t \in req[q].tasks, t.what = "unscore" PROVE Created(t.of)
    BY <1>1, <1>2, <1>6 DEF Fits
  <1> QED
    BY <1>1, <1>4, <1>5, <1>6 DEF AddsReply, TakesReply, Deletes, Scores, Logs, Unscores, Pending, PendingOn

\* What one request changes about the counter of a kind, the replies of a comment and the
\* contributions of a user, with what it has pending.
CountStep(r, k) ==
    LET S == OfKind(k)
    IN  count'[k] + Size(Adds(req'[r]), S) + Size(Deletes(req'[r]), S) + Size(twice'[r], S)
            + Size(docs, S) + Size(Takes(req[r]), S)
        >= count[k] + Size(Adds(req[r]), S) + Size(Deletes(req[r]), S) + Size(twice[r], S)
            + Size(docs', S) + Size(Takes(req'[r]), S)

ReplyStep(r, p) ==
    LET S == RepliesTo(p)
        T == RepliesTo(p)'
    IN  replies'[p] + Size(AddsReply(req'[r]), T) + Size(Deletes(req'[r]), T) + Size(twice'[r], T)
            + Size(docs, S) + Size(TakesReply(req[r]), S)
        >= replies[p] + Size(AddsReply(req[r]), S) + Size(Deletes(req[r]), S) + Size(twice[r], S)
            + Size(docs', T) + Size(TakesReply(req'[r]), T)

ScoreStep(r, u) ==
    LET S == By(u)
        T == By(u)'
    IN  score'[u] + Size(Scores(req'[r]), T) + Size(logs, S) + Size(Logs(req[r]), S) + Size(Unscores(req[r]), S)
        = score[u] + Size(Scores(req[r]), S) + Size(logs', T) + Size(Logs(req'[r]), T) + Size(Unscores(req'[r]), T)

LEMMA StepCounts ==
  ASSUME Types, Types', NEW r \in Requests, Others(r), NEW k \in Kinds, CountOK(k), CountStep(r, k)
  PROVE  CountOK(k)'
  <1> DEFINE S == OfKind(k)
  <1>1. S \in SUBSET Subjects /\ docs \in SUBSET Subjects /\ docs' \in SUBSET Subjects
        /\ count[k] \in Int /\ count'[k] \in Int
    BY DEF OfKind, Types, Collections
  <1>2. /\ Alike(Adding, S, Adding', S, r) /\ Alike(Deleting, S, Deleting', S, r)
        /\ Alike(twice, S, twice', S, r) /\ Alike(Taking, S, Taking', S, r)
    BY DEF Others, Alike, Adding, Deleting, Taking
  <1>3. /\ Moves(Adding, S, Adding', S, r) /\ Moves(Deleting, S, Deleting', S, r)
        /\ Moves(twice, S, twice', S, r) /\ Moves(Taking, S, Taking', S, r)
    <2> HIDE DEF S
    <2> QED
      BY <1>1, <1>2, OwesType, OwingStep
  <1>4. /\ Adding[r] = Adds(req[r]) /\ Adding'[r] = Adds(req'[r])
        /\ Deleting[r] = Deletes(req[r]) /\ Deleting'[r] = Deletes(req'[r])
        /\ Taking[r] = Takes(req[r]) /\ Taking'[r] = Takes(req'[r])
    BY DEF Adding, Deleting, Taking
  <1>5. count[k] + Owing(Adding, S) + Owing(Deleting, S) + Owing(twice, S) >= Size(docs, S) + Owing(Taking, S)
    BY DEF CountOK
  <1>6. count'[k] + Size(Adding'[r], S) + Size(Deleting'[r], S) + Size(twice'[r], S) + Size(docs, S) + Size(Taking[r], S)
        >= count[k] + Size(Adding[r], S) + Size(Deleting[r], S) + Size(twice[r], S) + Size(docs', S) + Size(Taking'[r], S)
    BY <1>4 DEF CountStep
  <1>7. count'[k] + Owing(Adding', S) + Owing(Deleting', S) + Owing(twice', S) >= Size(docs', S) + Owing(Taking', S)
    <2> HIDE DEF S
    <2> QED
      BY <1>1, <1>3, <1>5, <1>6, Balance
  <1> QED
    BY <1>7 DEF CountOK

LEMMA StepReplies ==
  ASSUME Types, Types', ThreadInv, AptInv, KnownInv, NEW r \in Requests, Others(r),
         NEW p \in Comments, ReplyOK(p), ReplyStep(r, p),
         \A c \in Comments : Created(c) => (parent'[c] = {p} <=> parent[c] = {p})
  PROVE  ReplyOK(p)'
  <1> DEFINE S == RepliesTo(p)
             T == RepliesTo(p)'
  <1>1. S \in SUBSET Subjects /\ T \in SUBSET Subjects /\ docs \in SUBSET Subjects /\ docs' \in SUBSET Subjects
        /\ replies[p] \in Int /\ replies'[p] \in Int
    BY CommentSubjects DEF RepliesTo, Types, Collections
  <1>2. /\ Alike(AddingReply, S, AddingReply', T, r) /\ Alike(Deleting, S, Deleting', T, r)
        /\ Alike(twice, S, twice', T, r) /\ Alike(TakingReply, S, TakingReply', T, r)
    <2>1. \A c : Created(c) => (c \in S <=> c \in T)
      BY DEF RepliesTo
    <2> HIDE DEF S, T
    <2>2. ASSUME NEW q \in Requests \ {r}
          PROVE  /\ AddingReply'[q] \intersect T = AddingReply[q] \intersect S
                 /\ Deleting'[q] \intersect T = Deleting[q] \intersect S
                 /\ twice'[q] \intersect T = twice[q] \intersect S
                 /\ TakingReply'[q] \intersect T = TakingReply[q] \intersect S
      <3>1. /\ AddingReply'[q] = AddsReply(req[q]) /\ AddingReply[q] = AddsReply(req[q])
            /\ Deleting'[q] = Deletes(req[q]) /\ Deleting[q] = Deletes(req[q])
            /\ TakingReply'[q] = TakesReply(req[q]) /\ TakingReply[q] = TakesReply(req[q])
            /\ twice'[q] = twice[q]
        BY DEF Others, AddingReply, Deleting, TakingReply
      <3>2. \A c \in AddsReply(req[q]) \union TakesReply(req[q]) \union Deletes(req[q]) \union twice[q] : Created(c)
        BY PartsCreated
      <3> QED
        BY <2>1, <3>1, <3>2
    <2> QED
      BY <2>2 DEF Alike
  <1>3. /\ Moves(AddingReply, S, AddingReply', T, r) /\ Moves(Deleting, S, Deleting', T, r)
        /\ Moves(twice, S, twice', T, r) /\ Moves(TakingReply, S, TakingReply', T, r)
    <2> HIDE DEF S, T
    <2> QED
      BY <1>1, <1>2, OwesType, OwingStep
  <1>4. /\ AddingReply[r] = AddsReply(req[r]) /\ AddingReply'[r] = AddsReply(req'[r])
        /\ Deleting[r] = Deletes(req[r]) /\ Deleting'[r] = Deletes(req'[r])
        /\ TakingReply[r] = TakesReply(req[r]) /\ TakingReply'[r] = TakesReply(req'[r])
    BY DEF AddingReply, Deleting, TakingReply
  <1>5. replies[p] + Owing(AddingReply, S) + Owing(Deleting, S) + Owing(twice, S) >= Size(docs, S) + Owing(TakingReply, S)
    BY DEF ReplyOK
  <1>6. replies'[p] + Size(AddingReply'[r], T) + Size(Deleting'[r], T) + Size(twice'[r], T)
          + Size(docs, S) + Size(TakingReply[r], S)
        >= replies[p] + Size(AddingReply[r], S) + Size(Deleting[r], S) + Size(twice[r], S)
          + Size(docs', T) + Size(TakingReply'[r], T)
    BY <1>4 DEF ReplyStep
  <1>7. replies'[p] + Owing(AddingReply', T) + Owing(Deleting', T) + Owing(twice', T) >= Size(docs', T) + Owing(TakingReply', T)
    <2> HIDE DEF S, T
    <2> QED
      BY <1>1, <1>3, <1>5, <1>6, Balance
  <1> QED
    BY <1>7 DEF ReplyOK

LEMMA StepScores ==
  ASSUME Types, Types', ThreadInv, AptInv, KnownInv, NEW r \in Requests, Others(r),
         NEW u \in Users, ScoreStep(r, u), \A c \in Comments : Created(c) => author'[c] = author[c],
         UNCHANGED <<post_, taken>>, 
         Visible => Due(u) = Told(u), Due(u) + taken[u] >= Told(u) + Cardinality(JobTakes(u))
  PROVE  /\ Visible' => Due(u)' = Told(u)'
         /\ Due(u)' + taken'[u] >= Told(u)' + Cardinality(JobTakes(u)')
  <1> DEFINE S == By(u)
             T == By(u)'
  <1>1. S \in SUBSET Subjects /\ T \in SUBSET Subjects /\ logs \in SUBSET Subjects /\ logs' \in SUBSET Subjects
        /\ score[u] \in Int /\ score'[u] \in Int /\ taken[u] \in Nat
    BY CommentSubjects DEF By, Types, Collections
  <1>2. /\ Alike(Scoring, S, Scoring', T, r) /\ Alike(Logging, S, Logging', T, r)
        /\ Alike(Unscoring, S, Unscoring', T, r)
    <2>1. \A c : Created(c) => (c \in S <=> c \in T)
      BY DEF By
    <2> HIDE DEF S, T
    <2>2. ASSUME NEW q \in Requests \ {r}
          PROVE  /\ Scoring'[q] \intersect T = Scoring[q] \intersect S
                 /\ Logging'[q] \intersect T = Logging[q] \intersect S
                 /\ Unscoring'[q] \intersect T = Unscoring[q] \intersect S
      <3>1. /\ Scoring'[q] = Scores(req[q]) /\ Scoring[q] = Scores(req[q])
            /\ Logging'[q] = Logs(req[q]) /\ Logging[q] = Logs(req[q])
            /\ Unscoring'[q] = Unscores(req[q]) /\ Unscoring[q] = Unscores(req[q])
        BY DEF Others, Scoring, Logging, Unscoring
      <3>2. \A c \in Scores(req[q]) \union Logs(req[q]) \union Unscores(req[q]) : Created(c)
        BY PartsCreated
      <3> QED
        BY <2>1, <3>1, <3>2
    <2> QED
      BY <2>2 DEF Alike
  <1>3. /\ Moves(Scoring, S, Scoring', T, r) /\ Moves(Logging, S, Logging', T, r)
        /\ Moves(Unscoring, S, Unscoring', T, r)
    <2> HIDE DEF S, T
    <2> QED
      BY <1>1, <1>2, OwesType, OwingStep
  <1>4. /\ Scoring[r] = Scores(req[r]) /\ Scoring'[r] = Scores(req'[r])
        /\ Logging[r] = Logs(req[r]) /\ Logging'[r] = Logs(req'[r])
        /\ Unscoring[r] = Unscores(req[r]) /\ Unscoring'[r] = Unscores(req'[r])
    BY DEF Scoring, Logging, Unscoring
  <1>5. score'[u] + Size(Scoring'[r], T) + Size(logs, S) + Size(Logging[r], S) + Size(Unscoring[r], S)
        = score[u] + Size(Scoring[r], S) + Size(logs', T) + Size(Logging'[r], T) + Size(Unscoring'[r], T)
    BY <1>4 DEF ScoreStep
  <1>6. /\ Due(u) \in Int /\ Due(u)' \in Int /\ Told(u) \in Int /\ Told(u)' \in Int
        /\ Due(u)' - Due(u) = Told(u)' - Told(u)
    <2> HIDE DEF S, T
    <2>1. /\ score[u] + Owing(Scoring, S) \in Int /\ score'[u] + Owing(Scoring', T) \in Int
          /\ Size(logs, S) + Owing(Logging, S) + Owing(Unscoring, S) \in Int
          /\ Size(logs', T) + Owing(Logging', T) + Owing(Unscoring', T) \in Int
          /\ (score'[u] + Owing(Scoring', T)) - (score[u] + Owing(Scoring, S))
             = (Size(logs', T) + Owing(Logging', T) + Owing(Unscoring', T))
               - (Size(logs, S) + Owing(Logging, S) + Owing(Unscoring, S))
      <3>1. Size(logs, S) \in Nat /\ Size(logs', T) \in Nat /\ score[u] \in Int /\ score'[u] \in Int
        BY <1>1, SizeSplit, ZenonT(40)
      <3>2. /\ Owing(Scoring, S) \in Nat /\ Owing(Scoring', T) \in Nat /\ Size(Scoring[r], S) \in Nat
            /\ Size(Scoring'[r], T) \in Nat
            /\ Owing(Scoring', T) + Size(Scoring[r], S) = Owing(Scoring, S) + Size(Scoring'[r], T)
        BY <1>3 DEF Moves
      <3>3. /\ Owing(Logging, S) \in Nat /\ Owing(Logging', T) \in Nat /\ Size(Logging[r], S) \in Nat
            /\ Size(Logging'[r], T) \in Nat
            /\ Owing(Logging', T) + Size(Logging[r], S) = Owing(Logging, S) + Size(Logging'[r], T)
        BY <1>3 DEF Moves
      <3>4. /\ Owing(Unscoring, S) \in Nat /\ Owing(Unscoring', T) \in Nat /\ Size(Unscoring[r], S) \in Nat
            /\ Size(Unscoring'[r], T) \in Nat
            /\ Owing(Unscoring', T) + Size(Unscoring[r], S) = Owing(Unscoring, S) + Size(Unscoring'[r], T)
        BY <1>3 DEF Moves
      <3> QED
        BY <1>5, <3>1, <3>2, <3>3, <3>4
    <2> QED
      BY <2>1 DEF Due, Told, S, T
  <1>7. JobTakes(u)' = JobTakes(u)
    <2>1. job' = job /\ job.found \in SUBSET Comments
      BY DEF post_, Types, JobOK, Job
    <2>2. \A c \in job.found : author'[c] = author[c]
      BY <2>1 DEF KnownInv
    <2>3. FoundOf(u)' = FoundOf(u)
      BY <2>1, <2>2 DEF FoundOf
    <2> QED
      BY <2>1, <2>3 DEF JobTakes
  <1>8. Cardinality(JobTakes(u)) \in Nat
    <2>1. JobTakes(u) \in SUBSET Comments
      BY DEF JobTakes, FoundOf, Types, JobOK, Job
    <2> QED
      BY <2>1, CountOfComments
  <1>9. Visible' = Visible /\ taken'[u] = taken[u]
    BY DEF post_, Visible
  <1> QED
    BY <1>1, <1>6, <1>7, <1>8, <1>9

----------------------------------------------------------------------------
(* Requests keep to their operation, and deal with comments that exist.    *)

ShapeInv == AptInv /\ KnownInv

\* A step of one request.
LEMMA ShapeFrame ==
  ASSUME Types, ThreadInv, ShapeInv, NEW r \in Requests, Others(r), Apt(r)', Known(r)',
         job' = job, req[r].pc \in {"tasks", "done"} => req'[r].pc \in {"tasks", "done"},
         \A c \in logs' : c \in logs \/ (c = <<"comment", r>> /\ Created(c)),
         \A c \in Comments : parent'[c] = parent[c] \/ (~Created(c) /\ Created(c)' /\ \A p \in parent'[c] : Created(p) /\ parent'[c] = {p})
  PROVE  ShapeInv'
  <1>1. \A c : Created(c) => Created(c)'
    BY DEF Created, Others
  <1>2. ASSUME NEW q \in Requests, q # r
        PROVE  req'[q] = req[q] /\ twice'[q] = twice[q] /\ Apt(q) /\ Known(q) /\ Sensible(q) /\ req[q].of \in Subjects
    BY <1>2, ReqType DEF Others, ShapeInv, AptInv, KnownInv, ThreadInv
  <1>3. ASSUME NEW q \in Requests PROVE Apt(q)'
    <2>1. CASE q = r
      BY <2>1
    <2>2. CASE q # r
      <3>1. req'[q] = req[q] /\ twice'[q] = twice[q] /\ Apt(q) /\ Known(q) /\ Sensible(q)
        BY <1>2, <2>2
      <3>2. ASSUME NEW t \in req[q].tasks PROVE Fits(q, t)'
        <4>1. Fits(q, t) /\ req[q].pc = "tasks"
          BY <3>1 DEF Apt
        <4>2. req[q].op \in {"comment", "uncomment"} => Created(req[q].of) /\ req[q].of \in Comments
          BY <3>1, <4>1, ReqType DEF Known, Sensible, Created, GoodRequest, AboutComment
        <4>3. req[q].op \in {"comment", "uncomment"} => parent'[req[q].of] = parent[req[q].of]
          BY <4>2
        <4> QED
          BY <3>1, <4>1, <4>3 DEF Fits
      <3> QED
        BY <3>1, <3>2 DEF Apt
    <2> QED
      BY <2>1, <2>2
  <1>4. ASSUME NEW q \in Requests PROVE Known(q)'
    <2>1. CASE q = r
      BY <2>1
    <2>2. CASE q # r
      <3>1. req'[q] = req[q] /\ twice'[q] = twice[q] /\ Apt(q) /\ Known(q) /\ Sensible(q)
        BY <1>2, <2>2
      <3>2. Pending(req[q], "log") => req[q].of \notin logs'
        <4>1. ASSUME NEW t \in req[q].tasks, t.what = "log" PROVE req[q].of = <<"comment", q>>
          BY <3>1, <4>1 DEF Apt, Fits, Sensible
        <4> QED
          BY <2>2, <3>1, <4>1 DEF Known, Pending
      <3> QED
        BY <1>1, <3>1, <3>2 DEF Known
    <2> QED
      BY <2>1, <2>2
  <1>5. \A c \in (logs \union job.found)' : Created(c)'
    BY <1>1 DEF ShapeInv, KnownInv
  <1>6. \A c \in Comments : (~Created(c)' => parent'[c] = {}) /\ \A p \in parent'[c] : Created(p)' /\ parent'[c] = {p}
    BY <1>1 DEF ShapeInv, KnownInv
  <1> QED
    BY <1>3, <1>4, <1>5, <1>6 DEF ShapeInv, AptInv, KnownInv

LEMMA InitShape == Init => ShapeInv
  <1> SUFFICES ASSUME Init PROVE ShapeInv
    OBVIOUS
  <1>1. \A r \in Requests : /\ req[r].pc = "idle" /\ req[r].op = "like" /\ req[r].ids = {} /\ req[r].tasks = {}
                            /\ twice[r] = {}
    BY DEF Init, NoRequest
  <1>2. \A r \in Requests : Apt(r) /\ Known(r)
    BY <1>1 DEF Apt, Known, Pending
  <1>3. logs \subseteq {Top, Reply} /\ job.found = {}
    BY DEF Init, NoJob
  <1>4. Created(Top) /\ Created(Reply)
    BY RequestsAssumption DEF Created, Top, Reply
  <1>5. \A c \in Comments : parent[c] = IF c = Reply THEN {Top} ELSE {}
    BY DEF Init
  <1> QED
    BY <1>2, <1>3, <1>4, <1>5 DEF ShapeInv, AptInv, KnownInv

\* Nothing is written but by the request that makes a step.
LEMMA StillShape ==
  ASSUME Types, ThreadInv, ShapeInv, NEW r \in Requests, \A q \in Requests \ {r} : req'[q] = req[q],
         UNCHANGED <<post_, parent, logs, twice>>, Apt(r)', Known(r)',
         req[r].pc \in {"tasks", "done"} => req'[r].pc \in {"tasks", "done"}
  PROVE  ShapeInv'
  <1>1. Others(r) /\ job' = job
    BY DEF Others, post_
  <1> QED
    BY <1>1, ShapeFrame

LEMMA SendShape ==
  ASSUME Types, ThreadInv, ShapeInv, NEW r \in Requests,
         \/ \E op \in Op, s \in Reactions : React(r, op, s)
         \/ \E u \in Users, to \in {{}} \union {{c} : c \in docs \intersect Comments} : Say(r, u, to)
         \/ \E c \in docs \intersect Comments : Unsay(r, c)
  PROVE  ShapeInv'
  <1>1. At(r, "idle") /\ UNCHANGED <<post_, parent, logs, twice>>
    BY DEF React, Say, Unsay, thread, contributions
  <1>2. \A q \in Requests \ {r} : req'[q] = req[q]
    BY DEF React, Say, Unsay, Types, ReqsOK
  <1>3. req[r] \in Request /\ req[r].ids = {} /\ req[r].tasks = {} /\ twice[r] = {}
    BY <1>1, ReqType DEF ThreadInv, Sensible, At, GoodRequest, ShapeInv, AptInv, Apt
  <1>4. \A c \in docs \intersect Comments : Created(c)
    BY DEF ThreadInv
  <1>5. ASSUME NEW c, Created(c) PROVE Created(c)'
    BY <1>1, <1>2, <1>5 DEF Created, At
  <1>6. Apt(r)' /\ Known(r)'
    <2>1. ASSUME NEW op \in Op, NEW s \in Reactions, React(r, op, s)
          PROVE  Apt(r)' /\ Known(r)'
      <3>1. /\ req'[r].op = op /\ req'[r].of = s /\ req'[r].pc = Entry[op]
            /\ req'[r].tasks = {} /\ req'[r].ids = {}
        BY <1>3, <2>1 DEF React, Types, ReqsOK, Request
      <3>2. /\ op \in {"like", "unlike", "repost", "unrepost"} /\ Kind(s) = KindOf[op]
            /\ Entry[op] \in {"target", "drop"} /\ (Entry[op] = "drop" => op = "unrepost")
        <4>1. Kind(s) \in {"like", "repost"}
          BY DEF Reactions, Kind
        <4>2. op \in (IF Kind(s) = "like" THEN {"like", "unlike"} ELSE {"repost", "unrepost"})
          BY <2>1 DEF React
        <4>3. op \in {"like", "unlike", "repost", "unrepost"} /\ Kind(s) = KindOf[op]
          BY <4>1, <4>2 DEF KindOf
        <4> QED
          BY <4>3, EntryType
      <3> QED
        BY <1>1, <1>3, <3>1, <3>2 DEF Apt, Known, Pending
    <2>2. ASSUME NEW u \in Users, NEW to \in {{}} \union {{c} : c \in docs \intersect Comments}, Say(r, u, to)
          PROVE  Apt(r)' /\ Known(r)'
      <3>1. /\ req'[r].op = "comment" /\ req'[r].of = <<"comment", r>> /\ req'[r].pc = "target"
            /\ req'[r].to = to /\ req'[r].ids = {} /\ req'[r].tasks = {}
        BY <1>3, <2>2, EntryType DEF Say, Types, ReqsOK, Request
      <3>2. Kind(<<"comment", r>>) = KindOf["comment"]
        BY DEF Kind, KindOf
      <3>3. \A p \in to : Created(p)'
        BY <1>4, <1>5
      <3> QED
        BY <1>1, <1>3, <3>1, <3>2, <3>3 DEF Apt, Known, Pending
    <2>3. ASSUME NEW c \in docs \intersect Comments, Unsay(r, c)
          PROVE  Apt(r)' /\ Known(r)'
      <3>1. /\ req'[r].op = "uncomment" /\ req'[r].of = c /\ req'[r].pc = "find"
            /\ req'[r].ids = {} /\ req'[r].tasks = {}
        BY <1>3, <2>3, EntryType DEF Unsay, Types, ReqsOK, Request
      <3>2. Kind(c) = KindOf["uncomment"]
        BY CommentKind, CommentSubjects DEF KindOf
      <3>3. Created(c)'
        BY <1>4, <1>5
      <3> QED
        BY <1>1, <1>3, <3>1, <3>2, <3>3 DEF Apt, Known, Pending
    <2> QED
      BY <2>1, <2>2, <2>3
  <1> QED
    BY <1>1, <1>2, <1>6, StillShape DEF At

LEMMA GotoShape ==
  ASSUME Types, ThreadInv, ShapeInv, NEW r \in Requests, req[r].pc \notin {"tasks", "done", "idle"},
         UNCHANGED <<post_, parent, logs, twice>>,
         NEW pc, Goto(r, pc), pc \notin {"tasks", "done", "idle"},
         pc = "drop" => req[r].op \in {"unlike", "unrepost"}, pc = "uncount" => req[r].op = "unrepost"
  PROVE  ShapeInv'
  <1>1. \A q \in Requests \ {r} : req'[q] = req[q]
    BY OthersKept DEF Types
  <1>2. /\ req'[r].pc = pc /\ req'[r].op = req[r].op /\ req'[r].of = req[r].of /\ req'[r].to = req[r].to
        /\ req'[r].ids = req[r].ids /\ req'[r].tasks = req[r].tasks
    BY OwnStep DEF Types
  <1>3. Apt(r) /\ Known(r)
    BY DEF ShapeInv, AptInv, KnownInv
  <1>4. \A c : Created(c) => Created(c)'
    BY <1>1 DEF Created
  <1>5. Apt(r)'
    BY <1>2, <1>3 DEF Apt, Pending
  <1>6. Known(r)'
    BY <1>2, <1>3, <1>4 DEF Known, Pending
  <1> QED
    BY <1>1, <1>5, <1>6, StillShape

LEMMA FinishShape ==
  ASSUME Types, ThreadInv, ShapeInv, NEW r \in Requests, UNCHANGED <<post_, parent, logs, twice>>, Finish(r)
  PROVE  ShapeInv'
  <1>1. \A q \in Requests \ {r} : req'[q] = req[q]
    BY OthersKept DEF Types
  <1>2. /\ req'[r].pc = "done" /\ req'[r].ids = {} /\ req'[r].tasks = {}
    BY OwnStep DEF Types, NoRequest
  <1>3. Apt(r) /\ Known(r)
    BY DEF ShapeInv, AptInv, KnownInv
  <1>4. \A c : Created(c) => Created(c)'
    BY <1>1, <1>2 DEF Created
  <1>5. Apt(r)' /\ Known(r)'
    BY <1>2, <1>3, <1>4 DEF Apt, Known, Pending
  <1> QED
    BY <1>1, <1>2, <1>5, StillShape

\* The deletion of comments, which are known.
LEMMA DeletionShape ==
  ASSUME Types, ThreadInv, ShapeInv, NEW r \in Requests, req[r].pc \in {"find", "replies"},
         UNCHANGED <<post_, parent, logs, twice>>,
         NEW ids \in SUBSET Comments, \A c \in ids : Created(c), NEW up,
         up = {} \/ (ids = {req[r].of} /\ up = parent[req[r].of] /\ \E p : up = {p}),
         Launch(r, ids, DeleteTasks(req[r].of, ids) \union Tasks({"unreply"}, up))
  PROVE  ShapeInv'
  <1>1. \A q \in Requests \ {r} : req'[q] = req[q]
    BY OthersKept DEF Types
  <1> DEFINE tasks == DeleteTasks(req[r].of, ids) \union Tasks({"unreply"}, up)
  <1>2. /\ req'[r].pc = "tasks" /\ req'[r].op = req[r].op /\ req'[r].of = req[r].of /\ req'[r].to = req[r].to
        /\ req'[r].ids = ids /\ req'[r].tasks = tasks
    BY OwnStep DEF Types
  <1>3. Apt(r) /\ Known(r) /\ req[r].op = "uncomment"
    BY ReqType DEF ShapeInv, AptInv, KnownInv, GoodRequest, AboutComment
  <1>4. \A c : Created(c) => Created(c)'
    BY <1>1, <1>2 DEF Created
  <1>5. \A t \in tasks : \/ t.what \in {"delete", "uncount", "unnote"} /\ t.of = req[r].of
                         \/ t.what = "unlog" /\ t.of \in ids
                         \/ t.what = "unreply" /\ t.of \in up
    BY DEF DeleteTasks, Tasks
  <1>6. \A t \in tasks : Fits(r, t)'
    BY <1>2, <1>3, <1>5 DEF Fits
  <1>7. \A t \in tasks : t.what # "log" /\ t.what # "unscore"
    BY <1>5
  <1>8. twice'[r] = {}
    BY <1>3 DEF Apt
  <1> HIDE DEF tasks
  <1>9. Apt(r)'
    BY <1>2, <1>3, <1>6, <1>7, <1>8 DEF Apt
  <1>10. Known(r)'
    BY <1>2, <1>3, <1>4, <1>7, <1>8 DEF Known, Pending
  <1> QED
    BY <1>1, <1>9, <1>10, StillShape

LEMMA ReadsShape ==
  ASSUME Types, ThreadInv, ShapeInv, NEW r \in Requests, Reads(r)
  PROVE  ShapeInv'
  <1> USE ReqType
  <1>0. UNCHANGED <<post_, parent, logs, twice>>
    BY DEF Reads, Refuse, FindTarget, FindRepost, FindTargetAgain, FindParent, FindComment, FindReplies, thread, contributions
  <1>1. CASE Finish(r)
    BY <1>0, <1>1, FinishShape
  <1>2. CASE \E pc \in {"parent", "create", "drop", "exists", "unnote", "replies"} :
                /\ Goto(r, pc) /\ req[r].pc \in {"target", "exists", "recheck", "parent", "find"}
                /\ pc = "drop" => req[r].op \in {"unlike", "unrepost"}
    BY <1>0, <1>2, GotoShape
  <1>3. FindTarget(r) => \E pc \in {"parent", "create", "drop", "exists"} :
             Goto(r, pc) /\ req[r].pc = "target" /\ (pc = "drop" => req[r].op \in {"unlike", "unrepost"})
    <2> DEFINE pc == IF req[r].to # {} THEN "parent" ELSE Found[req[r].op]
    <2>1. FindTarget(r) => req[r].pc = "target" /\ req[r].op \in {"like", "unlike", "repost", "comment"} /\ Goto(r, pc)
      BY DEF FindTarget, At, GoodRequest, AboutComment
    <2>2. req[r].op \in {"like", "unlike", "repost", "comment"} =>
             pc \in {"parent", "create", "drop", "exists"} /\ (pc = "drop" => req[r].op = "unlike")
      BY DEF Found
    <2> HIDE DEF pc
    <2> QED
      BY <2>1, <2>2
  <1>4. FindRepost(r) => Finish(r) \/ (Goto(r, "create") /\ req[r].pc = "exists")
    BY DEF FindRepost, At
  <1>5. FindTargetAgain(r) => Finish(r) \/ (Goto(r, "unnote") /\ req[r].pc = "recheck")
    BY DEF FindTargetAgain, At
  <1>6. FindParent(r) => Goto(r, "create") /\ req[r].pc = "parent"
    BY DEF FindParent, At
  <1>7. ASSUME FindComment(r), ~Finish(r), ~Goto(r, "replies")
        PROVE  ShapeInv'
    <2> DEFINE c == req[r].of
               up == parent[c]
    <2>1. /\ req[r].pc = "find" /\ c \in docs \intersect Comments /\ ~TopLevel(c)
          /\ Launch(r, {c}, DeleteTasks(c, {c}) \union Tasks({"unreply"}, up))
      BY <1>7 DEF FindComment, At, GoodRequest, AboutComment
    <2>2. Created(c)
      BY <2>1 DEF ThreadInv
    <2>3. up = {} \/ \E p : up = {p}
      BY <2>1 DEF ShapeInv, KnownInv
    <2> QED
      BY <1>0, <2>1, <2>2, <2>3, DeletionShape
  <1>8. FindComment(r) => Finish(r) \/ (Goto(r, "replies") /\ req[r].pc = "find") \/ (~Finish(r) /\ ~Goto(r, "replies"))
    BY DEF FindComment, At
  <1>9. ASSUME FindReplies(r)
        PROVE  ShapeInv'
    <2> DEFINE ids == CommentsToDelete(req[r].of)
    <2>1. req[r].pc = "replies" /\ req[r].of \in Comments /\ req[r].op = "uncomment"
          /\ Launch(r, ids, DeleteTasks(req[r].of, ids))
      BY <1>9 DEF FindReplies, At, GoodRequest, AboutComment
    <2>2. DeleteTasks(req[r].of, ids) = DeleteTasks(req[r].of, ids) \union Tasks({"unreply"}, {})
      BY DEF Tasks
    <2>3. ids \in SUBSET Comments
      BY <2>1 DEF CommentsToDelete
    <2>4. ASSUME NEW c \in ids PROVE Created(c)
      <3>1. CASE c = req[r].of
        BY <2>1, <3>1 DEF ShapeInv, KnownInv, Known
      <3>2. CASE c # req[r].of
        BY <3>2 DEF ThreadInv, CommentsToDelete
      <3> QED
        BY <3>1, <3>2
    <2> HIDE DEF ids
    <2>5. Launch(r, ids, DeleteTasks(req[r].of, ids) \union Tasks({"unreply"}, {}))
      BY <2>1, <2>2
    <2> QED
      BY <1>0, <2>1, <2>3, <2>4, <2>5, DeletionShape
  <1> QED
    BY <1>1, <1>2, <1>3, <1>4, <1>5, <1>6, <1>7, <1>8, <1>9 DEF Reads, Refuse

LEMMA CreateShape ==
  ASSUME Types, ThreadInv, ShapeInv, NEW r \in Requests, CreateComment(r)
  PROVE  ShapeInv'
  <1> DEFINE x == <<"comment", r>>
  <1>1. /\ req[r].pc = "create" /\ req[r].op = "comment" /\ req[r].of = x /\ x \in Comments
        /\ \A p, q \in req[r].to : p = q
        /\ parent' = [parent EXCEPT ![x] = req[r].to] /\ UNCHANGED <<post_, logs, twice>>
        /\ parent \in [Comments -> SUBSET Comments] /\ logs \in SUBSET Comments
    BY CommentSubjects DEF CreateComment, At, ThreadInv, Sensible, contributions, Types, Collections
  <1>2. PICK tasks \in CommentTasks(r) : Launch(r, {}, tasks)
    BY DEF CreateComment
  <1>3. Others(r)
    BY <1>1, <1>2, OthersKept DEF Types, Others
  <1>4. /\ req'[r].pc = "tasks" /\ req'[r].ids = {} /\ req'[r].tasks = tasks
        /\ req'[r].op = req[r].op /\ req'[r].of = req[r].of /\ req'[r].to = req[r].to
    BY <1>2, OwnStep DEF Types
  <1>5. ~Created(x) /\ Created(x)' /\ Apt(r) /\ Known(r)
    BY <1>1, <1>4 DEF Created, ShapeInv, AptInv, KnownInv
  <1>6. x \notin logs
    BY <1>5 DEF ShapeInv, KnownInv
  <1>7. \A t \in tasks : \/ t.what \in {"count", "note", "log", "score"} /\ t.of = x
                         \/ t.what = "reply" /\ t.of \in req[r].to
    BY <1>1, <1>2 DEF CommentTasks, Tasks
  <1>8. parent'[x] = req[r].to /\ twice'[r] = {} /\ twice[r] = {}
    BY <1>1, <1>5 DEF Apt
  <1>9. \A t \in tasks : Fits(r, t)'
    BY <1>1, <1>4, <1>7, <1>8 DEF Fits
  <1>10. Apt(r)'
    BY <1>1, <1>4, <1>5, <1>7, <1>8, <1>9 DEF Apt
  <1>11. \A c : Created(c) => Created(c)'
    BY <1>3, <1>4 DEF Created, Others
  <1>12. \A p \in req[r].to : Created(p)
    BY <1>1, <1>5 DEF Known
  <1>13. Known(r)'
    BY <1>1, <1>4, <1>6, <1>8, <1>11, <1>12 DEF Known
  <1>14. \A c \in Comments : parent'[c] = parent[c] \/ (~Created(c) /\ Created(c)' /\ \A p \in parent'[c] : Created(p) /\ parent'[c] = {p})
    <2>1. \A c \in Comments : c # x => parent'[c] = parent[c]
      BY <1>1
    <2>2. \A p \in parent'[x] : Created(p) /\ parent'[x] = {p}
      BY <1>1, <1>8, <1>12
    <2> QED
      BY <1>5, <2>1, <2>2
  <1>15. job' = job /\ logs' = logs /\ req[r].pc \notin {"tasks", "done"}
    BY <1>1 DEF post_
  <1> QED
    BY <1>3, <1>10, <1>13, <1>14, <1>15, ShapeFrame

LEMMA WritesShape ==
  ASSUME Types, ThreadInv, ShapeInv, NEW r \in Requests, Writes(r)
  PROVE  ShapeInv'
  <1> USE ReqType
  <1>1. CASE CreateComment(r)
    BY <1>1, CreateShape
  <1>2. CASE ~CreateComment(r)
    <2>0. UNCHANGED <<post_, parent, logs, twice>>
      BY <1>2 DEF Writes, CreateReaction, CountReaction, UndoLike, SendNote, DropReaction, UncountRepost, RemoveNote,
                  thread, contributions
    <2>1. CASE Finish(r)
      BY <2>0, <2>1, FinishShape
    <2>2. CASE \E pc \in {"count", "undo", "note", "uncount", "recheck"} :
                  /\ Goto(r, pc) /\ req[r].pc \in {"create", "count", "drop", "uncount"}
                  /\ pc = "uncount" => req[r].op = "unrepost"
      BY <2>0, <2>2, GotoShape
    <2>3. Apt(r) /\ Known(r)
      BY DEF ShapeInv, AptInv, KnownInv
    <2>4. ASSUME req[r].pc = "drop", req[r].op = "unlike", Launch(r, {}, Tasks({"uncount", "unnote"}, {req[r].of}))
          PROVE  ShapeInv'
      <3> DEFINE tasks == Tasks({"uncount", "unnote"}, {req[r].of})
      <3>1. \A q \in Requests \ {r} : req'[q] = req[q]
        BY <2>4, OthersKept
      <3>2. /\ req'[r].pc = "tasks" /\ req'[r].op = req[r].op /\ req'[r].of = req[r].of /\ req'[r].to = req[r].to
            /\ req'[r].ids = {} /\ req'[r].tasks = tasks
        BY <2>4, OwnStep
      <3>3. \A t \in tasks : t.what \in {"uncount", "unnote"} /\ t.of = req[r].of
        BY DEF Tasks
      <3>4. \A t \in tasks : Fits(r, t)'
        BY <2>4, <3>2, <3>3 DEF Fits
      <3>5. twice'[r] = {}
        BY <2>0, <2>3, <2>4 DEF Apt
      <3> HIDE DEF tasks
      <3>6. Apt(r)' /\ Known(r)'
        BY <2>3, <2>4, <3>2, <3>3, <3>4, <3>5 DEF Apt, Known, Pending
      <3> QED
        BY <2>0, <2>4, <3>1, <3>6, StillShape
    <2>5. CreateReaction(r) => Finish(r) \/ (Goto(r, "count") /\ req[r].pc = "create")
      BY DEF CreateReaction, At
    <2>6. CountReaction(r) => \E pc \in {"undo", "note"} : Goto(r, pc) /\ req[r].pc = "count"
      BY DEF CountReaction, At, AfterCount
    <2>7. DropReaction(r) => \/ Finish(r)
                             \/ /\ req[r].pc = "drop" /\ req[r].op = "unlike"
                                /\ Launch(r, {}, Tasks({"uncount", "unnote"}, {req[r].of}))
                             \/ Goto(r, "uncount") /\ req[r].pc = "drop" /\ req[r].op = "unrepost"
      BY <2>3 DEF DropReaction, At, Apt
    <2>8. UncountRepost(r) => Goto(r, "recheck") /\ req[r].pc = "uncount"
      BY DEF UncountRepost, At
    <2>9. UndoLike(r) \/ SendNote(r) \/ RemoveNote(r) => Finish(r)
      BY DEF UndoLike, SendNote, RemoveNote
    <2> QED
      BY <1>2, <2>1, <2>2, <2>4, <2>5, <2>6, <2>7, <2>8, <2>9 DEF Writes
  <1> QED
    BY <1>1, <1>2

\* A branch goes, and what it launches takes its place.
LEMMA Branches ==
  ASSUME Types, AptInv, NEW r \in Requests, NEW t \in req[r].tasks,
         \/ CountTask(r, t) \/ ReplyTask(r, t) \/ NoteTask(r, t) \/ LogTask(r, t) \/ ScoreTask(r, t)
         \/ DeleteTask(r, t) \/ UnlogTask(r, t) \/ UnnoteTask(r, t)
  PROVE  \E more \in SUBSET Task :
            /\ Resume(r, Rest(r, t) \union more)
            /\ more = IF t.what = "unlog" /\ Logged(t.of) THEN Tasks({"unscore"}, {t.of}) ELSE {}
            /\ \A u \in more : u.what = "unscore" /\ u.of = t.of /\ t.what = "unlog"
            /\ {u.of : u \in more} = IF t.what = "unlog" /\ Logged(t.of) THEN {t.of} ELSE {}
  <1> DEFINE more == IF t.what = "unlog" /\ Logged(t.of) THEN Tasks({"unscore"}, {t.of}) ELSE {}
  <1>1. t \in Task /\ t.of \in Subjects
    BY ReqType DEF Task
  <1>2. Tasks({"unscore"}, {t.of}) \in SUBSET Task
    BY <1>1, TasksType DEF Whats
  <1>3. \A u \in Tasks({"unscore"}, {t.of}) : u.what = "unscore" /\ u.of = t.of
    BY DEF Tasks
  <1>4. {u.of : u \in Tasks({"unscore"}, {t.of})} = {t.of}
    <2>1. [what |-> "unscore", of |-> t.of] \in Tasks({"unscore"}, {t.of})
      BY DEF Tasks
    <2> QED
      BY <1>3, <2>1
  <1>5. Resume(r, Rest(r, t) \union more)
    <2>1. CASE UnlogTask(r, t)
      <3>1. t.what = "unlog"
        BY <2>1 DEF UnlogTask
      <3> QED
        BY <2>1, <3>1 DEF UnlogTask
    <2>2. CASE ~UnlogTask(r, t)
      <3>1. t.what # "unlog" /\ Resume(r, Rest(r, t))
        BY <2>2 DEF CountTask, ReplyTask, NoteTask, LogTask, ScoreTask, DeleteTask, UnnoteTask
      <3>2. more = {}
        BY <3>1
      <3>3. Rest(r, t) \union more = Rest(r, t)
        BY <3>2
      <3> QED
        BY <3>1, <3>3
    <2> QED
      BY <2>1, <2>2
  <1> QED
    BY <1>2, <1>3, <1>4, <1>5

LEMMA TaskShape ==
  ASSUME Types, ThreadInv, ShapeInv, NEW r \in Requests, DoTask(r)
  PROVE  ShapeInv'
  <1> USE ReqType
  <1>0. PICK t \in req[r].tasks :
          \/ CountTask(r, t) \/ ReplyTask(r, t) \/ NoteTask(r, t) \/ LogTask(r, t) \/ ScoreTask(r, t)
          \/ DeleteTask(r, t) \/ UnlogTask(r, t) \/ UnnoteTask(r, t)
    BY DEF DoTask
  <1>1. PICK more \in SUBSET Task :
            /\ Resume(r, Rest(r, t) \union more)
            /\ \A u \in more : u.what = "unscore" /\ u.of = t.of /\ t.what = "unlog"
    BY <1>0, Branches DEF ShapeInv
  <1>2. job' = job /\ req[r].pc = "tasks" /\ parent' = parent
    BY <1>0 DEF DoTask, At, post_, CountTask, ReplyTask, NoteTask, LogTask, ScoreTask, DeleteTask, UnlogTask, UnnoteTask, thread
  <1>3. twice' = twice \/ (t.what = "delete" /\ twice' = [twice EXCEPT ![r] = @ \union (req[r].ids \ docs)])
    BY <1>0 DEF CountTask, ReplyTask, NoteTask, LogTask, ScoreTask, DeleteTask, UnlogTask, UnnoteTask
  <1>4. logs' \subseteq logs \/ (t.what = "log" /\ logs' = logs \union {t.of})
    BY <1>0 DEF CountTask, ReplyTask, NoteTask, LogTask, ScoreTask, DeleteTask, UnlogTask, UnnoteTask, contributions
  <1>5. Others(r) /\ twice \in [Requests -> SUBSET Comments]
    BY <1>1, <1>3, OthersKept DEF Types, Collections, Others
  <1> DEFINE tasks == Rest(r, t) \union more
  <1>6. /\ req'[r].tasks = tasks
        /\ \/ req'[r].pc = "done" /\ req'[r].ids = {}
           \/ /\ req'[r].pc = "tasks" /\ req'[r].op = req[r].op /\ req'[r].of = req[r].of
              /\ req'[r].to = req[r].to /\ req'[r].ids = req[r].ids
        /\ tasks # {} => req'[r].pc = "tasks"
    BY <1>1, <1>2, OwnStep DEF NoRequest
  <1>7. Apt(r) /\ Known(r) /\ Sensible(r) /\ Fits(r, t) /\ \A u \in req[r].tasks : u \in Task /\ Fits(r, u)
    BY DEF ShapeInv, AptInv, KnownInv, Apt, ThreadInv
  <1>8. \A u \in tasks : (u \in req[r].tasks /\ u # t) \/ u \in more
    BY DEF Rest
  <1> HIDE DEF tasks
  <1>9. \A u \in tasks : Fits(r, u)'
    BY <1>1, <1>2, <1>6, <1>7, <1>8 DEF Fits
  <1>10. \A u \in tasks : u.what = "unscore" => u.of \notin PendingOn(req'[r], "unlog")
    <2>1. ASSUME NEW u \in tasks, u.what = "unscore", NEW v \in tasks, v.what = "unlog", v.of = u.of
          PROVE  FALSE
      <3>1. v \in req[r].tasks /\ v # t
        BY <1>1, <1>8, <2>1
      <3>2. CASE u \in req[r].tasks
        BY <1>7, <2>1, <3>1, <3>2 DEF Apt, PendingOn
      <3>3. CASE u \in more
        BY <1>1, <1>7, <2>1, <3>1, <3>3, SameTask
      <3> QED
        BY <1>8, <3>2, <3>3
    <2> QED
      BY <1>6, <2>1 DEF PendingOn
  <1>11. Pending(req'[r], "delete") => twice'[r] = {}
    <2>1. ASSUME Pending(req'[r], "delete") PROVE twice'[r] = {}
      <3>1. PICK u \in tasks : u.what = "delete"
        BY <1>6, <2>1 DEF Pending
      <3>2. u \in req[r].tasks /\ u # t
        BY <1>1, <1>8, <3>1
      <3>3. t.what # "delete"
        BY <3>1, <3>2, OneBranch DEF ShapeInv, Single
      <3>4. twice'[r] = twice[r]
        BY <1>3, <3>3
      <3> QED
        BY <1>7, <3>1, <3>2, <3>4 DEF Apt, Pending
    <2> QED
      BY <2>1
  <1>12. Apt(r)'
    <2>1. req'[r].pc \in {"tasks", "done"} /\ (req'[r].pc # "tasks" => tasks = {})
      BY <1>6
    <2> QED
      BY <1>2, <1>6, <1>7, <1>9, <1>10, <1>11, <2>1 DEF Apt
  <1>13. \A c : Created(c) => Created(c)'
    BY <1>5, <1>6 DEF Created, Others
  <1>14. \A c \in req'[r].ids \union twice'[r] : Created(c)'
    <2>1. twice'[r] \subseteq twice[r] \union req[r].ids
      BY <1>3, <1>5
    <2> QED
      BY <1>6, <1>7, <1>13, <2>1 DEF Known
  <1>15. Pending(req'[r], "log") => req'[r].of \notin logs'
    <2>1. ASSUME Pending(req'[r], "log") PROVE req'[r].of \notin logs'
      <3>1. PICK u \in tasks : u.what = "log"
        BY <1>6, <2>1 DEF Pending
      <3>2. u \in req[r].tasks /\ u # t
        BY <1>1, <1>8, <3>1
      <3>3. t.what # "log"
        BY <3>1, <3>2, OneBranch DEF ShapeInv, Single
      <3>4. logs' \subseteq logs /\ req[r].of \notin logs
        BY <1>4, <1>7, <3>1, <3>2, <3>3 DEF Known, Pending
      <3> QED
        BY <1>6, <3>1, <3>4
    <2> QED
      BY <2>1
  <1>16. Known(r)'
    BY <1>2, <1>6, <1>7, <1>13, <1>14, <1>15 DEF Known
  <1>17. \A c \in logs' : c \in logs \/ (c = <<"comment", r>> /\ Created(c))
    <2>1. t.what = "log" => t.of = <<"comment", r>>
      BY <1>7 DEF Fits, Sensible
    <2>2. Created(<<"comment", r>>)
      BY <1>2 DEF Created
    <2> QED
      BY <1>4, <2>1, <2>2
  <1>18. req'[r].pc \in {"tasks", "done"}
    BY <1>6
  <1> QED
    BY <1>2, <1>5, <1>12, <1>16, <1>17, <1>18, ShapeFrame

LEMMA JobShape ==
  ASSUME Types, ThreadInv, ShapeInv, Deletion
  PROVE  ShapeInv'
  <1>1. UNCHANGED <<req, parent, twice>> /\ logs' \subseteq logs
    BY DEF Deletion, JobStep, MarkDeleting, JobRead, JobFindLogs, JobDeleteLogs, JobRemoveNotes, JobUncount, JobDelete,
           JobRemovePost, thread, contributions
  <1>2. \A c \in job'.found : c \in logs \/ c \in job.found
    <2>1. job \in Job
      BY DEF Types, JobOK
    <2>2. CASE MarkDeleting \/ JobDelete \/ JobRemovePost
      BY <2>2 DEF MarkDeleting, JobDelete, JobRemovePost, NoJob
    <2>7. CASE JobRead
      BY <2>7 DEF JobRead, NoJob
    <2>3. CASE JobFindLogs
      BY <2>1, <2>3 DEF JobFindLogs, JobGoesOn, NoJob, Job
    <2>4. CASE JobDeleteLogs
      BY <2>1, <2>4 DEF JobDeleteLogs, JobGoesOn, NoJob, Job
    <2>5. CASE JobRemoveNotes
      BY <2>1, <2>5 DEF JobRemoveNotes, JobGoesOn, NoJob, Job
    <2>6. ASSUME NEW u \in Users, JobUncount(u) PROVE \A c \in job'.found : c \in logs \/ c \in job.found
      BY <2>1, <2>6 DEF JobUncount, JobGoesOn, NoJob, Job
    <2> QED
      BY <2>2, <2>7, <2>3, <2>4, <2>5, <2>6 DEF Deletion, JobStep
  <1>3. \A c : Created(c)' <=> Created(c)
    BY <1>1 DEF Created
  <1>4. AptInv'
    BY <1>1 DEF ShapeInv, AptInv, Apt, Fits
  <1>5. \A r \in Requests : Known(r)'
    BY <1>1, <1>3 DEF ShapeInv, KnownInv, Known
  <1> QED
    BY <1>1, <1>2, <1>3, <1>4, <1>5 DEF ShapeInv, KnownInv

LEMMA NextShape == Types /\ ThreadInv /\ ShapeInv /\ [Next]_vars => ShapeInv'
  <1> SUFFICES ASSUME Types, ThreadInv, ShapeInv, [Next]_vars PROVE ShapeInv'
    OBVIOUS
  <1>1. CASE \E r \in Requests, op \in Op, s \in Reactions : React(r, op, s)
    BY <1>1, SendShape
  <1>2. CASE \E r \in Requests, u \in Users, to \in {{}} \union {{c} : c \in docs \intersect Comments} : Say(r, u, to)
    BY <1>2, SendShape
  <1>3. CASE \E r \in Requests, c \in docs \intersect Comments : Unsay(r, c)
    BY <1>3, SendShape
  <1>4. CASE \E r \in Requests : Step(r)
    BY <1>4, ReadsShape, WritesShape, TaskShape DEF Step, Reads, Writes
  <1>5. CASE Deletion
    BY <1>5, JobShape
  <1>6. CASE UNCHANGED vars
    BY <1>6 DEF vars, post_, thread, contributions, ShapeInv, AptInv, KnownInv, Apt, Known, Fits, Created
  <1> QED
    BY <1>1, <1>2, <1>3, <1>4, <1>5, <1>6 DEF Next, Deletion

----------------------------------------------------------------------------
(* The ledger stays balanced.                                              *)

LedgerInv == CountInv /\ ScoreInv

LEMMA PartSizes ==
  ASSUME Types, Types', NEW r \in Requests, NEW S \in SUBSET Subjects
  PROVE  /\ Size(docs, S) \in Nat /\ Size(docs', S) \in Nat /\ Size(logs, S) \in Nat /\ Size(logs', S) \in Nat
         /\ Size(twice[r], S) \in Nat /\ Size(twice'[r], S) \in Nat
         /\ Size(Adds(req[r]), S) \in Nat /\ Size(Deletes(req[r]), S) \in Nat /\ Size(Takes(req[r]), S) \in Nat
         /\ Size(AddsReply(req[r]), S) \in Nat /\ Size(TakesReply(req[r]), S) \in Nat
         /\ Size(Scores(req[r]), S) \in Nat /\ Size(Logs(req[r]), S) \in Nat /\ Size(Unscores(req[r]), S) \in Nat
  <1>1. \A D \in SUBSET Subjects : Size(D, S) \in Nat
    BY SizeSplit
  <1>2. /\ docs \in SUBSET Subjects /\ docs' \in SUBSET Subjects /\ logs \in SUBSET Subjects /\ logs' \in SUBSET Subjects
        /\ twice[r] \in SUBSET Subjects /\ twice'[r] \in SUBSET Subjects /\ req[r] \in Request
    BY CommentSubjects DEF Types, Collections, ReqsOK, GoodRequest
  <1>3. /\ Adds(req[r]) \in SUBSET Subjects /\ Deletes(req[r]) \in SUBSET Subjects /\ Takes(req[r]) \in SUBSET Subjects
        /\ AddsReply(req[r]) \in SUBSET Subjects /\ TakesReply(req[r]) \in SUBSET Subjects
        /\ Scores(req[r]) \in SUBSET Subjects /\ Logs(req[r]) \in SUBSET Subjects /\ Unscores(req[r]) \in SUBSET Subjects
    BY <1>2, PartsType
  <1> QED
    BY <1>1, <1>2, <1>3

\* A step of one request that keeps the balance of everything.
LEMMA LedgerFrame ==
  ASSUME Types, Types', ThreadInv, ShapeInv, LedgerInv, NEW r \in Requests, Others(r), UNCHANGED <<post_, taken>>,
         Visible => \A k \in Kinds : CountStep(r, k),
         Visible => \A p \in Comments : p \in docs' \/ ~Created(p)' => (p \in docs \/ ~Created(p)) /\ ReplyStep(r, p),
         \A u \in Users : ScoreStep(r, u),
         \A c \in Comments : Created(c) => parent'[c] = parent[c] /\ author'[c] = author[c]
  PROVE  LedgerInv'
  <1>1. Visible' = Visible
    BY DEF Visible, post_
  <1>2. Visible => \A k \in Kinds : CountOK(k)'
    BY StepCounts DEF LedgerInv, CountInv
  <1>3. ASSUME Visible, NEW p \in Comments, p \in docs' \/ ~Created(p)' PROVE ReplyOK(p)'
    BY <1>3, StepReplies DEF LedgerInv, CountInv, ShapeInv
  <1>4. CountInv'
    BY <1>1, <1>2, <1>3 DEF CountInv
  <1>5. ASSUME NEW u \in Users
        PROVE  /\ Visible' => Due(u)' = Told(u)'
               /\ Due(u)' + taken'[u] >= Told(u)' + Cardinality(JobTakes(u)')
    <2>1. (Visible => Due(u) = Told(u)) /\ Due(u) + taken[u] >= Told(u) + Cardinality(JobTakes(u))
      BY DEF LedgerInv, ScoreInv
    <2> QED
      BY <2>1, StepScores DEF ShapeInv
  <1>6. ScoreInv'
    BY <1>5 DEF ScoreInv
  <1> QED
    BY <1>4, <1>6 DEF LedgerInv

\* The parts of the balances that a step leaves alone.
LEMMA SameCounts ==
  ASSUME Types, Types', NEW r \in Requests, twice' = twice, docs' \subseteq docs, count' = count,
         Adds(req'[r]) = Adds(req[r]), Deletes(req'[r]) = Deletes(req[r]), Takes(req'[r]) = Takes(req[r])
  PROVE  \A k \in Kinds : CountStep(r, k)
  <1> TAKE k \in Kinds
  <1> DEFINE S == OfKind(k)
  <1>1. S \in SUBSET Subjects /\ docs \in SUBSET Subjects /\ count[k] \in Int
    BY DEF OfKind, Types, Collections
  <1>2. Size(docs', S) <= Size(docs, S)
    BY <1>1, SizeOfLess
  <1>3. /\ Size(docs, S) \in Nat /\ Size(docs', S) \in Nat /\ Size(twice[r], S) \in Nat
        /\ Size(Adds(req[r]), S) \in Nat /\ Size(Deletes(req[r]), S) \in Nat /\ Size(Takes(req[r]), S) \in Nat
    BY <1>1, PartSizes
  <1> HIDE DEF S
  <1> QED
    BY <1>1, <1>2, <1>3 DEF CountStep, S

LEMMA SameReplies ==
  ASSUME Types, Types', NEW r \in Requests, twice' = twice, docs' \intersect Comments \subseteq docs,
         replies' = replies, parent' = parent, AddsReply(req'[r]) = AddsReply(req[r]),
         Deletes(req'[r]) = Deletes(req[r]), TakesReply(req'[r]) = TakesReply(req[r])
  PROVE  \A p \in Comments : ReplyStep(r, p)
  <1> TAKE p \in Comments
  <1> DEFINE S == RepliesTo(p)
  <1>1. S \in SUBSET Subjects /\ docs \in SUBSET Subjects /\ replies[p] \in Int /\ RepliesTo(p)' = S
    BY CommentSubjects DEF RepliesTo, Types, Collections
  <1>2. Size(docs', S) <= Size(docs, S)
    <2>1. docs' \intersect Comments \in SUBSET docs
      OBVIOUS
    <2>2. Size(docs' \intersect Comments, S) <= Size(docs, S)
      <3> HIDE DEF S
      <3> QED
        BY <1>1, <2>1, SizeOfLess
    <2>3. (docs' \intersect Comments) \intersect S = docs' \intersect S
      BY DEF RepliesTo
    <2> QED
      BY <2>2, <2>3 DEF Size
  <1>3. /\ Size(docs, S) \in Nat /\ Size(docs', S) \in Nat /\ Size(twice[r], S) \in Nat
        /\ Size(AddsReply(req[r]), S) \in Nat /\ Size(Deletes(req[r]), S) \in Nat /\ Size(TakesReply(req[r]), S) \in Nat
    BY <1>1, PartSizes
  <1> HIDE DEF S
  <1> QED
    BY <1>1, <1>2, <1>3 DEF ReplyStep, S

LEMMA SameScores ==
  ASSUME Types, Types', ThreadInv, ShapeInv, NEW r \in Requests, Scores(req'[r]) = Scores(req[r]),
         Logs(req'[r]) = Logs(req[r]), Unscores(req'[r]) = Unscores(req[r]),
         \A c \in Comments : Created(c) => author'[c] = author[c], UNCHANGED <<score, logs>>
  PROVE  \A u \in Users : ScoreStep(r, u)
  <1> TAKE u \in Users
  <1> DEFINE S == By(u)
             T == By(u)'
  <1>1. S \in SUBSET Subjects /\ T \in SUBSET Subjects /\ score[u] \in Int
    BY CommentSubjects DEF By, Types, Collections
  <1>2. \A c : Created(c) => (c \in S <=> c \in T)
    BY DEF By
  <1> HIDE DEF S, T
  <1>3. \A c \in logs \union Scores(req[r]) \union Logs(req[r]) \union Unscores(req[r]) : Created(c)
    BY PartsCreated DEF ShapeInv, KnownInv
  <1>4. ASSUME NEW D, \A c \in D : Created(c) PROVE Size(D, S) = Size(D, T)
    <2>1. D \intersect S = D \intersect T
      BY <1>2, <1>4
    <2> QED
      BY <2>1 DEF Size
  <1>5. /\ Size(logs, S) = Size(logs, T) /\ Size(Scores(req[r]), S) = Size(Scores(req[r]), T)
        /\ Size(Logs(req[r]), S) = Size(Logs(req[r]), T) /\ Size(Unscores(req[r]), S) = Size(Unscores(req[r]), T)
    BY <1>3, <1>4
  <1>6. /\ Size(logs, S) \in Nat /\ Size(Scores(req[r]), S) \in Nat /\ Size(Logs(req[r]), S) \in Nat
        /\ Size(Unscores(req[r]), S) \in Nat
    BY <1>1, PartSizes
  <1> QED
    BY <1>1, <1>5, <1>6 DEF ScoreStep, S, T

\* Comments that are there or yet to be created were so before, but for a new one.
LEMMA SameGuard ==
  ASSUME NEW r \in Requests, Others(r), docs' \intersect Comments \subseteq docs,
         req[r].pc \in {"tasks", "done"} => req'[r].pc \in {"tasks", "done"}
  PROVE  \A p \in Comments : p \in docs' \/ ~Created(p)' => p \in docs \/ ~Created(p)
  BY DEF Created, Others

\* A step that creates nothing and counts nothing.
LEMMA StillLedger ==
  ASSUME Types, Types', ThreadInv, ShapeInv, LedgerInv, NEW r \in Requests, \A q \in Requests \ {r} : req'[q] = req[q],
         UNCHANGED <<post_, count, replies, parent, contributions, twice>>, docs' \subseteq docs, Same(req'[r], req[r]),
         req[r].pc \in {"tasks", "done"} => req'[r].pc \in {"tasks", "done"},
         \A c \in Comments : Created(c) => author'[c] = author[c]
  PROVE  LedgerInv'
  <1>1. Others(r) /\ UNCHANGED <<score, logs, taken>>
    BY DEF Others, contributions
  <1>2. /\ Adds(req'[r]) = Adds(req[r]) /\ Deletes(req'[r]) = Deletes(req[r]) /\ Takes(req'[r]) = Takes(req[r])
        /\ AddsReply(req'[r]) = AddsReply(req[r]) /\ TakesReply(req'[r]) = TakesReply(req[r])
        /\ Scores(req'[r]) = Scores(req[r]) /\ Logs(req'[r]) = Logs(req[r]) /\ Unscores(req'[r]) = Unscores(req[r])
    BY DEF Same
  <1>3. \A k \in Kinds : CountStep(r, k)
    BY <1>2, SameCounts
  <1>4. \A p \in Comments : ReplyStep(r, p)
    BY <1>2, SameReplies
  <1>5. \A u \in Users : ScoreStep(r, u)
    BY <1>1, <1>2, SameScores
  <1>6. \A p \in Comments : p \in docs' \/ ~Created(p)' => p \in docs \/ ~Created(p)
    BY <1>1, SameGuard
  <1> QED
    BY <1>1, <1>3, <1>4, <1>5, <1>6, LedgerFrame

LEMMA SameNothing == \A p, q : Nothing(p) /\ Nothing(q) => Same(p, q)
  BY DEF Nothing, Same

LEMMA SendLedger ==
  ASSUME Types, Types', ThreadInv, ShapeInv, LedgerInv, NEW r \in Requests,
         \/ \E op \in Op, s \in Reactions : React(r, op, s)
         \/ \E u \in Users, to \in {{}} \union {{c} : c \in docs \intersect Comments} : Say(r, u, to)
         \/ \E c \in docs \intersect Comments : Unsay(r, c)
  PROVE  LedgerInv'
  <1>1. At(r, "idle") /\ UNCHANGED <<post_, docs, count, replies, parent, contributions, twice>>
    BY DEF React, Say, Unsay, thread
  <1>2. \A q \in Requests \ {r} : req'[q] = req[q]
    BY DEF React, Say, Unsay, Types, ReqsOK
  <1>3. req[r] \in Request /\ req[r].tasks = {}
    BY <1>1, ReqType DEF At, GoodRequest, ShapeInv, AptInv, Apt
  <1>4. req'[r].pc \in {"target", "drop", "find"} /\ req'[r].tasks = {}
    <2>1. ASSUME NEW op \in Op, NEW s \in Reactions, React(r, op, s)
          PROVE  req'[r].pc \in {"target", "drop", "find"} /\ req'[r].tasks = {}
      <3>1. /\ req'[r].pc = Entry[op] /\ req'[r].tasks = {}
        BY <1>3, <2>1 DEF React, Types, ReqsOK, Request
      <3>2. Entry[op] \in {"target", "drop"}
        BY <2>1, EntryType DEF React
      <3> QED
        BY <3>1, <3>2
    <2>2. ASSUME NEW u \in Users, NEW to, Say(r, u, to)
          PROVE  req'[r].pc \in {"target", "drop", "find"} /\ req'[r].tasks = {}
      BY <1>3, <2>2, EntryType DEF Say, Types, ReqsOK, Request
    <2>3. ASSUME NEW c, Unsay(r, c)
          PROVE  req'[r].pc \in {"target", "drop", "find"} /\ req'[r].tasks = {}
      BY <1>3, <2>3, EntryType DEF Unsay, Types, ReqsOK, Request
    <2> QED
      BY <2>1, <2>2, <2>3
  <1>5. Same(req'[r], req[r])
    <2>1. Nothing(req'[r]) /\ Nothing(req[r])
      BY <1>1, <1>3, <1>4, NothingYet DEF At
    <2> QED
      BY <2>1, SameNothing
  <1>6. \A c \in Comments : Created(c) => author'[c] = author[c]
    <2>1. ~Created(<<"comment", r>>)
      BY <1>1 DEF Created, At
    <2>2. author' = author \/ \E u \in Users : author' = [author EXCEPT ![<<"comment", r>>] = u]
      BY DEF React, Say, Unsay, thread
    <2> QED
      BY <2>1, <2>2 DEF Types, Collections
  <1> QED
    BY <1>1, <1>2, <1>5, <1>6, StillLedger DEF At

\* A request that owed nothing and owes nothing.
LEMMA IdleLedger ==
  ASSUME Types, Types', ThreadInv, ShapeInv, LedgerInv, NEW r \in Requests,
         req[r].pc \notin {"count", "uncount", "tasks", "done"},
         UNCHANGED <<post_, count, thread, contributions, twice>>, docs' \subseteq docs,
         Finish(r) \/ \E pc : Goto(r, pc) /\ pc \notin {"count", "uncount"}
  PROVE  LedgerInv'
  <1>1. \A q \in Requests \ {r} : req'[q] = req[q]
    BY OthersKept DEF Types
  <1>2. req[r].tasks = {}
    BY DEF ShapeInv, AptInv, Apt
  <1>3. Nothing(req[r])
    BY <1>2, NothingYet
  <1>4. Nothing(req'[r])
    <2>1. CASE Finish(r)
      <3>1. req'[r] = NoRequest("done")
        BY <2>1, OwnStep DEF Types
      <3> QED
        BY <3>1, NothingDone
    <2>2. ASSUME NEW pc, Goto(r, pc), pc \notin {"count", "uncount"} PROVE Nothing(req'[r])
      <3>1. req'[r].pc = pc /\ req'[r].tasks = {}
        BY <1>2, <2>2, OwnStep DEF Types
      <3> QED
        BY <2>2, <3>1, NothingYet
    <2> QED
      BY <2>1, <2>2
  <1>5. Same(req'[r], req[r])
    BY <1>3, <1>4, SameNothing
  <1> QED
    BY <1>1, <1>5, StillLedger DEF thread

\* What a request owes that has launched a deletion.
DeletionOf(q, c, ids, up) ==
    q.pc = "tasks" /\ q.of = c /\ q.ids = ids /\ q.tasks = DeleteTasks(c, ids) \union Tasks({"unreply"}, up)

OwesDeletion(q, ids) ==
    /\ Adds(q) = {} /\ Deletes(q) = ids /\ Takes(q) = ids
    /\ AddsReply(q) = {} /\ TakesReply(q) \in {{}, ids}
    /\ Scores(q) = {} /\ Logs(q) = {} /\ Unscores(q) = {}

LEMMA DeletionOwes ==
  ASSUME NEW q, NEW c \in Comments, NEW ids \in SUBSET Comments, NEW up \in SUBSET Comments,
         up = {} \/ ids = {c}, DeletionOf(q, c, ids, up)
  PROVE  OwesDeletion(q, ids)
  <1>0. q.pc = "tasks" /\ q.of = c /\ q.ids = ids /\ q.tasks = DeleteTasks(c, ids) \union Tasks({"unreply"}, up)
    BY DEF DeletionOf
  <1>1. \A t \in q.tasks : \/ t.what \in {"delete", "uncount", "unnote", "unlog"}
                           \/ t.what = "unreply" /\ t.of \in up
    BY <1>0 DEF DeleteTasks, Tasks
  <1>2. [what |-> "delete", of |-> c] \in q.tasks /\ [what |-> "uncount", of |-> c] \in q.tasks
    BY <1>0 DEF DeleteTasks, Tasks
  <1>3. \A p \in up : [what |-> "unreply", of |-> p] \in q.tasks
    BY <1>0 DEF Tasks
  <1>4. /\ ~Pending(q, "count") /\ ~Pending(q, "reply") /\ ~Pending(q, "score") /\ ~Pending(q, "log")
        /\ Unscores(q) = {}
    BY <1>1 DEF Pending, PendingOn, Unscores
  <1>5. Pending(q, "delete") /\ Pending(q, "uncount")
    BY <1>2 DEF Pending
  <1>6. Pending(q, "unreply") <=> up # {}
    BY <1>1, <1>3 DEF Pending
  <1>7. Kind(c) = "comment"
    BY CommentKind, CommentSubjects
  <1> QED
    BY <1>0, <1>4, <1>5, <1>6, <1>7 DEF OwesDeletion, Adds, Deletes, Takes, AddsReply, TakesReply, Scores, Logs

LEMMA DeletionLedger ==
  ASSUME Types, Types', ThreadInv, ShapeInv, LedgerInv, NEW r \in Requests, req[r].pc \in {"find", "replies"},
         UNCHANGED <<post_, docs, count, thread, contributions, twice>>,
         NEW c \in Comments, req[r].of = c, NEW ids \in SUBSET Comments, NEW up \in SUBSET Comments,
         up = {} \/ ids = {c},
         Launch(r, ids, DeleteTasks(c, ids) \union Tasks({"unreply"}, up))
  PROVE  LedgerInv'
  <1>1. Others(r) /\ UNCHANGED <<replies, parent, author, score, logs, taken>>
    BY OthersKept DEF Types, Others, thread, contributions
  <1>2. DeletionOf(req'[r], c, ids, up)
    BY OwnStep DEF Types, DeletionOf
  <1>3. Nothing(req[r])
    <2>1. req[r].tasks = {}
      BY DEF ShapeInv, AptInv, Apt
    <2> QED
      BY <2>1, NothingYet
  <1>0. OwesDeletion(req'[r], ids)
    BY <1>2, DeletionOwes
  <1>4. /\ Adds(req'[r]) = {} /\ Deletes(req'[r]) = ids /\ Takes(req'[r]) = ids /\ AddsReply(req'[r]) = {}
        /\ TakesReply(req'[r]) \in {{}, ids}
        /\ Scores(req'[r]) = {} /\ Logs(req'[r]) = {} /\ Unscores(req'[r]) = {}
    BY <1>0 DEF OwesDeletion
  <1>5. ids \in SUBSET Subjects /\ twice' = twice /\ docs' = docs
    BY CommentSubjects
  <1>6. ASSUME NEW k \in Kinds PROVE CountStep(r, k)
    <2> DEFINE S == OfKind(k)
    <2>1. S \in SUBSET Subjects /\ count[k] \in Int /\ count'[k] = count[k]
      BY DEF OfKind, Types, Collections
    <2> HIDE DEF S
    <2>2. Size(ids, S) \in Nat /\ Size(docs, S) \in Nat /\ Size(twice[r], S) \in Nat /\ Size({}, S) = 0
      BY <1>5, <2>1, SizeSplit, PartSizes, SizeOfNone
    <2> QED
      BY <1>3, <1>4, <1>5, <2>1, <2>2 DEF CountStep, Nothing, S
  <1>7. ASSUME NEW p \in Comments PROVE ReplyStep(r, p)
    <2> DEFINE S == RepliesTo(p)
    <2>1. S \in SUBSET Subjects /\ replies[p] \in Int /\ replies'[p] = replies[p] /\ RepliesTo(p)' = S
      BY <1>1, CommentSubjects DEF RepliesTo, Types, Collections
    <2> HIDE DEF S
    <2>2. Size(ids, S) \in Nat /\ Size(docs, S) \in Nat /\ Size(twice[r], S) \in Nat /\ Size({}, S) = 0
      BY <1>5, <2>1, SizeSplit, PartSizes, SizeOfNone
    <2>3. TakesReply(req'[r]) = {} \/ TakesReply(req'[r]) = ids
      BY <1>4
    <2>4. Size(TakesReply(req'[r]), S) <= Size(ids, S)
      BY <2>2, <2>3
    <2>5. Size(TakesReply(req'[r]), S) \in Nat
      BY <2>2, <2>3
    <2> QED
      BY <1>3, <1>4, <1>5, <2>1, <2>2, <2>4, <2>5 DEF ReplyStep, Nothing, S
  <1>8. \A u \in Users : ScoreStep(r, u)
    BY <1>1, <1>3, <1>4, SameScores DEF Nothing
  <1>9. \A p \in Comments : p \in docs' \/ ~Created(p)' => p \in docs \/ ~Created(p)
    BY <1>1, <1>2, SameGuard DEF DeletionOf
  <1> QED
    BY <1>1, <1>6, <1>7, <1>8, <1>9, LedgerFrame

LEMMA ReadsLedger ==
  ASSUME Types, Types', ThreadInv, ShapeInv, LedgerInv, NEW r \in Requests, Reads(r)
  PROVE  LedgerInv'
  <1> USE ReqType
  <1>0. UNCHANGED <<post_, docs, count, thread, contributions, twice>>
    BY DEF Reads, Refuse, FindTarget, FindRepost, FindTargetAgain, FindParent, FindComment, FindReplies
  <1>1. req[r].pc \in {"target", "exists", "recheck", "parent", "find", "replies"}
    BY DEF Reads, Refuse, FindTarget, FindRepost, FindTargetAgain, FindParent, FindComment, FindReplies, At
  <1>2. CASE Finish(r) \/ \E pc : Goto(r, pc) /\ pc \notin {"count", "uncount"}
    BY <1>0, <1>1, <1>2, IdleLedger
  <1>3. ASSUME FindTarget(r) PROVE \E pc : Goto(r, pc) /\ pc \notin {"count", "uncount"}
    <2> DEFINE pc == IF req[r].to # {} THEN "parent" ELSE Found[req[r].op]
    <2>1. req[r].op \in {"like", "unlike", "repost", "comment"} /\ Goto(r, pc)
      BY <1>3 DEF FindTarget, At, GoodRequest, AboutComment
    <2>2. pc \notin {"count", "uncount"}
      BY <2>1 DEF Found
    <2> HIDE DEF pc
    <2> QED
      BY <2>1, <2>2
  <1>4. ASSUME FindComment(r), ~Finish(r), ~Goto(r, "replies")
        PROVE  LedgerInv'
    <2> DEFINE c == req[r].of
               up == parent[c]
    <2>1. /\ req[r].pc = "find" /\ c \in Comments /\ up \in SUBSET Comments
          /\ Launch(r, {c}, DeleteTasks(c, {c}) \union Tasks({"unreply"}, up))
      BY <1>4 DEF FindComment, At, GoodRequest, AboutComment, Types, Collections
    <2> HIDE DEF up
    <2> QED
      BY <1>0, <2>1, DeletionLedger
  <1>5. ASSUME FindReplies(r)
        PROVE  LedgerInv'
    <2> DEFINE ids == CommentsToDelete(req[r].of)
    <2>1. req[r].pc = "replies" /\ req[r].of \in Comments /\ Launch(r, ids, DeleteTasks(req[r].of, ids))
      BY <1>5 DEF FindReplies, At, GoodRequest, AboutComment
    <2>2. DeleteTasks(req[r].of, ids) = DeleteTasks(req[r].of, ids) \union Tasks({"unreply"}, {})
      BY DEF Tasks
    <2>3. ids \in SUBSET Comments
      BY <2>1 DEF CommentsToDelete
    <2> HIDE DEF ids
    <2>4. Launch(r, ids, DeleteTasks(req[r].of, ids) \union Tasks({"unreply"}, {}))
      BY <2>1, <2>2
    <2> QED
      BY <1>0, <2>1, <2>3, <2>4, DeletionLedger
  <1> QED
    BY <1>2, <1>3, <1>4, <1>5 DEF Reads, Refuse, FindRepost, FindTargetAgain, FindParent, FindComment

\* A step about reactions, which have no replies and no contributions.
LEMMA CountLedger ==
  ASSUME Types, Types', ThreadInv, ShapeInv, LedgerInv, NEW r \in Requests, Others(r),
         UNCHANGED <<post_, thread, contributions, twice>>, docs' \intersect Comments \subseteq docs,
         Deletes(req'[r]) = Deletes(req[r]),
         AddsReply(req'[r]) = AddsReply(req[r]), TakesReply(req'[r]) = TakesReply(req[r]),
         Scores(req'[r]) = Scores(req[r]), Logs(req'[r]) = Logs(req[r]), Unscores(req'[r]) = Unscores(req[r]),
         req[r].pc \in {"tasks", "done"} => req'[r].pc \in {"tasks", "done"},
         Visible => \A k \in Kinds : CountStep(r, k)
  PROVE  LedgerInv'
  <1>1. UNCHANGED <<replies, parent, author, score, logs, taken>>
    BY DEF thread, contributions
  <1>2. \A p \in Comments : ReplyStep(r, p)
    BY <1>1, SameReplies
  <1>3. \A u \in Users : ScoreStep(r, u)
    BY <1>1, SameScores
  <1>4. \A p \in Comments : p \in docs' \/ ~Created(p)' => p \in docs \/ ~Created(p)
    BY SameGuard
  <1> QED
    BY <1>1, <1>2, <1>3, <1>4, LedgerFrame

\* A request has only something to add, or only something to take.
OnlyAdds(q, D) == /\ Adds(q) = D /\ Deletes(q) = {} /\ Takes(q) = {} /\ AddsReply(q) = {} /\ TakesReply(q) = {}
                  /\ Scores(q) = {} /\ Logs(q) = {} /\ Unscores(q) = {}
OnlyTakes(q, D) == /\ Adds(q) = {} /\ Deletes(q) = {} /\ Takes(q) = D /\ AddsReply(q) = {} /\ TakesReply(q) = {}
                   /\ Scores(q) = {} /\ Logs(q) = {} /\ Unscores(q) = {}

LEMMA OnlyThis ==
  ASSUME NEW q
  PROVE  /\ q.tasks = {} /\ q.pc = "count" => OnlyAdds(q, {q.of})
         /\ q.tasks = {} /\ q.pc = "uncount" => OnlyTakes(q, {q.of})
         /\ q.tasks = {} /\ q.pc \notin {"count", "uncount"} => OnlyAdds(q, {}) /\ OnlyTakes(q, {})
         /\ q.pc = "tasks" /\ Kind(q.of) # "comment" /\ q.tasks = Tasks({"uncount", "unnote"}, {q.of})
              => OnlyTakes(q, {q.of})
  <1>1. q.tasks = {} => Unscores(q) = {} /\ \A what : ~Pending(q, what)
    BY DEF Unscores, Pending, PendingOn
  <1>2. ASSUME q.tasks = Tasks({"uncount", "unnote"}, {q.of})
        PROVE  Unscores(q) = {} /\ Pending(q, "uncount") /\ \A what \in Single \ {"uncount"} : ~Pending(q, what)
    <2>1. [what |-> "uncount", of |-> q.of] \in q.tasks /\ \A t \in q.tasks : t.what \in {"uncount", "unnote"}
      BY <1>2 DEF Tasks
    <2> QED
      BY <2>1 DEF Unscores, Pending, PendingOn, Single
  <1> QED
    BY <1>1, <1>2 DEF OnlyAdds, OnlyTakes, Adds, Deletes, Takes, AddsReply, TakesReply, Scores, Logs, Single

LEMMA FreshReaction ==
  ASSUME Types, Types', ThreadInv, ShapeInv, LedgerInv, NEW r \in Requests, CreateReaction(r), req[r].of \notin docs
  PROVE  LedgerInv'
  <1> USE ReqType
  <1> DEFINE s == req[r].of
  <1>1. /\ req[r].pc = "create" /\ req[r].op \in {"like", "repost"} /\ s \in Subjects \ docs
        /\ docs' = docs \union {s} /\ Goto(r, "count")
        /\ UNCHANGED <<post_, count, thread, contributions, twice>>
    BY DEF CreateReaction, At
  <1>2. Others(r)
    BY <1>1, OthersKept DEF Others
  <1>3. req[r].tasks = {} /\ req'[r].pc = "count" /\ req'[r].of = s /\ req'[r].tasks = {}
    BY <1>1, OwnStep DEF ShapeInv, AptInv, Apt
  <1>4. OnlyAdds(req[r], {}) /\ OnlyAdds(req'[r], {s})
    BY <1>1, <1>3, OnlyThis
  <1>5. docs' \intersect Comments \subseteq docs
    <2>1. s \in Reactions
      BY <1>1 DEF ThreadInv, Sensible
    <2> QED
      BY <1>1, <2>1, ReactionsApart
  <1>6. ASSUME NEW k \in Kinds PROVE CountStep(r, k)
    <2> DEFINE S == OfKind(k)
    <2>1. S \in SUBSET Subjects /\ count[k] \in Int /\ count'[k] = count[k] /\ docs \in SUBSET Subjects
      BY <1>1 DEF OfKind, Types, Collections
    <2> HIDE DEF S, s
    <2>4. s \in Subjects \ docs
      BY <1>1
    <2>5. /\ Size(docs, S) \in Nat /\ Size({s}, S) \in Nat
          /\ Size(docs \union {s}, S) = Size(docs, S) + Size({s}, S)
      BY <2>1, <2>4, SizeOfMore
    <2>2. /\ Size(docs, S) \in Nat /\ Size({s}, S) \in Nat /\ Size(docs', S) = Size(docs, S) + Size({s}, S)
          /\ Size(twice[r], S) \in Nat /\ Size({}, S) = 0
      BY <1>1, <2>1, <2>5, PartSizes, SizeOfNone
    <2>3. twice'[r] = twice[r]
      BY <1>1
    <2> QED
      BY <1>4, <2>1, <2>2, <2>3 DEF CountStep, OnlyAdds, S
  <1> QED
    BY <1>1, <1>2, <1>4, <1>5, <1>6, CountLedger DEF OnlyAdds

LEMMA CountReactionLedger ==
  ASSUME Types, Types', ThreadInv, ShapeInv, LedgerInv, NEW r \in Requests, CountReaction(r)
  PROVE  LedgerInv'
  <1> USE ReqType
  <1> DEFINE s == req[r].of
  <1>1. /\ req[r].pc = "count" /\ s \in Subjects /\ docs' = docs /\ count' = Add(Kind(s), 1)
        /\ UNCHANGED <<post_, thread, contributions, twice>>
    BY DEF CountReaction, At
  <1>2. PICK pc \in {"undo", "note"} : Goto(r, pc)
    BY DEF CountReaction, AfterCount
  <1>3. Others(r)
    BY <1>1, <1>2, OthersKept DEF Others
  <1>4. req[r].tasks = {} /\ req'[r].pc = pc /\ req'[r].tasks = {}
    BY <1>1, <1>2, OwnStep DEF ShapeInv, AptInv, Apt
  <1>5. OnlyAdds(req[r], {s}) /\ OnlyAdds(req'[r], {})
    BY <1>1, <1>2, <1>4, OnlyThis
  <1>6. ASSUME Visible, NEW k \in Kinds PROVE CountStep(r, k)
    <2> DEFINE S == OfKind(k)
    <2>1. S \in SUBSET Subjects /\ count[k] \in Int /\ (s \in S <=> k = Kind(s))
      BY <1>1 DEF OfKind, Types, Collections
    <2>2. count'[k] = IF k = Kind(s) THEN count[k] + 1 ELSE count[k]
      BY <1>1, <1>6 DEF Add, Types, Collections
    <2>3. twice'[r] = twice[r]
      BY <1>1
    <2> HIDE DEF S, s
    <2>4. /\ Size({s}, S) = (IF s \in S THEN 1 ELSE 0)
          /\ Size(docs, S) \in Nat /\ Size(twice[r], S) \in Nat /\ Size({}, S) = 0
      BY <1>1, <2>1, SizeOfOne, PartSizes, SizeOfNone
    <2> QED
      BY <1>1, <1>5, <2>1, <2>2, <2>3, <2>4 DEF CountStep, OnlyAdds, S
  <1> QED
    BY <1>1, <1>3, <1>5, <1>6, CountLedger DEF OnlyAdds

LEMMA DropLedger ==
  ASSUME Types, Types', ThreadInv, ShapeInv, LedgerInv, NEW r \in Requests, DropReaction(r), Dropped(r)
  PROVE  LedgerInv'
  <1> USE ReqType
  <1> DEFINE s == req[r].of
  <1>1. /\ req[r].pc = "drop" /\ s \in docs /\ docs' = docs \ {s}
        /\ UNCHANGED <<post_, count, thread, contributions, twice>>
    BY DEF DropReaction, At, Dropped
  <1>2. /\ \/ req[r].op = "unlike" /\ Launch(r, {}, Tasks({"uncount", "unnote"}, {s}))
           \/ Goto(r, "uncount")
    BY DEF DropReaction
  <1>3. Others(r)
    BY <1>1, <1>2, OthersKept DEF Others
  <1>4. req[r].tasks = {}
    BY <1>1 DEF ShapeInv, AptInv, Apt
  <1>5. Kind(s) # "comment"
    <2>1. Kind(s) = KindOf[req[r].op] /\ req[r].op \in {"unlike", "unrepost"}
      BY <1>1 DEF ShapeInv, AptInv, Apt
    <2> QED
      BY <2>1 DEF KindOf
  <1>6. OnlyTakes(req[r], {}) /\ OnlyTakes(req'[r], {s})
    <2>1. OnlyTakes(req[r], {})
      BY <1>1, <1>4, OnlyThis
    <2>2. CASE Goto(r, "uncount")
      <3>1. req'[r].pc = "uncount" /\ req'[r].tasks = {} /\ req'[r].of = s
        BY <1>4, <2>2, OwnStep
      <3> QED
        BY <2>1, <3>1, OnlyThis
    <2>3. CASE Launch(r, {}, Tasks({"uncount", "unnote"}, {s}))
      <3>1. req'[r].pc = "tasks" /\ req'[r].tasks = Tasks({"uncount", "unnote"}, {s}) /\ req'[r].of = s
        BY <2>3, OwnStep
      <3>2. OnlyTakes(req'[r], {req'[r].of})
        BY <1>5, <3>1, OnlyThis
      <3> QED
        BY <2>1, <3>1, <3>2
    <2> QED
      BY <1>2, <2>2, <2>3
  <1>7. ASSUME NEW k \in Kinds PROVE CountStep(r, k)
    <2> DEFINE S == OfKind(k)
    <2>1. S \in SUBSET Subjects /\ count[k] \in Int /\ count'[k] = count[k] /\ docs \in SUBSET Subjects
      BY <1>1 DEF OfKind, Types, Collections
    <2> DEFINE D == {s}
    <2>7. D \in SUBSET Subjects
      BY <1>1, <2>1
    <2>2. docs \intersect D = D
      BY <1>1, <2>1
    <2>3. twice'[r] = twice[r]
      BY <1>1
    <2>8. docs' = docs \ D
      BY <1>1
    <2> HIDE DEF S, D, s
    <2>4. /\ Size(docs, S) \in Nat /\ Size(docs \ D, S) \in Nat /\ Size(docs \intersect D, S) \in Nat
          /\ Size(docs, S) = Size(docs \ D, S) + Size(docs \intersect D, S)
      BY <2>1, <2>7, SizeSplit, ZenonT(40)
    <2>5. Size(docs', S) \in Nat /\ Size(D, S) \in Nat /\ Size(docs, S) = Size(docs', S) + Size(D, S)
      BY <2>8, <2>2, <2>4
    <2>6. Size(twice[r], S) \in Nat /\ Size({}, S) = 0 /\ Size(docs, S) \in Nat
      BY <2>1, PartSizes, SizeOfNone
    <2> QED
      BY <1>6, <2>1, <2>3, <2>5, <2>6 DEF CountStep, OnlyTakes, S, D
  <1>8. docs' \intersect Comments \subseteq docs
    BY <1>1
  <1> QED
    BY <1>1, <1>3, <1>6, <1>7, <1>8, CountLedger DEF OnlyTakes

LEMMA UncountRepostLedger ==
  ASSUME Types, Types', ThreadInv, ShapeInv, LedgerInv, NEW r \in Requests, UncountRepost(r)
  PROVE  LedgerInv'
  <1> USE ReqType
  <1> DEFINE s == req[r].of
  <1>1. /\ req[r].pc = "uncount" /\ s \in Subjects /\ docs' = docs /\ count' = Subtract("repost", 1)
        /\ Goto(r, "recheck") /\ UNCHANGED <<post_, thread, contributions, twice>>
    BY DEF UncountRepost, At
  <1>3. Others(r)
    BY <1>1, OthersKept DEF Others
  <1>4. req[r].tasks = {} /\ req'[r].pc = "recheck" /\ req'[r].tasks = {}
    BY <1>1, OwnStep DEF ShapeInv, AptInv, Apt
  <1>5. OnlyTakes(req[r], {s}) /\ OnlyTakes(req'[r], {})
    BY <1>1, <1>4, OnlyThis
  <1>6. Kind(s) = "repost"
    <2>1. Kind(s) = KindOf[req[r].op] /\ req[r].op = "unrepost"
      BY <1>1 DEF ShapeInv, AptInv, Apt
    <2> QED
      BY <2>1 DEF KindOf
  <1>7. ASSUME Visible, NEW k \in Kinds PROVE CountStep(r, k)
    <2> DEFINE S == OfKind(k)
    <2>1. S \in SUBSET Subjects /\ count[k] \in Int /\ (s \in S <=> k = Kind(s))
      BY <1>1 DEF OfKind, Types, Collections
    <2>2. count'[k] = count[k] \/ (k = "repost" /\ count'[k] = count[k] - 1)
      BY <1>1 DEF Subtract, Types, Collections
    <2>3. twice'[r] = twice[r]
      BY <1>1
    <2> HIDE DEF S, s
    <2>4. /\ Size({s}, S) = (IF s \in S THEN 1 ELSE 0)
          /\ Size(docs, S) \in Nat /\ Size(twice[r], S) \in Nat /\ Size({}, S) = 0
      BY <1>1, <2>1, SizeOfOne, PartSizes, SizeOfNone
    <2> QED
      BY <1>1, <1>5, <1>6, <2>1, <2>2, <2>3, <2>4 DEF CountStep, OnlyTakes, S
  <1> QED
    BY <1>1, <1>3, <1>5, <1>7, CountLedger DEF OnlyTakes

\* What a request owes for a comment it just created.
OwesComment(q, x, to) ==
    /\ Adds(q) = {x} /\ Deletes(q) = {} /\ Takes(q) = {}
    /\ AddsReply(q) = {x} \/ (AddsReply(q) = {} /\ to = {})
    /\ TakesReply(q) = {} /\ Logs(q) = Scores(q) /\ Unscores(q) = {}

LEMMA CommentOwes ==
  ASSUME NEW q, NEW x, NEW to, NEW extra \in {{}, {"log", "score"}}, q.pc = "tasks", q.of = x,
         q.tasks = Tasks({"count", "note"} \union extra, {x}) \union Tasks({"reply"}, to)
  PROVE  OwesComment(q, x, to)
  <1>1. \A t \in q.tasks : t.what \in {"count", "note"} \/ t.what \in extra \/ (t.what = "reply" /\ t.of \in to)
    BY DEF Tasks
  <1>2. [what |-> "count", of |-> x] \in q.tasks
    BY DEF Tasks
  <1>3. \A w \in extra : [what |-> w, of |-> x] \in q.tasks
    BY DEF Tasks
  <1>4. \A p \in to : [what |-> "reply", of |-> p] \in q.tasks
    BY DEF Tasks
  <1>5. /\ ~Pending(q, "delete") /\ ~Pending(q, "uncount") /\ ~Pending(q, "unreply") /\ Unscores(q) = {}
    BY <1>1 DEF Pending, PendingOn, Unscores
  <1>6. Pending(q, "count")
    BY <1>2 DEF Pending
  <1>7. Pending(q, "reply") \/ to = {}
    BY <1>4 DEF Pending
  <1>8. to = {} => ~Pending(q, "reply")
    BY <1>1 DEF Pending
  <1>9. Pending(q, "log") <=> Pending(q, "score")
    <2>1. CASE extra = {}
      BY <1>1, <2>1 DEF Pending
    <2>2. CASE extra = {"log", "score"}
      BY <1>3, <2>2 DEF Pending
    <2> QED
      BY <2>1, <2>2
  <1> QED
    BY <1>5, <1>6, <1>7, <1>8, <1>9 DEF OwesComment, Adds, Deletes, Takes, AddsReply, TakesReply, Scores, Logs

LEMMA CreateLedger ==
  ASSUME Types, Types', ThreadInv, ShapeInv, LedgerInv, NEW r \in Requests, CreateComment(r)
  PROVE  LedgerInv'
  <1> USE ReqType
  <1> DEFINE x == <<"comment", r>>
  <1>1. /\ req[r].pc = "create" /\ req[r].of = x /\ x \in Comments /\ x \in Subjects
        /\ docs' = docs \union {x} /\ parent' = [parent EXCEPT ![x] = req[r].to]
        /\ UNCHANGED <<post_, count, author, replies, score, logs, taken, twice>>
    BY CommentSubjects DEF CreateComment, At, ThreadInv, Sensible, contributions
  <1>2. PICK extra \in {{}, {"log", "score"}} :
          Launch(r, {}, Tasks({"count", "note"} \union extra, {x}) \union Tasks({"reply"}, req[r].to))
    BY <1>1 DEF CreateComment, CommentTasks
  <1>3. Others(r)
    BY <1>1, <1>2, OthersKept DEF Others
  <1>4. ~Created(x) /\ req[r].tasks = {} /\ twice[r] = {} /\ twice'[r] = {}
    BY <1>1 DEF Created, ShapeInv, AptInv, Apt
  <1>5. x \notin docs /\ parent[x] = {}
    BY <1>1, <1>4 DEF ThreadInv, ShapeInv, KnownInv
  <1>6. OnlyAdds(req[r], {})
    BY <1>1, <1>4, OnlyThis
  <1>7. OwesComment(req'[r], x, req[r].to) /\ req'[r].pc = "tasks"
    <2> DEFINE tasks == Tasks({"count", "note"} \union extra, {x}) \union Tasks({"reply"}, req[r].to)
    <2>0. Launch(r, {}, tasks)
      BY <1>2
    <2> HIDE DEF tasks, x
    <2>1. req'[r].pc = "tasks" /\ req'[r].of = x /\ req'[r].tasks = tasks
      BY <1>1, <2>0, OwnStep
    <2> USE DEF tasks
    <2> QED
      BY <2>1, CommentOwes
  <1>8. ASSUME NEW k \in Kinds PROVE CountStep(r, k)
    <2> DEFINE S == OfKind(k)
    <2>1. S \in SUBSET Subjects /\ count[k] \in Int /\ count'[k] = count[k] /\ docs \in SUBSET Subjects
      BY <1>1 DEF OfKind, Types, Collections
    <2> HIDE DEF S, x
    <2>3. x \in Subjects \ docs
      BY <1>1, <1>5
    <2>4. /\ Size(docs, S) \in Nat /\ Size({x}, S) \in Nat
          /\ Size(docs \union {x}, S) = Size(docs, S) + Size({x}, S)
      BY <2>1, <2>3, SizeOfMore
    <2>2. /\ Size(docs, S) \in Nat /\ Size({x}, S) \in Nat /\ Size(docs', S) = Size(docs, S) + Size({x}, S)
          /\ Size({}, S) = 0
      BY <1>1, <2>4, SizeOfNone
    <2> QED
      BY <1>4, <1>6, <1>7, <2>1, <2>2 DEF CountStep, OnlyAdds, OwesComment, S
  <1>9. ASSUME NEW p \in Comments PROVE ReplyStep(r, p)
    <2> DEFINE S == RepliesTo(p)
               T == RepliesTo(p)'
    <2>1. S \in SUBSET Subjects /\ T \in SUBSET Subjects /\ replies[p] \in Int /\ replies'[p] = replies[p]
          /\ docs \in SUBSET Subjects
      BY <1>1, CommentSubjects DEF RepliesTo, Types, Collections
    <2>2. \A c \in Comments : c # x => (c \in S <=> c \in T)
      BY <1>1 DEF RepliesTo, Types, Collections
    <2>3. docs \intersect S = docs \intersect T
      BY <1>5, <2>2 DEF RepliesTo
    <2>4. req[r].to = {} => x \notin T
      BY <1>1 DEF RepliesTo, Types, Collections
    <2> HIDE DEF S, T, x
    <2>8. x \in Subjects \ docs
      BY <1>1, <1>5
    <2>9. /\ Size(docs, T) \in Nat /\ Size({x}, T) \in Nat
          /\ Size(docs \union {x}, T) = Size(docs, T) + Size({x}, T)
      BY <2>1, <2>8, SizeOfMore
    <2>5. /\ Size(docs, T) \in Nat /\ Size({x}, T) \in Nat /\ Size(docs', T) = Size(docs, T) + Size({x}, T)
          /\ Size({}, S) = 0 /\ Size({}, T) = 0 /\ Size({x}, T) = (IF x \in T THEN 1 ELSE 0)
      BY <1>1, <2>1, <2>9, SizeOfNone, SizeOfOne
    <2>6. Size(docs, S) = Size(docs, T)
      BY <2>3 DEF Size
    <2>7. Size(AddsReply(req'[r]), T) = Size({x}, T)
      <3>1. CASE AddsReply(req'[r]) = {x}
        BY <3>1
      <3>2. CASE AddsReply(req'[r]) = {} /\ req[r].to = {}
        BY <2>4, <2>5, <3>2
      <3> QED
        BY <1>7, <3>1, <3>2 DEF OwesComment
    <2> QED
      BY <1>4, <1>6, <1>7, <2>1, <2>5, <2>6, <2>7 DEF ReplyStep, OnlyAdds, OwesComment, S, T
  <1>10. ASSUME NEW u \in Users PROVE ScoreStep(r, u)
    <2> DEFINE S == By(u)
    <2>1. S \in SUBSET Subjects /\ By(u)' = S /\ score[u] \in Int /\ score'[u] = score[u] /\ logs' = logs
      BY <1>1, CommentSubjects DEF By, Types, Collections
    <2>2. req'[r] \in Request
      BY DEF Types, ReqsOK, GoodRequest
    <2> HIDE DEF S
    <2>3. Size(logs, S) \in Nat /\ Size(Scores(req'[r]), S) \in Nat /\ Size({}, S) = 0
      BY <2>1, <2>2, PartSizes, PartsType, SizeSplit, SizeOfNone
    <2> QED
      BY <1>6, <1>7, <2>1, <2>3 DEF ScoreStep, OnlyAdds, OwesComment, S
  <1>11. \A p \in Comments : p \in docs' \/ ~Created(p)' => p \in docs \/ ~Created(p)
    <2>1. \A p \in Comments : ~Created(p)' => ~Created(p)
      BY <1>3, <1>7 DEF Created, Others
    <2>2. \A p \in Comments : p \in docs' => p \in docs \/ p = x
      BY <1>1
    <2> QED
      BY <1>4, <2>1, <2>2
  <1>12. \A c \in Comments : Created(c) => parent'[c] = parent[c] /\ author'[c] = author[c]
    <2>1. \A c \in Comments : c # x => parent'[c] = parent[c]
      BY <1>1 DEF Types, Collections
    <2> QED
      BY <1>1, <1>4, <2>1
  <1> QED
    BY <1>1, <1>3, <1>8, <1>9, <1>10, <1>11, <1>12, LedgerFrame

LEMMA WritesLedger ==
  ASSUME Types, Types', ThreadInv, ShapeInv, LedgerInv, NEW r \in Requests, Writes(r)
  PROVE  LedgerInv'
  <1>1. CASE CreateComment(r)
    BY <1>1, CreateLedger
  <1>2. CASE CountReaction(r)
    BY <1>2, CountReactionLedger
  <1>3. CASE UncountRepost(r)
    BY <1>3, UncountRepostLedger
  <1>4. CASE DropReaction(r) /\ Dropped(r)
    BY <1>4, DropLedger
  <1>5. CASE CreateReaction(r) /\ req[r].of \notin docs
    BY <1>5, FreshReaction
  <1>6. ASSUME \/ UndoLike(r) \/ SendNote(r) \/ RemoveNote(r)
               \/ DropReaction(r) /\ ~Dropped(r)
               \/ CreateReaction(r) /\ req[r].of \in docs
        PROVE  LedgerInv'
    <2>1. /\ Finish(r) /\ UNCHANGED <<post_, count, thread, contributions, twice>> /\ docs' \subseteq docs
          /\ req[r].pc \in {"undo", "note", "unnote", "drop", "create"}
      BY <1>6 DEF UndoLike, SendNote, RemoveNote, DropReaction, CreateReaction, At
    <2> QED
      BY <2>1, IdleLedger
  <1> QED
    BY <1>1, <1>2, <1>3, <1>4, <1>5, <1>6 DEF Writes

\* What a branch takes off what its request owes.
TaskOwes(r, t) ==
    /\ IF t.what = "count" THEN Adds(req[r]) = {t.of} /\ Adds(req'[r]) = {} ELSE Adds(req'[r]) = Adds(req[r])
    /\ IF t.what = "delete" THEN Deletes(req[r]) = req[r].ids /\ Deletes(req'[r]) = {} /\ twice[r] = {}
       ELSE Deletes(req'[r]) = Deletes(req[r])
    /\ IF t.what = "uncount"
       THEN Takes(req[r]) = (IF Kind(t.of) = "comment" THEN req[r].ids ELSE {t.of}) /\ Takes(req'[r]) = {}
       ELSE Takes(req'[r]) = Takes(req[r])
    /\ IF t.what = "reply" THEN AddsReply(req[r]) = {req[r].of} /\ AddsReply(req'[r]) = {}
       ELSE AddsReply(req'[r]) = AddsReply(req[r])
    /\ IF t.what = "unreply" THEN TakesReply(req[r]) = {req[r].of} /\ TakesReply(req'[r]) = {}
       ELSE TakesReply(req'[r]) = TakesReply(req[r])
    /\ IF t.what = "score" THEN Scores(req[r]) = {t.of} /\ Scores(req'[r]) = {} ELSE Scores(req'[r]) = Scores(req[r])
    /\ IF t.what = "log" THEN Logs(req[r]) = {t.of} /\ Logs(req'[r]) = {} /\ t.of \notin logs
       ELSE Logs(req'[r]) = Logs(req[r])
    /\ t.what \in {"reply", "unreply"} => req[r].of \in Comments /\ parent[req[r].of] = {t.of}
    /\ t.what \in {"log", "unlog", "score", "unscore"} => t.of \in Comments

TaskUnscores(r, t) ==
    /\ t.what = "unscore" => t.of \in Unscores(req[r]) /\ Unscores(req'[r]) = Unscores(req[r]) \ {t.of}
    /\ t.what = "unlog" => t.of \notin Unscores(req[r])
    /\ t.what = "unlog" /\ Logged(t.of) => Unscores(req'[r]) = Unscores(req[r]) \union {t.of}
    /\ t.what # "unscore" /\ (t.what = "unlog" => ~Logged(t.of)) => Unscores(req'[r]) = Unscores(req[r])

LEMMA TaskParts ==
  ASSUME Types, ThreadInv, ShapeInv, NEW r \in Requests, req[r].pc = "tasks", NEW t \in req[r].tasks,
         \/ CountTask(r, t) \/ ReplyTask(r, t) \/ NoteTask(r, t) \/ LogTask(r, t) \/ ScoreTask(r, t)
         \/ DeleteTask(r, t) \/ UnlogTask(r, t) \/ UnnoteTask(r, t)
  PROVE  /\ TaskOwes(r, t) /\ TaskUnscores(r, t)
         /\ req'[r].pc \in {"tasks", "done"}
         /\ \A q \in Requests \ {r} : req'[q] = req[q]
  <1> USE ReqType
  <1>1. PICK more \in SUBSET Task :
            /\ Resume(r, Rest(r, t) \union more)
            /\ \A u \in more : u.what = "unscore" /\ u.of = t.of /\ t.what = "unlog"
            /\ {u.of : u \in more} = IF t.what = "unlog" /\ Logged(t.of) THEN {t.of} ELSE {}
    BY Branches DEF ShapeInv
  <1>2. /\ \A what \in Single : Pending(req'[r], what) <=> Pending(req[r], what) /\ t.what # what
        /\ Unscores(req'[r]) = (Unscores(req[r]) \ (IF t.what = "unscore" THEN {t.of} ELSE {})) \union {u.of : u \in more}
        /\ req'[r].pc \in {"tasks", "done"}
        /\ req'[r].tasks # {} => req'[r].of = req[r].of /\ req'[r].ids = req[r].ids
    BY <1>1, BranchDone DEF ShapeInv
  <1>3. \A q \in Requests \ {r} : req'[q] = req[q]
    BY <1>1, OthersKept
  <1>4. ASSUME NEW what, Pending(req'[r], what) PROVE req'[r].of = req[r].of /\ req'[r].ids = req[r].ids
    BY <1>2, <1>4 DEF Pending
  <1>5. Pending(req[r], t.what) /\ t.of \in PendingOn(req[r], t.what)
    BY DEF Pending, PendingOn
  <1>6. Fits(r, t) /\ Apt(r) /\ Known(r) /\ Sensible(r)
    BY DEF ShapeInv, AptInv, KnownInv, Apt, ThreadInv
  <1>7. TaskOwes(r, t)
    <2>1. t.what \in {"count", "uncount", "score", "log"} => t.of = req[r].of
      BY <1>6 DEF Fits
    <2>2. /\ t.what \in {"reply", "unreply"} => req[r].of \in Comments /\ parent[req[r].of] = {t.of}
          /\ t.what \in {"log", "unlog", "score", "unscore"} => t.of \in Comments
      BY <1>6, CommentSubjects DEF Fits, Sensible
    <2>3. t.what = "delete" => twice[r] = {}
      BY <1>5, <1>6 DEF Apt
    <2>4. t.what = "log" => t.of \notin logs
      BY <1>5, <1>6, <2>1 DEF Known
    <2>5. req'[r].pc \notin {"count", "uncount"}
      BY <1>2
    <2>6. IF t.what = "count" THEN Adds(req[r]) = {t.of} /\ Adds(req'[r]) = {} ELSE Adds(req'[r]) = Adds(req[r])
      BY <1>2, <1>4, <1>5, <2>1, <2>5 DEF Adds, Single
    <2>7. IF t.what = "delete" THEN Deletes(req[r]) = req[r].ids /\ Deletes(req'[r]) = {} /\ twice[r] = {}
          ELSE Deletes(req'[r]) = Deletes(req[r])
      BY <1>2, <1>4, <1>5, <2>3 DEF Deletes, Single
    <2>8. IF t.what = "uncount"
          THEN Takes(req[r]) = (IF Kind(t.of) = "comment" THEN req[r].ids ELSE {t.of}) /\ Takes(req'[r]) = {}
          ELSE Takes(req'[r]) = Takes(req[r])
      BY <1>2, <1>4, <1>5, <2>1, <2>5 DEF Takes, Single
    <2>9. /\ IF t.what = "reply" THEN AddsReply(req[r]) = {req[r].of} /\ AddsReply(req'[r]) = {}
             ELSE AddsReply(req'[r]) = AddsReply(req[r])
          /\ IF t.what = "unreply" THEN TakesReply(req[r]) = {req[r].of} /\ TakesReply(req'[r]) = {}
             ELSE TakesReply(req'[r]) = TakesReply(req[r])
      BY <1>2, <1>4, <1>5 DEF AddsReply, TakesReply, Single
    <2>10. /\ IF t.what = "score" THEN Scores(req[r]) = {t.of} /\ Scores(req'[r]) = {} ELSE Scores(req'[r]) = Scores(req[r])
           /\ IF t.what = "log" THEN Logs(req[r]) = {t.of} /\ Logs(req'[r]) = {} /\ t.of \notin logs
              ELSE Logs(req'[r]) = Logs(req[r])
      BY <1>2, <1>4, <1>5, <2>1, <2>4 DEF Scores, Logs, Single
    <2> QED
      BY <2>2, <2>6, <2>7, <2>8, <2>9, <2>10 DEF TaskOwes
  <1>8. TaskUnscores(r, t)
    <2>1. t.what = "unscore" => t.of \in Unscores(req[r]) /\ Unscores(req'[r]) = Unscores(req[r]) \ {t.of}
      BY <1>1, <1>2, <1>5 DEF Unscores
    <2>2. t.what = "unlog" => t.of \notin Unscores(req[r])
      BY <1>5, <1>6 DEF Unscores, PendingOn, Apt
    <2>3. t.what = "unlog" /\ Logged(t.of) => Unscores(req'[r]) = Unscores(req[r]) \union {t.of}
      BY <1>1, <1>2
    <2>4. t.what # "unscore" /\ (t.what = "unlog" => ~Logged(t.of)) => Unscores(req'[r]) = Unscores(req[r])
      BY <1>1, <1>2
    <2> QED
      BY <2>1, <2>2, <2>3, <2>4 DEF TaskUnscores
  <1> QED
    BY <1>2, <1>3, <1>7, <1>8

\* A branch, and what it takes off.
TaskMade(r, t) ==
    /\ req[r].pc = "tasks" /\ t \in req[r].tasks /\ UNCHANGED post_
    /\ TaskOwes(r, t) /\ TaskUnscores(r, t) /\ req'[r].pc \in {"tasks", "done"}
    /\ \A q \in Requests \ {r} : req'[q] = req[q]

LEMMA TaskSubject ==
  ASSUME Types, NEW r \in Requests, NEW t \in req[r].tasks
  PROVE  t.of \in Subjects /\ req[r].ids \in SUBSET Comments /\ req[r].ids \in SUBSET Subjects
  BY ReqType, CommentSubjects DEF Task

LEMMA CountTaskLedger ==
  ASSUME Types, Types', ThreadInv, ShapeInv, LedgerInv, NEW r \in Requests, NEW t, TaskMade(r, t), CountTask(r, t)
  PROVE  LedgerInv'
  <1> DEFINE s == t.of
             ids == req[r].ids
             n == IF Kind(s) = "comment" THEN Cardinality(ids) ELSE 1
             took == IF Kind(s) = "comment" THEN ids ELSE {s}
  <1>1. /\ docs' = docs /\ UNCHANGED <<post_, thread, contributions, twice>> /\ Others(r)
        /\ count' = IF t.what = "count" THEN Add(Kind(s), 1) ELSE Subtract(Kind(s), n)
        /\ t.what \in {"count", "uncount"}
    BY DEF CountTask, TaskMade, Others
  <1>2. s \in Subjects /\ ids \in SUBSET Comments /\ ids \in SUBSET Subjects
    BY TaskSubject DEF TaskMade
  <1>3. ASSUME Visible, NEW k \in Kinds PROVE CountStep(r, k)
    <2> DEFINE S == OfKind(k)
    <2>1. S \in SUBSET Subjects /\ count[k] \in Int /\ (s \in S <=> k = Kind(s))
      BY <1>2 DEF OfKind, Types, Collections
    <2>2. Size(took, S) = IF k = Kind(s) THEN n ELSE 0
      <3>1. CASE Kind(s) = "comment"
        <4>1. \A c \in ids : Kind(c) = "comment" /\ c \in Subjects
          BY <1>2, CommentKind
        <4>2. ids \intersect S = IF k = "comment" THEN ids ELSE {}
          BY <4>1 DEF OfKind
        <4>3. Size(ids, S) = IF k = "comment" THEN Cardinality(ids) ELSE 0
          BY <4>2, FS_EmptySet DEF Size
        <4> QED
          BY <3>1, <4>3
      <3>2. CASE Kind(s) # "comment"
        <4> HIDE DEF S, s
        <4> QED
          BY <1>2, <2>1, <3>2, SizeOfOne
      <3> QED
        BY <3>1, <3>2
    <2>3. n \in Nat
      BY <1>2, CountOfComments
    <2>4. twice'[r] = twice[r]
      BY <1>1
    <2>5. count'[k] = IF t.what = "count" THEN (IF k = Kind(s) THEN count[k] + 1 ELSE count[k]) ELSE
                      (IF k = Kind(s) /\ count[k] > 0 THEN count[k] - n ELSE count[k])
      <3> HIDE DEF n
      <3> QED
        BY <1>1, <1>3 DEF Add, Subtract, Types, Collections
    <2>6. /\ Size({s}, S) = (IF k = Kind(s) THEN 1 ELSE 0) /\ Size({}, S) = 0
          /\ Size(docs, S) \in Nat /\ Size(twice[r], S) \in Nat /\ Size(Deletes(req[r]), S) \in Nat
          /\ Size(Adds(req[r]), S) \in Nat /\ Size(Takes(req[r]), S) \in Nat
      <3> HIDE DEF S, s
      <3> QED
        BY <1>2, <2>1, SizeOfOne, PartSizes, SizeOfNone
    <2>7. Deletes(req'[r]) = Deletes(req[r])
      BY <1>1 DEF TaskMade, TaskOwes
    <2>8. CASE t.what = "count"
      <3>1. Adds(req[r]) = {s} /\ Adds(req'[r]) = {} /\ Takes(req'[r]) = Takes(req[r])
        BY <2>8 DEF TaskMade, TaskOwes
      <3> HIDE DEF S, s, n, took
      <3> QED
        BY <1>1, <2>1, <2>4, <2>5, <2>6, <2>7, <2>8, <3>1 DEF CountStep, S
    <2>9. CASE t.what = "uncount"
      <3>1. Takes(req[r]) = took /\ Takes(req'[r]) = {} /\ Adds(req'[r]) = Adds(req[r])
        BY <2>9 DEF TaskMade, TaskOwes
      <3> HIDE DEF S, s, n, took
      <3> QED
        BY <1>1, <2>1, <2>2, <2>3, <2>4, <2>5, <2>6, <2>7, <2>9, <3>1 DEF CountStep, S
    <2> QED
      BY <1>1, <2>8, <2>9
  <1>4. /\ Deletes(req'[r]) = Deletes(req[r]) /\ AddsReply(req'[r]) = AddsReply(req[r])
        /\ TakesReply(req'[r]) = TakesReply(req[r]) /\ Scores(req'[r]) = Scores(req[r])
        /\ Logs(req'[r]) = Logs(req[r]) /\ Unscores(req'[r]) = Unscores(req[r])
        /\ req'[r].pc \in {"tasks", "done"}
    BY <1>1 DEF TaskMade, TaskOwes, TaskUnscores
  <1>5. docs' \intersect Comments \subseteq docs
    BY <1>1
  <1> QED
    BY <1>1, <1>3, <1>4, <1>5, CountLedger

LEMMA ReplyTaskLedger ==
  ASSUME Types, Types', ThreadInv, ShapeInv, LedgerInv, NEW r \in Requests, NEW t, TaskMade(r, t), ReplyTask(r, t)
  PROVE  LedgerInv'
  <1> USE ReqType
  <1> DEFINE d == req[r].of
             p0 == t.of
  <1>1. /\ docs' = docs /\ UNCHANGED <<post_, count, parent, author, contributions, twice>> /\ Others(r)
        /\ UNCHANGED <<score, logs, taken>>
        /\ replies' = [replies EXCEPT ![p0] = IF p0 \notin docs THEN @
                                              ELSE IF t.what = "reply" THEN @ + 1
                                              ELSE IF Subtractable(p0) THEN @ - 1 ELSE @]
        /\ t.what \in {"reply", "unreply"}
    BY DEF ReplyTask, TaskMade, Others, contributions
  <1>2. d \in Comments /\ d \in Subjects /\ parent[d] = {p0}
    BY <1>1, CommentSubjects DEF TaskMade, TaskOwes
  <1>3. p0 \in Comments /\ Created(p0)
    BY <1>2 DEF ShapeInv, KnownInv, Types, Collections
  <1>4. /\ Adds(req'[r]) = Adds(req[r]) /\ Deletes(req'[r]) = Deletes(req[r]) /\ Takes(req'[r]) = Takes(req[r])
        /\ Scores(req'[r]) = Scores(req[r]) /\ Logs(req'[r]) = Logs(req[r]) /\ Unscores(req'[r]) = Unscores(req[r])
        /\ req'[r].pc \in {"tasks", "done"}
    BY <1>1 DEF TaskMade, TaskOwes, TaskUnscores
  <1>5. \A k \in Kinds : CountStep(r, k)
    BY <1>1, <1>4, SameCounts
  <1>6. \A u \in Users : ScoreStep(r, u)
    BY <1>1, <1>4, SameScores
  <1>7. \A p \in Comments : p \in docs' \/ ~Created(p)' => p \in docs \/ ~Created(p)
    <2>1. docs' \intersect Comments \subseteq docs
      BY <1>1
    <2> QED
      BY <1>1, <1>4, <2>1, SameGuard
  <1>8. Created(p0)'
    BY <1>1, <1>3, <1>4 DEF Created, Others
  <1>9. ASSUME NEW p \in Comments, p \in docs' \/ ~Created(p)' PROVE ReplyStep(r, p)
    <2> DEFINE S == RepliesTo(p)
    <2>1. S \in SUBSET Subjects /\ RepliesTo(p)' = S /\ replies[p] \in Int
      BY <1>1, CommentSubjects DEF RepliesTo, Types, Collections
    <2>2. d \in S <=> p = p0
      BY <1>2 DEF RepliesTo
    <2>3. twice'[r] = twice[r] /\ docs' = docs
      BY <1>1
    <2>4. p = p0 => p \in docs
      BY <1>1, <1>8, <1>9
    <2>5. replies'[p] = IF p # p0 THEN replies[p]
                        ELSE IF t.what = "reply" THEN replies[p] + 1
                        ELSE IF Subtractable(p) THEN replies[p] - 1 ELSE replies[p]
      BY <1>1, <1>3, <2>4 DEF Types, Collections
    <2>6. Size({d}, S) = (IF p = p0 THEN 1 ELSE 0) /\ Size({}, S) = 0
      <3> HIDE DEF S, d, p0
      <3> QED
        BY <1>2, <2>1, <2>2, SizeOfOne, SizeOfNone
    <2>7. /\ Size(docs, S) \in Nat /\ Size(twice[r], S) \in Nat /\ Size(Deletes(req[r]), S) \in Nat
          /\ Size(AddsReply(req[r]), S) \in Nat /\ Size(TakesReply(req[r]), S) \in Nat
      BY <2>1, PartSizes
    <2>8. CASE t.what = "reply"
      <3>1. AddsReply(req[r]) = {d} /\ AddsReply(req'[r]) = {} /\ TakesReply(req'[r]) = TakesReply(req[r])
        BY <2>8 DEF TaskMade, TaskOwes
      <3> HIDE DEF S, d, p0
      <3> QED
        BY <1>4, <2>1, <2>3, <2>5, <2>6, <2>7, <2>8, <3>1 DEF ReplyStep, S
    <2>9. CASE t.what = "unreply"
      <3>1. TakesReply(req[r]) = {d} /\ TakesReply(req'[r]) = {} /\ AddsReply(req'[r]) = AddsReply(req[r])
        BY <2>9 DEF TaskMade, TaskOwes
      <3> HIDE DEF S, d, p0
      <3> QED
        BY <1>4, <2>1, <2>3, <2>5, <2>6, <2>7, <2>9, <3>1 DEF ReplyStep, S
    <2> QED
      BY <1>1, <2>8, <2>9
  <1> QED
    BY <1>1, <1>5, <1>6, <1>7, <1>9, LedgerFrame

LEMMA NoteTaskLedger ==
  ASSUME Types, Types', ThreadInv, ShapeInv, LedgerInv, NEW r \in Requests, NEW t, TaskMade(r, t),
         NoteTask(r, t) \/ UnnoteTask(r, t)
  PROVE  LedgerInv'
  <1>1. /\ docs' = docs /\ UNCHANGED <<post_, count, thread, contributions, twice>>
        /\ UNCHANGED <<replies, parent, author>> /\ t.what \in {"note", "unnote"}
    BY DEF NoteTask, UnnoteTask, TaskMade, thread
  <1>2. Same(req'[r], req[r])
    BY <1>1 DEF TaskMade, TaskOwes, TaskUnscores, Same
  <1> QED
    BY <1>1, <1>2, StillLedger DEF TaskMade

\* A step about contributions only.
LEMMA ContributionLedger ==
  ASSUME Types, Types', ThreadInv, ShapeInv, LedgerInv, NEW r \in Requests, NEW t, TaskMade(r, t),
         t.what \in {"log", "score", "unlog", "unscore"},
         UNCHANGED <<docs, count, thread, taken, twice>>, \A u \in Users : ScoreStep(r, u)
  PROVE  LedgerInv'
  <1>1. /\ Others(r) /\ UNCHANGED <<post_, replies, parent, author>> /\ req'[r].pc \in {"tasks", "done"}
        /\ docs' \intersect Comments \subseteq docs
    BY DEF TaskMade, Others, thread
  <1>2. /\ Adds(req'[r]) = Adds(req[r]) /\ Deletes(req'[r]) = Deletes(req[r]) /\ Takes(req'[r]) = Takes(req[r])
        /\ AddsReply(req'[r]) = AddsReply(req[r]) /\ TakesReply(req'[r]) = TakesReply(req[r])
    BY DEF TaskMade, TaskOwes
  <1>3. \A k \in Kinds : CountStep(r, k)
    BY <1>2, SameCounts
  <1>4. \A p \in Comments : ReplyStep(r, p)
    BY <1>1, <1>2, SameReplies
  <1>5. \A p \in Comments : p \in docs' \/ ~Created(p)' => p \in docs \/ ~Created(p)
    BY <1>1, SameGuard
  <1> QED
    BY <1>1, <1>3, <1>4, <1>5, LedgerFrame

LEMMA ScoreTaskLedger ==
  ASSUME Types, Types', ThreadInv, ShapeInv, LedgerInv, NEW r \in Requests, NEW t, TaskMade(r, t), ScoreTask(r, t)
  PROVE  LedgerInv'
  <1> DEFINE c == t.of
  <1>1. /\ UNCHANGED <<docs, count, thread, taken, twice>> /\ logs' = logs /\ author' = author
        /\ score' = [score EXCEPT ![author[c]] = IF t.what = "score" THEN @ + 1 ELSE @ - 1]
        /\ t.what \in {"score", "unscore"}
    BY DEF ScoreTask, thread
  <1>2. c \in Comments /\ c \in Subjects
    BY <1>1, CommentSubjects DEF TaskMade, TaskOwes
  <1>3. Logs(req'[r]) = Logs(req[r])
    BY <1>1 DEF TaskMade, TaskOwes
  <1>4. ASSUME NEW u \in Users PROVE ScoreStep(r, u)
    <2> DEFINE S == By(u)
    <2>1. S \in SUBSET Subjects /\ By(u)' = S /\ score[u] \in Int /\ logs \in SUBSET Subjects
      BY <1>1, CommentSubjects DEF By, Types, Collections
    <2>2. c \in S <=> author[c] = u
      BY <1>2 DEF By
    <2>3. score'[u] = IF c \notin S THEN score[u] ELSE IF t.what = "score" THEN score[u] + 1 ELSE score[u] - 1
      BY <1>1, <1>2, <2>2 DEF Types, Collections
    <2>4. Size({c}, S) = (IF c \in S THEN 1 ELSE 0) /\ Size({}, S) = 0
      <3> HIDE DEF S, c
      <3> QED
        BY <1>2, <2>1, SizeOfOne, SizeOfNone
    <2>5. /\ Size(logs, S) \in Nat /\ Size(Scores(req[r]), S) \in Nat /\ Size(Logs(req[r]), S) \in Nat
          /\ Size(Unscores(req[r]), S) \in Nat
      BY <2>1, PartSizes
    <2>6. CASE t.what = "score"
      <3>1. Scores(req[r]) = {c} /\ Scores(req'[r]) = {} /\ Unscores(req'[r]) = Unscores(req[r])
        BY <2>6 DEF TaskMade, TaskOwes, TaskUnscores
      <3> HIDE DEF S, c
      <3> QED
        BY <1>1, <1>3, <2>1, <2>3, <2>4, <2>5, <2>6, <3>1 DEF ScoreStep, S
    <2>7. CASE t.what = "unscore"
      <3> DEFINE U == Unscores(req[r])
                 V == Unscores(req'[r])
      <3>1. Scores(req'[r]) = Scores(req[r]) /\ c \in U /\ V = U \ {c}
        BY <2>7 DEF TaskMade, TaskOwes, TaskUnscores
      <3>2. U \in SUBSET Subjects /\ V \in SUBSET Subjects
        BY <3>1, PartsType DEF Types, ReqsOK, GoodRequest
      <3>3. U = V \union {c} /\ c \notin V
        BY <3>1
      <3> HIDE DEF U, V, S, c
      <3>4. Size(V, S) \in Nat /\ Size({c}, S) \in Nat /\ Size(V \union {c}, S) = Size(V, S) + Size({c}, S)
        BY <1>2, <2>1, <3>2, <3>3, SizeOfMore
      <3>5. Size(U, S) = Size(V, S) + Size({c}, S)
        BY <3>3, <3>4
      <3>6. Size(logs', S) = Size(logs, S) /\ Size(Scores(req'[r]), S) = Size(Scores(req[r]), S)
            /\ Size(Logs(req'[r]), S) = Size(Logs(req[r]), S)
        BY <1>1, <1>3, <3>1
      <3> QED
        BY <2>1, <2>3, <2>4, <2>5, <2>7, <3>4, <3>5, <3>6 DEF ScoreStep, S, U, V
    <2> QED
      BY <1>1, <2>6, <2>7
  <1> QED
    BY <1>1, <1>4, ContributionLedger

LEMMA LogTaskLedger ==
  ASSUME Types, Types', ThreadInv, ShapeInv, LedgerInv, NEW r \in Requests, NEW t, TaskMade(r, t), LogTask(r, t)
  PROVE  LedgerInv'
  <1> DEFINE c == t.of
  <1>1. /\ UNCHANGED <<docs, count, thread, taken, twice>> /\ logs' = logs \union {c} /\ author' = author
        /\ score' = score /\ t.what = "log"
    BY DEF LogTask, thread
  <1>2. c \in Comments /\ c \in Subjects /\ c \notin logs
    BY <1>1, CommentSubjects DEF TaskMade, TaskOwes
  <1>3. /\ Logs(req[r]) = {c} /\ Logs(req'[r]) = {} /\ Scores(req'[r]) = Scores(req[r])
        /\ Unscores(req'[r]) = Unscores(req[r])
    BY <1>1 DEF TaskMade, TaskOwes, TaskUnscores
  <1>4. ASSUME NEW u \in Users PROVE ScoreStep(r, u)
    <2> DEFINE S == By(u)
    <2>1. S \in SUBSET Subjects /\ By(u)' = S /\ score[u] \in Int /\ logs \in SUBSET Subjects
      BY <1>1, CommentSubjects DEF By, Types, Collections
    <2> HIDE DEF S, c
    <2>2. /\ Size(logs, S) \in Nat /\ Size({c}, S) \in Nat
          /\ Size(logs \union {c}, S) = Size(logs, S) + Size({c}, S) /\ Size({}, S) = 0
      BY <1>2, <2>1, SizeOfMore, SizeOfNone
    <2>3. Size(Scores(req[r]), S) \in Nat /\ Size(Unscores(req[r]), S) \in Nat
      BY <2>1, PartSizes
    <2> QED
      BY <1>1, <1>3, <2>1, <2>2, <2>3 DEF ScoreStep, S
  <1> QED
    BY <1>1, <1>4, ContributionLedger

LEMMA UnlogTaskLedger ==
  ASSUME Types, Types', ThreadInv, ShapeInv, LedgerInv, NEW r \in Requests, NEW t, TaskMade(r, t), UnlogTask(r, t)
  PROVE  LedgerInv'
  <1> DEFINE c == t.of
  <1>1. /\ UNCHANGED <<docs, count, thread, taken, twice>> /\ logs' = logs \ {c} /\ author' = author
        /\ score' = score /\ t.what = "unlog"
    BY DEF UnlogTask, thread
  <1>2. c \in Comments /\ c \in Subjects
    BY <1>1, CommentSubjects DEF TaskMade, TaskOwes
  <1>3. Logs(req'[r]) = Logs(req[r]) /\ Scores(req'[r]) = Scores(req[r])
    BY <1>1 DEF TaskMade, TaskOwes
  <1>4. ASSUME NEW u \in Users PROVE ScoreStep(r, u)
    <2> DEFINE S == By(u)
               U == Unscores(req[r])
               V == Unscores(req'[r])
               L == logs'
    <2>1. S \in SUBSET Subjects /\ By(u)' = S /\ score[u] \in Int /\ logs \in SUBSET Subjects
      BY <1>1, CommentSubjects DEF By, Types, Collections
    <2>2. U \in SUBSET Subjects
      BY PartsType DEF Types, ReqsOK, GoodRequest
    <2>3. /\ Size(logs, S) \in Nat /\ Size(U, S) \in Nat /\ Size(Scores(req[r]), S) \in Nat
          /\ Size(Logs(req[r]), S) \in Nat
      BY <2>1, PartSizes
    <2>4. CASE c \in logs
      <3>1. V = U \union {c} /\ c \notin U
        BY <1>1, <2>4 DEF TaskMade, TaskUnscores, Logged
      <3>2. logs = L \union {c}
        BY <1>1, <2>1, <2>4
      <3>7. c \notin L /\ L \in SUBSET Subjects
        BY <1>1, <2>1, <2>4
      <3> HIDE DEF S, c, U, V, L
      <3>3. Size({c}, S) \in Nat /\ Size(U \union {c}, S) = Size(U, S) + Size({c}, S)
        BY <1>2, <2>1, <2>2, <3>1, SizeOfMore
      <3>4. Size(L, S) \in Nat /\ Size(L \union {c}, S) = Size(L, S) + Size({c}, S)
        BY <1>2, <2>1, <3>7, SizeOfMore
      <3>5. Size(V, S) = Size(U, S) + Size({c}, S)
        BY <3>1, <3>3
      <3>6. Size(logs, S) = Size(L, S) + Size({c}, S)
        BY <3>2, <3>4
      <3> QED
        BY <1>1, <1>3, <2>1, <2>3, <3>3, <3>4, <3>5, <3>6 DEF ScoreStep, S, U, V, L
    <2>5. CASE c \notin logs
      <3>1. V = U /\ L = logs
        BY <1>1, <2>5 DEF TaskMade, TaskUnscores, Logged
      <3> HIDE DEF S, c, U, V, L
      <3> QED
        BY <1>1, <1>3, <2>1, <2>3, <3>1 DEF ScoreStep, S, U, V, L
    <2> QED
      BY <2>4, <2>5
  <1> QED
    BY <1>1, <1>4, ContributionLedger

LEMMA DeleteTaskLedger ==
  ASSUME Types, Types', ThreadInv, ShapeInv, LedgerInv, NEW r \in Requests, NEW t, TaskMade(r, t), DeleteTask(r, t)
  PROVE  LedgerInv'
  <1> DEFINE ids == req[r].ids
  <1>1. /\ docs' = docs \ ids /\ twice' = [twice EXCEPT ![r] = @ \union (ids \ docs)]
        /\ UNCHANGED <<count, thread, contributions>> /\ t.what = "delete"
        /\ UNCHANGED <<post_, replies, parent, author, score, logs, taken>>
    BY DEF DeleteTask, thread, contributions, TaskMade
  <1>2. /\ Adds(req'[r]) = Adds(req[r]) /\ Takes(req'[r]) = Takes(req[r])
        /\ AddsReply(req'[r]) = AddsReply(req[r]) /\ TakesReply(req'[r]) = TakesReply(req[r])
        /\ Scores(req'[r]) = Scores(req[r]) /\ Logs(req'[r]) = Logs(req[r]) /\ Unscores(req'[r]) = Unscores(req[r])
        /\ Deletes(req[r]) = ids /\ Deletes(req'[r]) = {} /\ twice[r] = {}
        /\ req'[r].pc \in {"tasks", "done"}
    BY <1>1 DEF TaskMade, TaskOwes, TaskUnscores
  <1>3. Others(r) /\ twice'[r] = ids \ docs
    BY <1>1, <1>2 DEF Others, TaskMade, Types, Collections
  <1>4. ids \in SUBSET Subjects /\ docs \in SUBSET Subjects
    BY TaskSubject DEF TaskMade, Types, Collections
  <1>5. ASSUME NEW S \in SUBSET Subjects
        PROVE  /\ Size(ids, S) \in Nat /\ Size(docs, S) \in Nat /\ Size(docs', S) \in Nat /\ Size(ids \ docs, S) \in Nat
               /\ Size(ids \ docs, S) + Size(docs, S) = Size(ids, S) + Size(docs', S)
    <2>1. docs \intersect ids = ids \intersect docs
      OBVIOUS
    <2>2. docs' = docs \ ids
      BY <1>1
    <2> HIDE DEF ids
    <2>3. /\ Size(ids, S) \in Nat /\ Size(ids \ docs, S) \in Nat /\ Size(ids \intersect docs, S) \in Nat
          /\ Size(ids, S) = Size(ids \ docs, S) + Size(ids \intersect docs, S)
      BY <1>4, SizeSplit, ZenonT(40)
    <2>4. /\ Size(docs, S) \in Nat /\ Size(docs \ ids, S) \in Nat
          /\ Size(docs, S) = Size(docs \ ids, S) + Size(docs \intersect ids, S)
      BY <1>4, SizeSplit, ZenonT(40)
    <2> QED
      BY <2>1, <2>2, <2>3, <2>4
  <1> HIDE DEF ids
  <1>6. ASSUME NEW k \in Kinds PROVE CountStep(r, k)
    <2> DEFINE S == OfKind(k)
    <2>1. S \in SUBSET Subjects /\ count[k] \in Int
      BY DEF OfKind, Types, Collections
    <2> HIDE DEF S
    <2>2. /\ Size(ids, S) \in Nat /\ Size(docs, S) \in Nat /\ Size(docs', S) \in Nat /\ Size(ids \ docs, S) \in Nat
          /\ Size(ids \ docs, S) + Size(docs, S) = Size(ids, S) + Size(docs', S)
      BY <1>5, <2>1
    <2>4. count'[k] = count[k]
      BY <1>1
    <2>5. Size(twice'[r], S) = Size(ids \ docs, S) /\ Size(twice[r], S) = Size({}, S)
      BY <1>2, <1>3
    <2>3. Size({}, S) = 0 /\ Size(Adds(req[r]), S) \in Nat /\ Size(Takes(req[r]), S) \in Nat
      BY <2>1, SizeOfNone, PartSizes
    <2> QED
      BY <1>2, <2>1, <2>2, <2>3, <2>4, <2>5 DEF CountStep, S
  <1>7. ASSUME NEW p \in Comments PROVE ReplyStep(r, p)
    <2> DEFINE S == RepliesTo(p)
    <2>1. S \in SUBSET Subjects /\ RepliesTo(p)' = S /\ replies[p] \in Int
      BY <1>1, CommentSubjects DEF RepliesTo, Types, Collections
    <2> HIDE DEF S
    <2>2. /\ Size(ids, S) \in Nat /\ Size(docs, S) \in Nat /\ Size(docs', S) \in Nat /\ Size(ids \ docs, S) \in Nat
          /\ Size(ids \ docs, S) + Size(docs, S) = Size(ids, S) + Size(docs', S)
      BY <1>5, <2>1
    <2>4. replies'[p] = replies[p] /\ RepliesTo(p)' = S
      BY <1>1, <2>1
    <2>5. Size(twice'[r], S) = Size(ids \ docs, S) /\ Size(twice[r], S) = Size({}, S)
      BY <1>2, <1>3
    <2>3. Size({}, S) = 0 /\ Size(AddsReply(req[r]), S) \in Nat /\ Size(TakesReply(req[r]), S) \in Nat
      BY <2>1, SizeOfNone, PartSizes
    <2> QED
      BY <1>2, <2>1, <2>2, <2>3, <2>4, <2>5 DEF ReplyStep, S
  <1>8. \A u \in Users : ScoreStep(r, u)
    BY <1>1, <1>2, SameScores
  <1>9. \A p \in Comments : p \in docs' \/ ~Created(p)' => p \in docs \/ ~Created(p)
    <2>1. docs' \intersect Comments \subseteq docs
      BY <1>1
    <2> QED
      BY <1>2, <1>3, <2>1, SameGuard
  <1> QED
    BY <1>1, <1>3, <1>6, <1>7, <1>8, <1>9, LedgerFrame

LEMMA TaskLedger ==
  ASSUME Types, Types', ThreadInv, ShapeInv, LedgerInv, NEW r \in Requests, DoTask(r)
  PROVE  LedgerInv'
  <1>1. PICK t \in req[r].tasks :
          \/ CountTask(r, t) \/ ReplyTask(r, t) \/ NoteTask(r, t) \/ LogTask(r, t) \/ ScoreTask(r, t)
          \/ DeleteTask(r, t) \/ UnlogTask(r, t) \/ UnnoteTask(r, t)
    BY DEF DoTask
  <1>2. req[r].pc = "tasks" /\ UNCHANGED post_
    BY DEF DoTask, At
  <1>3. TaskMade(r, t)
    BY <1>1, <1>2, TaskParts DEF TaskMade
  <1> QED
    BY <1>1, <1>3, CountTaskLedger, ReplyTaskLedger, NoteTaskLedger, LogTaskLedger, ScoreTaskLedger,
       DeleteTaskLedger, UnlogTaskLedger

LEMMA OwingType == \A f, S : S \in SUBSET Subjects => Owing(f, S) \in Nat
  <1> SUFFICES ASSUME NEW f, NEW S, S \in SUBSET Subjects PROVE Owing(f, S) \in Nat
    OBVIOUS
  <1>1. IsFiniteSet(S)
    BY FiniteSubjects
  <1>2. IsFiniteSet(Requests \X S)
    BY <1>1, FS_Product, RequestsAssumption
  <1>3. {x \in Requests \X S : x[2] \in f[x[1]]} \subseteq Requests \X S
    OBVIOUS
  <1> QED
    BY <1>2, <1>3, FS_Subset, FS_CardinalityType DEF Owing

LEMMA DueType ==
  ASSUME Types, NEW u \in Users
  PROVE  /\ Due(u) \in Int /\ Told(u) \in Int /\ taken[u] \in Nat
         /\ JobTakes(u) \in SUBSET Comments /\ Cardinality(JobTakes(u)) \in Nat
  <1>1. By(u) \in SUBSET Subjects /\ score[u] \in Int /\ logs \in SUBSET Subjects /\ taken[u] \in Nat
    BY CommentSubjects DEF By, Types, Collections
  <1>2. JobTakes(u) \in SUBSET Comments
    BY DEF JobTakes, FoundOf, Types, JobOK, Job
  <1>3. Owing(Scoring, By(u)) \in Nat /\ Owing(Logging, By(u)) \in Nat /\ Owing(Unscoring, By(u)) \in Nat
    BY <1>1, OwingType
  <1>4. Size(logs, By(u)) \in Nat
    BY <1>1, SizeSplit, ZenonT(40)
  <1> QED
    BY <1>1, <1>2, <1>3, <1>4, CountOfComments DEF Due, Told

\* The job uncounts users' contributions once the logs it found are deleted.
JobInv == job.users # {} => {"find logs", "delete logs"} \intersect job.tasks = {}

LEMMA JobAnew == MarkDeleting \/ JobRead \/ JobDelete \/ JobRemovePost => job'.users = {}
  <1>1. \A pc : NoJob(pc).users = {}
    BY DEF NoJob
  <1>2. ASSUME JobRead PROVE job'.users = {}
    <2>1. job' = [[NoJob("traces") EXCEPT !.ids = docs \intersect Comments] EXCEPT !.tasks = {"find logs", "notes"}]
      BY <1>2 DEF JobRead
    <2> QED
      BY <2>1 DEF NoJob
  <1> QED
    BY <1>1, <1>2 DEF MarkDeleting, JobDelete, JobRemovePost

LEMMA NextJobs == Types /\ GoneInv /\ TraceInv /\ JobInv /\ [Next]_vars => JobInv'
  <1> SUFFICES ASSUME Types, GoneInv, TraceInv, JobInv, [Next]_vars PROVE JobInv'
    OBVIOUS
  <1>1. job \in Job
    BY DEF Types, JobOK
  <1>2. CASE job' = job
    BY <1>2 DEF JobInv
  <1>3. CASE MarkDeleting \/ JobRead \/ JobDelete \/ JobRemovePost
    BY <1>3, JobAnew DEF JobInv
  <1>4. CASE JobFindLogs
    <2>1. job.users = {}
      BY <1>4 DEF JobFindLogs, JobInv
    <2>2. job'.users = {}
      BY <1>1, <1>4, <2>1 DEF JobFindLogs, JobGoesOn, NoJob, Job
    <2> QED
      BY <2>2 DEF JobInv
  <1>5. CASE JobDeleteLogs
    <2>1. "find logs" \notin job.tasks
      BY <1>5 DEF JobDeleteLogs, TraceInv
    <2>2. job'.tasks \subseteq job.tasks \ {"delete logs"}
      BY <1>1, <1>5 DEF JobDeleteLogs, JobGoesOn, NoJob, Job
    <2> QED
      BY <2>1, <2>2 DEF JobInv
  <1>6. CASE JobRemoveNotes
    <2>1. job'.tasks \subseteq job.tasks /\ (job'.users = job.users \/ job'.users = {})
      BY <1>1, <1>6 DEF JobRemoveNotes, JobGoesOn, NoJob, Job
    <2> QED
      BY <2>1 DEF JobInv
  <1>7. ASSUME NEW u \in Users, JobUncount(u) PROVE JobInv'
    <2>1. job'.tasks \subseteq job.tasks /\ job.users # {}
      BY <1>1, <1>7 DEF JobUncount, JobGoesOn, NoJob, Job
    <2> QED
      BY <2>1 DEF JobInv
  <1>8. Next => job' = job \/ Deletion
    BY DEF Next, Deletion, Step, DoTask, React, Say, Unsay, Refuse, FindTarget, FindRepost, CreateReaction, CountReaction,
           UndoLike, SendNote, DropReaction, UncountRepost, FindTargetAgain, RemoveNote, FindParent, CreateComment,
           FindComment, FindReplies, post_
  <1> QED
    BY <1>2, <1>3, <1>4, <1>5, <1>6, <1>7, <1>8 DEF Deletion, JobStep, vars

LEMMA SameDue ==
  ASSUME UNCHANGED <<req, author>>, NEW u \in Users
  PROVE  /\ score'[u] = score[u] => Due(u)' = Due(u)
         /\ logs' = logs => Told(u)' = Told(u)
  <1>1. Scoring' = Scoring /\ Logging' = Logging /\ Unscoring' = Unscoring /\ By(u)' = By(u)
    BY DEF Scoring, Logging, Unscoring, By
  <1> QED
    BY <1>1 DEF Due, Told

\* A step of the job that takes no contribution.
LEMMA JobIdle ==
  ASSUME Types, Types', LedgerInv, UNCHANGED <<req, author, score, logs, taken>>, ~Visible',
         \A u \in Users : JobTakes(u)' = JobTakes(u) \/ JobTakes(u)' = {}
  PROVE  LedgerInv'
  <1>1. ASSUME NEW u \in Users PROVE Due(u)' + taken'[u] >= Told(u)' + Cardinality(JobTakes(u)')
    <2>1. Due(u)' = Due(u) /\ Told(u)' = Told(u) /\ taken'[u] = taken[u]
      BY SameDue
    <2>2. Due(u) \in Int /\ Told(u) \in Int /\ taken[u] \in Nat /\ Cardinality(JobTakes(u)) \in Nat
      BY DueType
    <2>3. Due(u) + taken[u] >= Told(u) + Cardinality(JobTakes(u))
      BY DEF LedgerInv, ScoreInv
    <2>4. CASE JobTakes(u)' = JobTakes(u)
      BY <2>1, <2>3, <2>4
    <2>5. CASE JobTakes(u)' = {}
      <3>1. Cardinality(JobTakes(u)') = 0
        BY <2>5, FS_EmptySet
      <3> QED
        BY <2>1, <2>2, <2>3, <3>1
    <2> QED
      BY <2>4, <2>5
  <1> QED
    BY <1>1 DEF LedgerInv, CountInv, ScoreInv

LEMMA MarkLedger ==
  ASSUME Types, Types', LedgerInv, MarkDeleting
  PROVE  LedgerInv'
  <1>1. UNCHANGED <<req, author, score, logs, taken>> /\ ~Visible' /\ job'.users = {}
    BY DEF MarkDeleting, thread, contributions, Visible, NoJob
  <1>2. \A u \in Users : JobTakes(u)' = {}
    BY <1>1 DEF JobTakes
  <1> QED
    BY <1>1, <1>2, JobIdle

LEMMA DeleteLogsLedger ==
  ASSUME Types, Types', JobInv, LedgerInv, ~Visible', JobDeleteLogs
  PROVE  LedgerInv'
  <1> DEFINE found == job.found
  <1>1. /\ UNCHANGED <<req, author, score>> /\ logs' = logs \ found /\ job.users = {}
        /\ taken' = [u \in Users |-> taken[u] + Cardinality(FoundOf(u) \ logs)]
    BY DEF JobDeleteLogs, thread, JobInv
  <1>2. job' = NoJob("documents") \/ job'.found = found
    BY DEF JobDeleteLogs, JobGoesOn, Types, JobOK, Job
  <1>3. found \in SUBSET Subjects /\ logs \in SUBSET Subjects
    BY CommentSubjects DEF Types, Collections, JobOK, Job
  <1>4. ASSUME NEW u \in Users PROVE Due(u)' + taken'[u] >= Told(u)' + Cardinality(JobTakes(u)')
    <2> DEFINE S == By(u)
               D == logs'
    <2>0. S \in SUBSET Subjects /\ FoundOf(u) \in SUBSET Subjects
      BY CommentSubjects DEF By, FoundOf, Types, JobOK, Job
    <2>1. Due(u)' = Due(u)
      BY <1>1, SameDue
    <2>2. Due(u) \in Int /\ Told(u) \in Int /\ taken[u] \in Nat
      BY DueType
    <2>3. Due(u) + taken[u] >= Told(u)
      <3>1. Due(u) + taken[u] >= Told(u) + Cardinality(JobTakes(u))
        BY DEF LedgerInv, ScoreInv
      <3>2. JobTakes(u) = {}
        BY <1>1 DEF JobTakes
      <3> QED
        BY <2>2, <3>1, <3>2, FS_EmptySet
    <2>4. taken'[u] = taken[u] + Size(found \ logs, S)
      <3>1. FoundOf(u) \ logs = (found \ logs) \intersect S
        BY DEF FoundOf, By, Types, JobOK, Job
      <3> QED
        BY <1>1, <3>1 DEF Size
    <2>5. Size(logs, S) \in Nat /\ Size(D, S) \in Nat /\ Size(logs, S) = Size(D, S) + Size(logs \intersect found, S)
      <3>1. D = logs \ found
        BY <1>1
      <3> HIDE DEF S, D, found
      <3> QED
        BY <1>3, <2>0, <3>1, SizeSplit, ZenonT(40)
    <2>6. /\ Size(found, S) \in Nat /\ Size(found \ logs, S) \in Nat /\ Size(found \intersect logs, S) \in Nat
          /\ Size(found, S) = Size(found \ logs, S) + Size(found \intersect logs, S)
      <3> HIDE DEF S, found
      <3> QED
        BY <1>3, <2>0, SizeSplit, ZenonT(40)
    <2>7. Size(logs \intersect found, S) = Size(found \intersect logs, S)
      <3>1. logs \intersect found = found \intersect logs
        OBVIOUS
      <3> QED
        BY <3>1
    <2>8. Told(u)' = Told(u) - Size(logs, S) + Size(D, S)
      <3>1. Logging' = Logging /\ Unscoring' = Unscoring /\ By(u)' = S
        BY <1>1 DEF Logging, Unscoring, By
      <3>2. Owing(Logging, S) \in Nat /\ Owing(Unscoring, S) \in Nat
        BY <2>0, OwingType
      <3>3. Told(u) = Size(logs, S) + Owing(Logging, S) + Owing(Unscoring, S)
        BY DEF Told
      <3>4. Told(u)' = Size(D, S) + Owing(Logging, S) + Owing(Unscoring, S)
        BY <3>1 DEF Told
      <3> HIDE DEF S, D
      <3> QED
        BY <2>5, <3>2, <3>3, <3>4
    <2>9. Cardinality(JobTakes(u)') \in Nat /\ Cardinality(JobTakes(u)') <= Size(found, S)
      <3>1. FoundOf(u) = found \intersect S
        BY DEF FoundOf, By, Types, JobOK, Job
      <3>2. CASE job' = NoJob("documents")
        <4>1. JobTakes(u)' = {}
          BY <3>2 DEF JobTakes, NoJob
        <4> QED
          BY <2>6, <4>1, FS_EmptySet
      <3>3. CASE job'.found = found
        <4>1. FoundOf(u)' = found \intersect S
          BY <1>1, <3>1, <3>3 DEF FoundOf
        <4>2. JobTakes(u)' = {} \/ JobTakes(u)' = found \intersect S
          BY <4>1 DEF JobTakes
        <4>3. Cardinality({}) = 0 /\ Size(found, S) = Cardinality(found \intersect S) /\ Size(found, S) \in Nat
          BY <2>6, FS_EmptySet DEF Size
        <4> HIDE DEF S, found
        <4> QED
          BY <4>2, <4>3
      <3> QED
        BY <1>2, <3>2, <3>3
    <2> HIDE DEF S, D, found
    <2> QED
      BY <2>1, <2>2, <2>3, <2>4, <2>5, <2>6, <2>7, <2>8, <2>9
  <1> QED
    BY <1>4 DEF LedgerInv, CountInv, ScoreInv

LEMMA UncountLedger ==
  ASSUME Types, Types', LedgerInv, ~Visible', NEW v \in Users, JobUncount(v)
  PROVE  LedgerInv'
  <1>1. /\ UNCHANGED <<req, author, logs, taken>> /\ v \in job.users
        /\ score' = [score EXCEPT ![v] = CounterReset(@, Cardinality(FoundOf(v)))]
    BY DEF JobUncount, thread
  <1>2. /\ job'.users = job.users \ {v} \/ (job.users = {v} /\ job'.users = {})
        /\ job'.found = job.found \/ job'.users = {}
    BY <1>1 DEF JobUncount, JobGoesOn, NoJob, Types, JobOK, Job
  <1>3. ASSUME NEW u \in Users PROVE Due(u)' + taken'[u] >= Told(u)' + Cardinality(JobTakes(u)')
    <2>1. Told(u)' = Told(u) /\ taken'[u] = taken[u]
      BY <1>1, SameDue
    <2>2. Due(u) \in Int /\ Told(u) \in Int /\ taken[u] \in Nat /\ Cardinality(JobTakes(u)) \in Nat
      BY DueType
    <2>3. Due(u) + taken[u] >= Told(u) + Cardinality(JobTakes(u))
      BY DEF LedgerInv, ScoreInv
    <2>4. CASE u = v
      <3> DEFINE n == Cardinality(FoundOf(v))
      <3>1. JobTakes(u) = FoundOf(v)
        BY <1>1, <2>4 DEF JobTakes
      <3>2. score'[u] \in Int /\ score[u] \in Int /\ score'[u] >= score[u] - n
        <4>1. score[u] \in Int /\ score'[u] = CounterReset(score[u], n) /\ n \in Nat
          BY <1>1, <2>2, <2>4, <3>1 DEF Types, Collections
        <4> HIDE DEF n
        <4> QED
          BY <4>1 DEF CounterReset
      <3>3. Due(u)' = Due(u) + score'[u] - score[u]
        <4>1. Scoring' = Scoring /\ By(u)' = By(u)
          BY <1>1 DEF Scoring, By
        <4>2. Owing(Scoring, By(u)) \in Nat
          BY OwingType, CommentSubjects DEF By
        <4> QED
          BY <3>2, <4>1, <4>2 DEF Due
      <3>4. Cardinality(JobTakes(u)') = 0
        <4>1. JobTakes(u)' = {}
          BY <1>2, <2>4 DEF JobTakes
        <4> QED
          BY <4>1, FS_EmptySet
      <3> QED
        BY <2>1, <2>2, <2>3, <3>1, <3>2, <3>3, <3>4
    <2>5. CASE u # v
      <3>1. score'[u] = score[u]
        BY <1>1, <2>5 DEF Types, Collections
      <3>2. Due(u)' = Due(u)
        BY <1>1, <3>1, SameDue
      <3>3. JobTakes(u)' = JobTakes(u)
        <4>1. CASE job'.found = job.found
          <5>1. FoundOf(u)' = FoundOf(u)
            BY <1>1, <4>1 DEF FoundOf
          <5>2. u \in job'.users <=> u \in job.users
            BY <1>2, <2>5
          <5> QED
            BY <5>1, <5>2 DEF JobTakes
        <4>2. CASE job'.users = {}
          <5>1. u \notin job.users
            BY <1>2, <2>5, <4>2
          <5> QED
            BY <4>2, <5>1 DEF JobTakes
        <4> QED
          BY <1>2, <4>1, <4>2
      <3> QED
        BY <2>1, <2>3, <3>2, <3>3
    <2> QED
      BY <2>4, <2>5
  <1> QED
    BY <1>3 DEF LedgerInv, CountInv, ScoreInv

LEMMA JobLedger ==
  ASSUME Types, Types', GoneInv, TraceInv, JobInv, LedgerInv, Deletion
  PROVE  LedgerInv'
  <1>0. job \in Job
    BY DEF Types, JobOK
  <1>1. CASE MarkDeleting
    BY <1>1, MarkLedger
  <1>2. ASSUME JobStep, ~MarkDeleting
        PROVE  LedgerInv'
    <2>1. job.pc # "none"
      BY <1>2 DEF JobStep, JobRead, JobFindLogs, JobDeleteLogs, JobRemoveNotes, JobUncount, JobDelete, JobRemovePost,
                  GoneInv, JobFits
    <2>2. ~Visible'
      BY <1>2, <2>1 DEF JobStep, JobRead, JobFindLogs, JobDeleteLogs, JobRemoveNotes, JobUncount, JobDelete,
                        JobRemovePost, GoneInv, JobFits, Visible
    <2>3. CASE JobRead \/ JobDelete \/ JobRemovePost
      <3>1. UNCHANGED <<req, author, score, logs, taken>> /\ job'.users = {}
        BY <2>3, JobAnew DEF JobRead, JobDelete, JobRemovePost, thread, contributions
      <3>2. \A u \in Users : JobTakes(u)' = {}
        BY <3>1 DEF JobTakes
      <3> QED
        BY <2>2, <3>1, <3>2, JobIdle
    <2>4. CASE JobFindLogs
      <3>1. UNCHANGED <<req, author, score, logs, taken>> /\ job.users = {}
        BY <2>4 DEF JobFindLogs, thread, contributions, JobInv
      <3>2. job'.users = {}
        BY <1>0, <2>4, <3>1 DEF JobFindLogs, JobGoesOn, NoJob, Job
      <3>3. \A u \in Users : JobTakes(u)' = {}
        BY <3>2 DEF JobTakes
      <3> QED
        BY <2>2, <3>1, <3>3, JobIdle
    <2>5. CASE JobRemoveNotes
      <3>1. UNCHANGED <<req, author, score, logs, taken>>
        BY <2>5 DEF JobRemoveNotes, thread, contributions
      <3>2. job'.users = {} \/ (job'.users = job.users /\ job'.found = job.found)
        BY <1>0, <2>5 DEF JobRemoveNotes, JobGoesOn, NoJob, Job
      <3>3. \A u \in Users : JobTakes(u)' = JobTakes(u) \/ JobTakes(u)' = {}
        BY <3>1, <3>2 DEF JobTakes, FoundOf
      <3> QED
        BY <2>2, <3>1, <3>3, JobIdle
    <2>6. CASE JobDeleteLogs
      BY <2>2, <2>6, DeleteLogsLedger
    <2>7. CASE \E u \in Users : JobUncount(u)
      BY <2>2, <2>7, UncountLedger
    <2> QED
      BY <1>2, <2>3, <2>4, <2>5, <2>6, <2>7 DEF JobStep
  <1> QED
    BY <1>1, <1>2 DEF Deletion

LEMMA OwingNone ==
  ASSUME NEW f, NEW S, \A r \in Requests : f[r] \intersect S = {}
  PROVE  Owing(f, S) = 0
  <1>1. {x \in Requests \X S : x[2] \in f[x[1]]} = {}
    OBVIOUS
  <1> QED
    BY <1>1, FS_EmptySet DEF Owing

\* A moment at which no request owes anything.
LEMMA OwesNothing ==
  ASSUME Types, ShapeInv, \A r \in Requests : req[r].pc \in {"idle", "done"}
  PROVE  \A S : /\ Owing(Adding, S) = 0 /\ Owing(Deleting, S) = 0 /\ Owing(Taking, S) = 0
                /\ Owing(AddingReply, S) = 0 /\ Owing(TakingReply, S) = 0
                /\ Owing(Scoring, S) = 0 /\ Owing(Logging, S) = 0 /\ Owing(Unscoring, S) = 0
  <1>1. ASSUME NEW r \in Requests PROVE Nothing(req[r])
    <2>1. req[r].pc \notin {"count", "uncount"} /\ req[r].tasks = {}
      BY DEF ShapeInv, AptInv, Apt
    <2> QED
      BY <2>1, NothingYet
  <1>2. \A r \in Requests : /\ Adding[r] = {} /\ Deleting[r] = {} /\ Taking[r] = {} /\ AddingReply[r] = {}
                            /\ TakingReply[r] = {} /\ Scoring[r] = {} /\ Logging[r] = {} /\ Unscoring[r] = {}
    BY <1>1 DEF Nothing, Adding, Deleting, Taking, AddingReply, TakingReply, Scoring, Logging, Unscoring
  <1> QED
    BY <1>2, OwingNone

LEMMA KindSizes ==
  ASSUME NEW fans \in SUBSET Users, NEW said \in SUBSET Comments, NEW k \in Kinds
  PROVE  Size(({"like", "repost"} \X fans) \union said, OfKind(k))
            = IF k = "comment" THEN Cardinality(said) ELSE Cardinality(fans)
  <1> DEFINE D == ({"like", "repost"} \X fans) \union said
  <1>1. CASE k = "comment"
    <2>1. \A s \in said : s \in Subjects /\ Kind(s) = "comment"
      BY CommentSubjects, CommentKind
    <2>2. \A s \in {"like", "repost"} \X fans : Kind(s) # "comment"
      BY DEF Kind
    <2>3. D \intersect OfKind(k) = said
      BY <1>1, <2>1, <2>2 DEF OfKind
    <2> QED
      BY <1>1, <2>3 DEF Size
  <1>2. CASE k # "comment"
    <2>1. k \in {"like", "repost"}
      BY <1>2 DEF Kinds
    <2>2. \A s \in said : Kind(s) # k
      BY <1>2, CommentSubjects, CommentKind
    <2>3. \A s \in {k} \X fans : s \in D /\ s \in Subjects /\ Kind(s) = k
      BY <2>1 DEF Kind, Subjects, Reactions
    <2>4. \A s \in {"like", "repost"} \X fans : Kind(s) = k => s \in {k} \X fans
      BY DEF Kind
    <2>5. D \intersect OfKind(k) = {k} \X fans
      BY <2>2, <2>3, <2>4 DEF OfKind
    <2>6. IsFiniteSet(fans) /\ Cardinality(fans) \in Nat
      BY UsersAssumption, FS_Subset, FS_CardinalityType
    <2>7. IsFiniteSet({k}) /\ Cardinality({k}) = 1
      BY FS_Singleton
    <2>8. Cardinality({k} \X fans) = Cardinality({k}) * Cardinality(fans)
      BY <2>6, <2>7, FS_Product
    <2>9. Cardinality({k} \X fans) = Cardinality(fans)
      BY <2>6, <2>7, <2>8
    <2> QED
      BY <1>2, <2>5, <2>9 DEF Size
  <1> QED
    BY <1>1, <1>2

LEMMA InitLedger == Init => LedgerInv
  <1> SUFFICES ASSUME Init PROVE LedgerInv
    OBVIOUS
  <1>1. Types /\ ShapeInv
    BY InitType, InitShape
  <1>2. PICK fans \in SUBSET Users, said \in {{}, {Top, Reply}} :
          /\ docs = ({"like", "repost"} \X fans) \union said
          /\ count = [k \in Kinds |-> IF k = "comment" THEN Cardinality(said) ELSE Cardinality(fans)]
          /\ replies = [c \in Comments |-> IF c = Top /\ Reply \in said THEN 1 ELSE 0]
          /\ logs = said
          /\ \E u \in Users :
                /\ author = [c \in Comments |-> u]
                /\ score = [v \in Users |-> IF v = u THEN Cardinality(said) ELSE 0]
    BY DEF Init
  <1>3. PICK w \in Users : /\ author = [c \in Comments |-> w]
                           /\ score = [v \in Users |-> IF v = w THEN Cardinality(said) ELSE 0]
    BY <1>2
  <1>4. \A r \in Requests : req[r].pc \in {"idle", "done"}
    BY DEF Init, NoRequest
  <1>5. \A S : /\ Owing(Adding, S) = 0 /\ Owing(Deleting, S) = 0 /\ Owing(Taking, S) = 0
               /\ Owing(AddingReply, S) = 0 /\ Owing(TakingReply, S) = 0
               /\ Owing(Scoring, S) = 0 /\ Owing(Logging, S) = 0 /\ Owing(Unscoring, S) = 0
    BY <1>1, <1>4, OwesNothing
  <1>6. \A S : Owing(twice, S) = 0
    <2>1. \A r \in Requests : twice[r] = {}
      BY DEF Init
    <2> QED
      BY <2>1, OwingNone
  <1>7. said \in SUBSET Comments
    BY CommentSubjects
  <1>8. ASSUME NEW k \in Kinds PROVE CountOK(k)
    <2>1. count[k] = Size(docs, OfKind(k))
      BY <1>2, <1>7, KindSizes
    <2>2. count[k] \in Int
      BY <1>1 DEF Types, Collections
    <2> QED
      BY <1>5, <1>6, <2>1, <2>2 DEF CountOK
  <1>9. ASSUME NEW p \in Comments PROVE ReplyOK(p)
    <2>1. RepliesTo(p) = IF p = Top THEN {Reply} ELSE {}
      <3>1. \A c \in Comments : parent[c] = IF c = Reply THEN {Top} ELSE {}
        BY DEF Init
      <3>2. \A c \in Comments : parent[c] = {p} <=> c = Reply /\ p = Top
        <4>1. {} # {p} /\ ({Top} = {p} <=> p = Top)
          OBVIOUS
        <4> QED
          BY <3>1, <4>1
      <3> QED
        BY <3>2, CommentSubjects DEF RepliesTo
    <2>2. Reply \in Subjects /\ Reply \notin {"like", "repost"} \X fans
      BY CommentSubjects DEF Reply
    <2>3. Size(docs, RepliesTo(p)) = IF p = Top /\ Reply \in said THEN 1 ELSE 0
      <3>1. docs \intersect RepliesTo(p) = IF p = Top /\ Reply \in said THEN {Reply} ELSE {}
        BY <1>2, <2>1, <2>2
      <3> QED
        BY <3>1, FS_Singleton, FS_EmptySet DEF Size
    <2>4. replies[p] = IF p = Top /\ Reply \in said THEN 1 ELSE 0
      BY <1>2
    <2> QED
      BY <1>5, <1>6, <2>3, <2>4 DEF ReplyOK
  <1>10. ASSUME NEW u \in Users
         PROVE  Due(u) = Told(u) /\ Due(u) \in Int /\ taken[u] = 0 /\ Cardinality(JobTakes(u)) = 0
    <2>1. Size(logs, By(u)) = score[u]
      <3>1. By(u) = IF u = w THEN Comments ELSE {}
        BY <1>3 DEF By
      <3>2. logs \intersect By(u) = IF u = w THEN said ELSE {}
        BY <1>2, <1>7, <3>1
      <3> QED
        BY <1>3, <3>2, FS_EmptySet DEF Size
    <2>2. score[u] \in Int
      BY <1>1 DEF Types, Collections
    <2>3. JobTakes(u) = {} /\ taken[u] = 0
      BY DEF JobTakes, Init, NoJob
    <2> QED
      BY <1>5, <2>1, <2>2, <2>3, FS_EmptySet DEF Due, Told
  <1> QED
    BY <1>8, <1>9, <1>10 DEF LedgerInv, CountInv, ScoreInv

LEMMA InitJobs == Init => JobInv
  BY DEF Init, JobInv, NoJob

LEMMA NextLedger ==
  Types /\ Types' /\ GoneInv /\ ThreadInv /\ TraceInv /\ ShapeInv /\ JobInv /\ LedgerInv /\ [Next]_vars => LedgerInv'
  <1> SUFFICES ASSUME Types, Types', GoneInv, ThreadInv, TraceInv, ShapeInv, JobInv, LedgerInv, [Next]_vars
               PROVE  LedgerInv'
    OBVIOUS
  <1>1. CASE \E r \in Requests, op \in Op, s \in Reactions : React(r, op, s)
    BY <1>1, SendLedger
  <1>2. CASE \E r \in Requests, u \in Users, to \in {{}} \union {{c} : c \in docs \intersect Comments} : Say(r, u, to)
    BY <1>2, SendLedger
  <1>3. CASE \E r \in Requests, c \in docs \intersect Comments : Unsay(r, c)
    BY <1>3, SendLedger
  <1>4. CASE \E r \in Requests : Step(r)
    BY <1>4, ReadsLedger, WritesLedger, TaskLedger DEF Step, Reads, Writes
  <1>5. CASE Deletion
    BY <1>5, JobLedger
  <1>6. CASE UNCHANGED vars
    <2>1. UNCHANGED <<post, docs, count, parent, author, replies, logs, score, req, job, twice, taken>>
      BY <1>6 DEF vars
    <2>2. /\ Adding' = Adding /\ Deleting' = Deleting /\ Taking' = Taking /\ AddingReply' = AddingReply
          /\ TakingReply' = TakingReply /\ Scoring' = Scoring /\ Logging' = Logging /\ Unscoring' = Unscoring
      BY <2>1 DEF Adding, Deleting, Taking, AddingReply, TakingReply, Scoring, Logging, Unscoring
    <2>3. \A k \in Kinds : CountOK(k)' <=> CountOK(k)
      BY <2>1, <2>2 DEF CountOK
    <2>4. \A p \in Comments : (ReplyOK(p)' <=> ReplyOK(p)) /\ (Created(p)' <=> Created(p))
      BY <2>1, <2>2 DEF ReplyOK, RepliesTo, Created
    <2>5. \A u \in Users : Due(u)' = Due(u) /\ Told(u)' = Told(u) /\ JobTakes(u)' = JobTakes(u)
      BY <2>1, <2>2 DEF Due, Told, By, JobTakes, FoundOf
    <2>6. Visible' = Visible
      BY <2>1 DEF Visible
    <2>7. CountInv'
      BY <2>1, <2>3, <2>4, <2>6 DEF LedgerInv, CountInv
    <2>8. ScoreInv'
      BY <2>1, <2>5, <2>6 DEF LedgerInv, ScoreInv
    <2> QED
      BY <2>7, <2>8 DEF LedgerInv
  <1> QED
    BY <1>1, <1>2, <1>3, <1>4, <1>5, <1>6 DEF Next, Deletion

\* Once nothing is in flight, all that was owed is paid.
LEMMA LedgerSuffices == Types /\ TraceInv /\ ShapeInv /\ LedgerInv => CountsCover
  <1> SUFFICES ASSUME Types, TraceInv, ShapeInv, LedgerInv, Quiet PROVE CountsCover
    BY DEF CountsCover, DocumentsAreCounted, ContributionsAgree
  <1>1. \A S : /\ Owing(Adding, S) = 0 /\ Owing(Deleting, S) = 0 /\ Owing(Taking, S) = 0
               /\ Owing(AddingReply, S) = 0 /\ Owing(TakingReply, S) = 0
               /\ Owing(Scoring, S) = 0 /\ Owing(Logging, S) = 0 /\ Owing(Unscoring, S) = 0
    BY OwesNothing DEF Quiet, At
  <1>2. ASSUME Visible, NEW k \in Kinds PROVE count[k] + Owing(twice, OfKind(k)) >= Size(docs, OfKind(k))
    <2>1. OfKind(k) \in SUBSET Subjects /\ count[k] \in Int /\ docs \in SUBSET Subjects
      BY DEF OfKind, Types, Collections
    <2>2. Owing(twice, OfKind(k)) \in Nat /\ Size(docs, OfKind(k)) \in Nat
      BY <2>1, OwingType, SizeSplit
    <2>3. CountOK(k)
      BY <1>2 DEF LedgerInv, CountInv
    <2> QED
      BY <1>1, <2>1, <2>2, <2>3 DEF CountOK
  <1>3. ASSUME Visible, NEW k \in {"like", "repost"} PROVE count[k] >= Cardinality({s \in docs : Kind(s) = k})
    <2>1. k \in Kinds /\ k # "comment"
      BY DEF Kinds
    <2>2. \A r \in Requests : twice[r] \intersect OfKind(k) = {}
      <3>1. \A c \in Comments : c \notin OfKind(k)
        BY <2>1, CommentSubjects, CommentKind DEF OfKind
      <3> QED
        BY <3>1 DEF Types, Collections
    <2>3. Owing(twice, OfKind(k)) = 0
      BY <2>2, OwingNone
    <2>4. docs \intersect OfKind(k) = {s \in docs : Kind(s) = k}
      BY DEF OfKind, Types, Collections
    <2>5. count[k] \in Int /\ count[k] + Owing(twice, OfKind(k)) >= Size(docs, OfKind(k))
      BY <1>2, <1>3, <2>1 DEF Types, Collections
    <2>6. count[k] >= Size(docs, OfKind(k))
      BY <2>3, <2>5
    <2> QED
      BY <2>4, <2>6 DEF Size
  <1>4. ASSUME Visible PROVE count["comment"] >= Cardinality(docs \intersect Comments) - Extra(Comments)
    <2>1. OfKind("comment") = Comments
      BY CommentSubjects, CommentKind DEF OfKind
    <2>2. "comment" \in Kinds
      BY DEF Kinds
    <2>3. count["comment"] + Owing(twice, Comments) >= Size(docs, Comments)
      BY <1>2, <1>4, <2>1, <2>2
    <2>4. Owing(twice, Comments) \in Nat /\ Size(docs, Comments) \in Nat /\ count["comment"] \in Int
      BY <2>2, OwingType, SizeSplit, CommentSubjects DEF Types, Collections
    <2>5. Extra(Comments) = Owing(twice, Comments) /\ Cardinality(docs \intersect Comments) = Size(docs, Comments)
      BY DEF Extra, Owing, Size
    <2> QED
      BY <2>3, <2>4, <2>5
  <1>5. ASSUME Visible, NEW p \in docs \intersect Comments
        PROVE  replies[p] >= Cardinality(RepliesTo(p) \intersect docs) - Extra(RepliesTo(p))
    <2> DEFINE S == RepliesTo(p)
    <2>1. S \in SUBSET Subjects /\ replies[p] \in Int /\ docs \in SUBSET Subjects
      BY CommentSubjects DEF RepliesTo, Types, Collections
    <2>2. Owing(twice, S) \in Nat /\ Size(docs, S) \in Nat
      <3> HIDE DEF S
      <3> QED
        BY <2>1, OwingType, SizeSplit
    <2>3. ReplyOK(p)
      BY <1>5 DEF LedgerInv, CountInv
    <2>4. replies[p] + Owing(twice, S) >= Size(docs, S)
      BY <1>1, <2>1, <2>2, <2>3 DEF ReplyOK
    <2>5. S \intersect docs = docs \intersect S
      OBVIOUS
    <2>6. Extra(S) = Owing(twice, S) /\ Cardinality(S \intersect docs) = Size(docs, S)
      BY <2>5 DEF Extra, Owing, Size
    <2> QED
      BY <2>1, <2>2, <2>4, <2>6
  <1>6. DocumentsAreCounted
    BY <1>3, <1>4, <1>5 DEF DocumentsAreCounted
  <1>7. ASSUME NEW u \in Users
        PROVE  LET logged == Cardinality({c \in logs : author[c] = u})
               IN  (Visible => score[u] = logged) /\ score[u] >= logged - taken[u]
    <2>1. {c \in logs : author[c] = u} = logs \intersect By(u)
      BY DEF By, Types, Collections
    <2>2. Cardinality({c \in logs : author[c] = u}) = Size(logs, By(u))
      BY <2>1 DEF Size
    <2>3. Size(logs, By(u)) \in Nat /\ score[u] \in Int /\ taken[u] \in Nat
      BY SizeSplit, CommentSubjects DEF By, Types, Collections
    <2>4. Due(u) = score[u] /\ Told(u) = Size(logs, By(u))
      BY <1>1, <2>3 DEF Due, Told
    <2>5. Cardinality(JobTakes(u)) = 0
      <3>1. JobTakes(u) = {}
        BY DEF JobTakes, Quiet, TraceInv
      <3> QED
        BY <3>1, FS_EmptySet
    <2>6. (Visible => Due(u) = Told(u)) /\ Due(u) + taken[u] >= Told(u) + Cardinality(JobTakes(u))
      BY DEF LedgerInv, ScoreInv
    <2> QED
      BY <2>2, <2>3, <2>4, <2>5, <2>6
  <1>8. ContributionsAgree
    BY <1>7 DEF ContributionsAgree
  <1> QED
    BY <1>6, <1>8 DEF CountsCover

\* Once nothing is in flight, every counter of a visible post and of its comments tells at
\* least what is there, but for comments two requests deleted at once, and contributions
\* are what the logs tell, but for those the cleanup took with a request, in whatever order
\* the requests and the cleanup did their branches.
THEOREM CountsStayCovered == Spec => []CountsCover
  <1>1. Init => Types /\ GoneInv /\ ThreadInv /\ TraceInv /\ ShapeInv /\ JobInv /\ LedgerInv
    BY InitType, InitGone, InitThreads, InitTraces, InitShape, InitJobs, InitLedger
  <1>2. Types /\ GoneInv /\ ThreadInv /\ TraceInv /\ ShapeInv /\ JobInv /\ LedgerInv /\ [Next]_vars
          => (Types /\ GoneInv /\ ThreadInv /\ TraceInv /\ ShapeInv /\ JobInv /\ LedgerInv)'
    BY NextType, NextGone, NextThreads, NextTraces, NextShape, NextJobs, NextLedger
  <1> QED
    BY <1>1, <1>2, LedgerSuffices, PTL DEF Spec
==============================================================================
