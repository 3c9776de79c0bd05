---------------------------- MODULE PostReactions ----------------------------
(***************************************************************************)
(* Likes, reposts and comments of one post, with the counters, replies,    *)
(* notifications and contributions beside them, and the cleanup job that   *)
(* takes them away with the post: LikeService, RepostService,              *)
(* CommentService, HeatmapService and cleanupPost.                         *)
(*                                                                         *)
(* A request moves from await to await; the branches of a Promise.all are  *)
(* a set of tasks, done one by one in any order.  Blocks, disabled         *)
(* comments, the daily limit and the cooldown are read from elsewhere:     *)
(* such a check may pass or not.                                           *)
(***************************************************************************)
EXTENDS Integers, FiniteSets

CONSTANTS
    Users,      \* users other than the post's owner
    Requests    \* requests, each made at most once

ASSUME UsersAssumption == IsFiniteSet(Users) /\ Users # {}
ASSUME RequestsAssumption == IsFiniteSet(Requests) /\ {"top", "reply"} \intersect Requests = {}

\* What may be liked, reposted or said: a request creates at most one comment,
\* and the post may have a thread of two.
Top == <<"comment", "top">>
Reply == <<"comment", "reply">>
Comments == {Top, Reply} \union ({"comment"} \X Requests)
Reactions == {"like", "repost"} \X Users
Subjects == Reactions \union Comments
Kinds == {"like", "repost", "comment"}

VARIABLES
    post,       \* the post document
    docs,       \* the likes, reposts and comments collections
    count,      \* the post's counts of them
    parent,     \* parentComment of every comment
    author,     \* user of every comment
    replies,    \* replyCount of every comment
    notes,      \* notifications about each subject
    logs,       \* comments with a contribution log, unique by target
    score,      \* profileContributions, which the daily count moves along with
    req,        \* the requests
    job,        \* the post-cleanup job
    late,       \* history: subjects with a trace created while they were being removed
    twice,      \* history: the comments each request deleted and found deleted
    taken       \* history: logs the job counted off after a request had

post_ == <<post, job>>
thread == <<parent, author, replies>>
contributions == <<logs, score, taken>>
vars == <<post, docs, count, parent, author, replies, notes, logs, score, req, job, late, twice, taken>>

----------------------------------------------------------------------------
Op == {"like", "unlike", "repost", "unrepost", "comment", "uncomment"}

Pc == {"idle", "target", "exists", "parent", "create", "count", "undo", "note", "drop",
       "uncount", "recheck", "unnote", "find", "replies", "tasks", "done"}

\* Branches of a Promise.all, each about a subject.
Task == [what: {"count", "note", "log", "score", "reply",
                "delete", "uncount", "unreply", "unlog", "unscore", "unnote"}, of: Subjects]

Tasks(what, subjects) == [what: what, of: subjects]

Request == [op: Op, of: Subjects, to: SUBSET Comments, pc: Pc, ids: SUBSET Comments, tasks: SUBSET Task]

NoRequest(pc) == [op |-> "like", of |-> Top, to |-> {}, pc |-> pc, ids |-> {}, tasks |-> {}]

\* The comments the job read, the logs it found, and what is left of a Promise.all.
Job == [pc: {"none", "queued", "traces", "documents", "post"}, ids: SUBSET Comments, found: SUBSET Comments,
        tasks: SUBSET {"find logs", "delete logs", "notes"}, users: SUBSET Users]

NoJob(pc) == [pc |-> pc, ids |-> {}, found |-> {}, tasks |-> {}, users |-> {}]

TypeOK ==
    /\ post \in {"visible", "deleting", "gone"}
    /\ docs \in SUBSET Subjects /\ late \in SUBSET Subjects
    /\ count \in [Kinds -> Int]
    /\ parent \in [Comments -> SUBSET Comments] /\ author \in [Comments -> Users]
    /\ replies \in [Comments -> Int]
    /\ notes \in [Subjects -> Nat]
    /\ logs \in SUBSET Comments
    /\ score \in [Users -> Int]
    /\ req \in [Requests -> Request]
    /\ job \in Job
    /\ twice \in [Requests -> SUBSET Comments] /\ taken \in [Users -> Nat]

\* Some users have liked and reposted, or one has started a thread (reactions and comments
\* share nothing but the post); every trace is there.
Init ==
    /\ post = "visible"
    /\ \E fans \in SUBSET Users, said \in {{}, {Top, Reply}} :
          /\ fans = {} \/ said = {}
          /\ docs = ({"like", "repost"} \X fans) \union said
          /\ count = [k \in Kinds |-> IF k = "comment" THEN Cardinality(said) ELSE Cardinality(fans)]
          /\ replies = [c \in Comments |-> IF c = Top /\ Reply \in said THEN 1 ELSE 0]
          /\ logs = said
          /\ \E u \in Users :
                /\ author = [c \in Comments |-> u]
                /\ score = [v \in Users |-> IF v = u THEN Cardinality(said) ELSE 0]
    /\ parent = [c \in Comments |-> IF c = Reply THEN {Top} ELSE {}]
    /\ notes = [s \in Subjects |-> IF s \in docs THEN 1 ELSE 0]
    /\ req = [r \in Requests |-> NoRequest("idle")]
    /\ job = NoJob("none")
    /\ late = {}
    /\ twice = [r \in Requests |-> {}] /\ taken = [u \in Users |-> 0]

At(r, pc) == req[r].pc = pc
Goto(r, pc) == req' = [req EXCEPT ![r].pc = pc]
Finish(r) == req' = [req EXCEPT ![r] = NoRequest("done")]
Launch(r, ids, tasks) == req' = [req EXCEPT ![r].pc = "tasks", ![r].ids = ids, ![r].tasks = tasks]

Visible == post = "visible"
Kind(s) == s[1]

\* A removal that will not see what is created now has begun.
Doomed(s) == ~Visible \/ s \notin docs \/ \E r \in Requests : s \in req[r].ids
Leave(s, doomed) == late' = IF doomed THEN late \union {s} ELSE late

----------------------------------------------------------------------------
(* likePost, unlikePost, repost, unrepost.                                 *)

Entry == [like |-> "target", unlike |-> "target", repost |-> "target", unrepost |-> "drop",
          comment |-> "target", uncomment |-> "find"]

React(r, op, s) ==
    /\ At(r, "idle")
    /\ op \in (IF Kind(s) = "like" THEN {"like", "unlike"} ELSE {"repost", "unrepost"})
    /\ req' = [req EXCEPT ![r].op = op, ![r].of = s, ![r].pc = Entry[op]]
    /\ UNCHANGED <<post_, docs, count, thread, notes, contributions, late, twice>>

Found == [like |-> "create", unlike |-> "drop", repost |-> "exists", comment |-> "create"]

\* The post is not visible, or an interaction check refuses.
Refuse(r) ==
    /\ At(r, "target") \/ At(r, "parent")
    /\ Finish(r)
    /\ UNCHANGED <<post_, docs, count, thread, notes, contributions, late, twice>>

FindTarget(r) ==
    /\ At(r, "target") /\ Visible
    /\ Goto(r, IF req[r].to # {} THEN "parent" ELSE Found[req[r].op])
    /\ UNCHANGED <<post_, docs, count, thread, notes, contributions, late, twice>>

FindRepost(r) ==
    /\ At(r, "exists")
    /\ IF req[r].of \in docs THEN Finish(r) ELSE Goto(r, "create")
    /\ UNCHANGED <<post_, docs, count, thread, notes, contributions, late, twice>>

\* Both collections are unique by user and post.
CreateReaction(r) ==
    /\ At(r, "create") /\ req[r].op \in {"like", "repost"}
    /\ docs' = docs \union {req[r].of}
    /\ IF req[r].of \in docs
       THEN Finish(r) /\ UNCHANGED late
       ELSE Goto(r, "count") /\ Leave(req[r].of, ~Visible)
    /\ UNCHANGED <<post_, count, thread, notes, contributions, twice>>

\* The increments find a visible post only, and a decrement a positive count.
Add(kind, n) == IF Visible THEN [count EXCEPT ![kind] = @ + n] ELSE count
Subtract(kind, n) == IF Visible /\ count[kind] > 0 THEN [count EXCEPT ![kind] = @ - n] ELSE count

\* Variant with a bug: a like of a post that is gone is kept.
KeepsLike(r) == "note"

\* likePost takes its like back when there was nothing to count it on.
AfterCount(r) == IF req[r].op = "like" /\ ~Visible THEN "undo" ELSE "note"

CountReaction(r) ==
    /\ At(r, "count")
    /\ count' = Add(Kind(req[r].of), 1)
    /\ Goto(r, AfterCount(r))
    /\ UNCHANGED <<post_, docs, thread, notes, contributions, late, twice>>

UndoLike(r) ==
    /\ At(r, "undo")
    /\ docs' = docs \ {req[r].of}
    /\ Finish(r)
    /\ UNCHANGED <<post_, count, thread, notes, contributions, late, twice>>

\* NotificationService.send may find a block, or send to nobody else.
SendNote(r) ==
    /\ At(r, "note")
    /\ Finish(r)
    /\ \/ /\ notes' = [notes EXCEPT ![req[r].of] = @ + 1]
          /\ Leave(req[r].of, ~Visible)
       \/ UNCHANGED <<notes, late>>
    /\ UNCHANGED <<post_, docs, count, thread, contributions, twice>>

\* Variant with a bug: an unlike that found nothing is counted.
AlwaysDropped(r) == TRUE

Dropped(r) == req[r].of \in docs

DropReaction(r) ==
    /\ At(r, "drop")
    /\ docs' = docs \ {req[r].of}
    /\ IF ~Dropped(r) THEN Finish(r)
       ELSE IF req[r].op = "unlike" THEN Launch(r, {}, Tasks({"uncount", "unnote"}, {req[r].of}))
       ELSE Goto(r, "uncount")
    /\ UNCHANGED <<post_, count, thread, notes, contributions, late, twice>>

UncountRepost(r) ==
    /\ At(r, "uncount")
    /\ count' = Subtract("repost", 1)
    /\ Goto(r, "recheck")
    /\ UNCHANGED <<post_, docs, thread, notes, contributions, late, twice>>

FindTargetAgain(r) ==
    /\ At(r, "recheck")
    /\ IF Visible THEN Goto(r, "unnote") ELSE Finish(r)
    /\ UNCHANGED <<post_, docs, count, thread, notes, contributions, late, twice>>

\* findOneAndDelete of a notification.
TakeOne(n) == IF n = 0 THEN 0 ELSE n - 1

RemoveNote(r) ==
    /\ At(r, "unnote")
    /\ notes' = [notes EXCEPT ![req[r].of] = TakeOne(@)]
    /\ Finish(r)
    /\ UNCHANGED <<post_, docs, count, thread, contributions, late, twice>>

----------------------------------------------------------------------------
(* createComment and deleteComment.                                        *)

Say(r, u, to) ==
    /\ At(r, "idle")
    /\ req' = [req EXCEPT ![r].op = "comment", ![r].of = <<"comment", r>>, ![r].to = to, ![r].pc = Entry["comment"]]
    /\ author' = [author EXCEPT ![<<"comment", r>>] = u]
    /\ UNCHANGED <<post_, docs, count, parent, replies, notes, contributions, late, twice>>

Unsay(r, c) ==
    /\ At(r, "idle")
    /\ req' = [req EXCEPT ![r].op = "uncomment", ![r].of = c, ![r].pc = Entry["uncomment"]]
    /\ UNCHANGED <<post_, docs, count, thread, notes, contributions, late, twice>>

\* findTopLevelById
TopLevel(c) == c \in docs /\ parent[c] = {}

FindParent(r) ==
    /\ At(r, "parent")
    /\ \A p \in req[r].to : TopLevel(p)
    /\ Goto(r, "create")
    /\ UNCHANGED <<post_, docs, count, thread, notes, contributions, late, twice>>

\* updateContribution may decide not to count.
CommentTasks(r) ==
    {Tasks({"count", "note"} \union extra, {req[r].of}) \union Tasks({"reply"}, req[r].to) :
        extra \in {{}, {"log", "score"}}}

CreateComment(r) ==
    /\ At(r, "create") /\ req[r].op = "comment"
    /\ docs' = docs \union {req[r].of}
    /\ parent' = [parent EXCEPT ![req[r].of] = req[r].to]
    /\ \E tasks \in CommentTasks(r) : Launch(r, {}, tasks)
    /\ Leave(req[r].of, ~Visible \/ \E p \in req[r].to : Doomed(p))
    /\ UNCHANGED <<post_, count, author, replies, notes, contributions, twice>>

\* Variant with a bug: the replies of a comment stay.
CommentOnly(c) == {c}

CommentsToDelete(c) == {c} \union {d \in Comments \intersect docs : parent[d] = {c}}

\* Variant with a bug: the notifications of a reply stay.
NoNotes(c, ids) == Tasks({"delete", "uncount"}, {c}) \union Tasks({"unlog"}, ids)

DeleteTasks(c, ids) == Tasks({"delete", "uncount", "unnote"}, {c}) \union Tasks({"unlog"}, ids)

FindComment(r) ==
    /\ At(r, "find")
    /\ IF req[r].of \notin docs THEN Finish(r)
       ELSE IF TopLevel(req[r].of) THEN Goto(r, "replies")
       ELSE Launch(r, {req[r].of}, DeleteTasks(req[r].of, {req[r].of}) \union Tasks({"unreply"}, parent[req[r].of]))
    /\ UNCHANGED <<post_, docs, count, thread, notes, contributions, late, twice>>

FindReplies(r) ==
    /\ At(r, "replies")
    /\ LET ids == CommentsToDelete(req[r].of) IN Launch(r, ids, DeleteTasks(req[r].of, ids))
    /\ UNCHANGED <<post_, docs, count, thread, notes, contributions, late, twice>>

----------------------------------------------------------------------------
(* The branches of a Promise.all.                                          *)

Resume(r, tasks) ==
    req' = [req EXCEPT ![r] = IF tasks = {} THEN NoRequest("done") ELSE [@ EXCEPT !.tasks = tasks]]

Rest(r, t) == req[r].tasks \ {t}

CountTask(r, t) ==
    /\ t.what \in {"count", "uncount"}
    /\ count' = IF t.what = "count" THEN Add(Kind(t.of), 1)
                ELSE Subtract(Kind(t.of), IF Kind(t.of) = "comment" THEN Cardinality(req[r].ids) ELSE 1)
    /\ Resume(r, Rest(r, t))
    /\ UNCHANGED <<docs, thread, notes, contributions, late, twice>>

\* incrementReplyCount finds an existing comment, and a decrement a positive count.
Subtractable(c) == replies[c] > 0

ReplyTask(r, t) ==
    /\ t.what \in {"reply", "unreply"}
    /\ replies' = [replies EXCEPT ![t.of] =
                      IF t.of \notin docs THEN @
                      ELSE IF t.what = "reply" THEN @ + 1
                      ELSE IF Subtractable(t.of) THEN @ - 1 ELSE @]
    /\ Resume(r, Rest(r, t))
    /\ UNCHANGED <<docs, count, parent, author, notes, contributions, late, twice>>

NoteTask(r, t) ==
    /\ t.what = "note"
    /\ \/ /\ notes' = [notes EXCEPT ![t.of] = @ + 1]
          /\ Leave(t.of, Doomed(t.of))
       \/ UNCHANGED <<notes, late>>
    /\ Resume(r, Rest(r, t))
    /\ UNCHANGED <<docs, count, thread, contributions, twice>>

LogTask(r, t) ==
    /\ t.what = "log"
    /\ logs' = logs \union {t.of}
    /\ Leave(t.of, Doomed(t.of))
    /\ Resume(r, Rest(r, t))
    /\ UNCHANGED <<docs, count, thread, notes, score, taken, twice>>

ScoreTask(r, t) ==
    /\ t.what \in {"score", "unscore"}
    /\ score' = [score EXCEPT ![author[t.of]] = IF t.what = "score" THEN @ + 1 ELSE @ - 1]
    /\ Resume(r, Rest(r, t))
    /\ UNCHANGED <<docs, count, thread, notes, logs, taken, late, twice>>

DeleteTask(r, t) ==
    /\ t.what = "delete"
    /\ docs' = docs \ req[r].ids
    /\ twice' = [twice EXCEPT ![r] = @ \union (req[r].ids \ docs)]
    /\ Resume(r, Rest(r, t))
    /\ UNCHANGED <<count, thread, notes, contributions, late>>

\* findOneAndDelete: of two removals one finds the log.
Logged(c) == c \in logs

UnlogTask(r, t) ==
    /\ t.what = "unlog"
    /\ logs' = logs \ {t.of}
    /\ Resume(r, Rest(r, t) \union (IF Logged(t.of) THEN Tasks({"unscore"}, {t.of}) ELSE {}))
    /\ UNCHANGED <<docs, count, thread, notes, score, taken, late, twice>>

\* remove of a like's notification, removeManyForContent of a comment's.
UnnoteTask(r, t) ==
    /\ t.what = "unnote"
    /\ notes' = IF Kind(t.of) = "comment"
                THEN [s \in Subjects |-> IF s \in req[r].ids THEN 0 ELSE notes[s]]
                ELSE [notes EXCEPT ![t.of] = TakeOne(@)]
    /\ Resume(r, Rest(r, t))
    /\ UNCHANGED <<docs, count, thread, contributions, late, twice>>

DoTask(r) ==
    /\ At(r, "tasks")
    /\ \E t \in req[r].tasks :
          \/ CountTask(r, t) \/ ReplyTask(r, t) \/ NoteTask(r, t) \/ LogTask(r, t) \/ ScoreTask(r, t)
          \/ DeleteTask(r, t) \/ UnlogTask(r, t) \/ UnnoteTask(r, t)
    /\ UNCHANGED post_

----------------------------------------------------------------------------
(* deletePost and cleanupPost.                                             *)

MarkDeleting ==
    /\ Visible
    /\ post' = "deleting"
    /\ job' = NoJob("queued")
    /\ UNCHANGED <<docs, count, thread, notes, contributions, req, late, twice>>

JobRead ==
    /\ job.pc = "queued"
    /\ job' = [NoJob("traces") EXCEPT !.ids = docs \intersect Comments, !.tasks = {"find logs", "notes"}]
    /\ UNCHANGED <<post, docs, count, thread, notes, contributions, req, late, twice>>

\* Goes on to the next Promise.all when nothing is left of this one.
JobGoesOn(next) ==
    job' = IF next.tasks # {} \/ next.users # {} THEN next
           ELSE NoJob("documents")

JobFindLogs ==
    /\ "find logs" \in job.tasks
    /\ LET found == logs \intersect job.ids
       IN  JobGoesOn([job EXCEPT !.found = found,
                                 !.tasks = (@ \ {"find logs"}) \union (IF found = {} THEN {} ELSE {"delete logs"})])
    /\ UNCHANGED <<post, docs, count, thread, notes, contributions, req, late, twice>>

FoundOf(u) == {c \in job.found : author[c] = u}

JobDeleteLogs ==
    /\ "delete logs" \in job.tasks
    /\ logs' = logs \ job.found
    /\ taken' = [u \in Users |-> taken[u] + Cardinality(FoundOf(u) \ logs)]
    /\ JobGoesOn([job EXCEPT !.tasks = @ \ {"delete logs"}, !.users = {u \in Users : FoundOf(u) # {}}])
    /\ UNCHANGED <<post, docs, count, thread, notes, score, req, late, twice>>

\* buildCounterReset
CounterReset(n, m) == IF n > m THEN n - m ELSE 0

JobUncount(u) ==
    /\ u \in job.users
    /\ score' = [score EXCEPT ![u] = CounterReset(@, Cardinality(FoundOf(u)))]
    /\ JobGoesOn([job EXCEPT !.users = @ \ {u}])
    /\ UNCHANGED <<post, docs, count, thread, notes, logs, taken, req, late, twice>>

JobRemoveNotes ==
    /\ "notes" \in job.tasks
    /\ notes' = [s \in Subjects |-> IF s \in Reactions \union job.ids THEN 0 ELSE notes[s]]
    /\ JobGoesOn([job EXCEPT !.tasks = @ \ {"notes"}])
    /\ UNCHANGED <<post, docs, count, thread, contributions, req, late, twice>>

\* Likes, reposts and comments, side by side in the code: nothing reads two of them.
JobDelete ==
    /\ job.pc = "documents"
    /\ docs' = {}
    /\ job' = NoJob("post")
    /\ UNCHANGED <<post, count, thread, notes, contributions, req, late, twice>>

JobRemovePost ==
    /\ job.pc = "post"
    /\ post' = "gone"
    /\ job' = NoJob("none")
    /\ UNCHANGED <<docs, count, thread, notes, contributions, req, late, twice>>

----------------------------------------------------------------------------
Step(r) ==
    \/ Refuse(r) \/ FindTarget(r) \/ FindRepost(r) \/ CreateReaction(r) \/ CountReaction(r) \/ UndoLike(r)
    \/ SendNote(r) \/ DropReaction(r) \/ UncountRepost(r) \/ FindTargetAgain(r) \/ RemoveNote(r)
    \/ FindParent(r) \/ CreateComment(r) \/ FindComment(r) \/ FindReplies(r) \/ DoTask(r)

JobStep ==
    \/ JobRead \/ JobFindLogs \/ JobDeleteLogs \/ JobRemoveNotes \/ JobDelete \/ JobRemovePost
    \/ \E u \in Users : JobUncount(u)

Next ==
    \/ \E r \in Requests, op \in Op, s \in Reactions : React(r, op, s)
    \/ \E r \in Requests, u \in Users, to \in {{}} \union {{c} : c \in docs \intersect Comments} : Say(r, u, to)
    \/ \E r \in Requests, c \in docs \intersect Comments : Unsay(r, c)
    \/ \E r \in Requests : Step(r)
    \/ MarkDeleting
    \/ JobStep

Spec == Init /\ [][Next]_vars

----------------------------------------------------------------------------
(* Properties.                                                             *)

Quiet == job.pc = "none" /\ \A r \in Requests : At(r, "idle") \/ At(r, "done")

\* How often these comments were deleted once more.
Extra(comments) == Cardinality({x \in Requests \X comments : x[2] \in twice[x[1]]})

RepliesTo(p) == {c \in Comments : parent[c] = {p}}

\* While the post is visible and nothing is in flight, no count falls short of what is
\* there, but by the comments two requests deleted at once (likePost, unlikePost, repost,
\* unrepost, createComment, deleteComment).  A count may be higher: a decrement that
\* comes before the increment it belongs to finds zero and is lost.
DocumentsAreCounted ==
    Quiet /\ Visible =>
        /\ \A k \in {"like", "repost"} : count[k] >= Cardinality({s \in docs : Kind(s) = k})
        /\ count["comment"] >= Cardinality(docs \intersect Comments) - Extra(Comments)
        /\ \A p \in docs \intersect Comments :
              replies[p] >= Cardinality(RepliesTo(p) \intersect docs) - Extra(RepliesTo(p))

\* Contributions are what the logs tell as long as the post is there; its cleanup may take
\* a contribution that a request takes at the same time, and no other
\* (updateContribution, removeContribution, removeContributionLogs).
ContributionsAgree ==
    Quiet => \A u \in Users :
        LET logged == Cardinality({c \in logs : author[c] = u})
        IN  /\ Visible => score[u] = logged
            /\ score[u] >= logged - taken[u]

\* Every counter tells at least what is there, once nothing is in flight.
CountsCover == DocumentsAreCounted /\ ContributionsAgree

\* A reply stands below its comment, unless it was created while the comment was being
\* deleted (createComment, deleteComment).
ThreadsAreWhole ==
    Quiet => \A c \in (docs \intersect Comments) \ late : parent[c] \subseteq docs

\* A post that is gone has no likes, whenever they were given, and no repost or comment
\* but one that was created after the post was hidden (likePost, cleanupPost).
GoneLeavesNothing ==
    Quiet /\ post = "gone" => docs \subseteq late \ ({"like"} \X Users)

\* Nothing is notified or contributed by a comment that is deleted, nor notified about a
\* post that is gone, but what was written while it was being removed (deleteComment,
\* removeManyForContent, removeContribution, cleanupPost).
NoTraceLeft ==
    Quiet => \A s \in Subjects \ late :
                (IF s \in Comments THEN s \notin docs ELSE post = "gone") => notes[s] = 0 /\ s \notin logs
==============================================================================
