----------------------------- MODULE SocialGraph -----------------------------
(***************************************************************************)
(* Follow and block relations, the counters and FOLLOW notifications       *)
(* beside them, and the deletion of an account: UserService, BlockService, *)
(* NotificationService and cleanupUser of the cleanup worker.              *)
(*                                                                         *)
(* A request or a job moves from await to await; the branches of a         *)
(* Promise.all are a set of tasks, done one by one in any order.           *)
(***************************************************************************)
EXTENDS Integers, FiniteSets

CONSTANTS
    Users,
    Requests,       \* requests, each made at most once
    MaxCrashes      \* bound: deaths of the process

ASSUME UsersAssumption == IsFiniteSet(Users) /\ \E u, v \in Users : u # v
ASSUME CrashAssumption == MaxCrashes \in Nat

\* A relation: its first user follows, blocks or notifies the second.
Pairs == {p \in Users \X Users : p[1] # p[2]}
Back(p) == <<p[2], p[1]>>
From(u) == {p \in Pairs : p[1] = u}
To(u) == {p \in Pairs : p[2] = u}
Touching(u) == From(u) \union To(u)

VARIABLES
    account,        \* the user documents
    follows,        \* the follows collection, unique by pair
    blocks,         \* the blocks collection, unique by pair
    followers,      \* followersCount of every user
    following,      \* followingCount of every user
    notes,          \* FOLLOW notifications of each pair
    req,            \* the requests
    job,            \* the user-cleanup job of each user
    crashes,        \* deaths so far
    extra,          \* history: duplicate follows of each pair that were counted
    late,           \* history: follows created after their checks had ceased to hold
    stranded        \* history: accounts deactivated by a request that died

relations == <<follows, blocks, late>>
counters == <<followers, following, extra>>
vars == <<account, relations, counters, notes, req, job, crashes, stranded>>

----------------------------------------------------------------------------
Op == {"follow", "unfollow", "block", "unblock", "delete"}

ReqPc == {"idle", "rules", "target", "existing", "tasks", "notify", "note",
          "remove", "create", "mark", "enqueue", "done"}

\* Branches of a Promise.all: a document, the two counters, a notification, a deletion.
Task == [what: {"doc", "out", "in", "note", "cut"}, pair: Pairs]

Tasks(what, pairs) == [what: what, pair: pairs]

Request == [op: Op, pair: Pairs, pc: ReqPc, tasks: SUBSET Task, found: SUBSET Pairs, failed: BOOLEAN]

NoRequest(pc) == [op |-> "follow", pair |-> CHOOSE p \in Pairs : TRUE, pc |-> pc,
                  tasks |-> {}, found |-> {}, failed |-> FALSE]

JobPc == {"none", "queued", "read", "counts", "relations", "user"}

\* What a job has to read and to delete, and the follows it found and has not counted yet.
Job == [pc: JobPc, reads: SUBSET {"following", "followers"}, found: SUBSET Pairs,
        deletes: SUBSET {"follows", "blocks", "notes"}]

NoJob(pc) == [pc |-> pc, reads |-> {}, found |-> {}, deletes |-> {}]

TypeOK ==
    /\ account \in [Users -> {"active", "inactive", "gone"}]
    /\ follows \in SUBSET Pairs /\ blocks \in SUBSET Pairs /\ late \in SUBSET Pairs
    /\ followers \in [Users -> Int] /\ following \in [Users -> Int]
    /\ extra \in [Pairs -> Nat] /\ notes \in [Pairs -> Nat]
    /\ req \in [Requests -> Request]
    /\ job \in [Users -> Job]
    /\ crashes \in 0 .. MaxCrashes
    /\ stranded \in SUBSET Users

\* Any relation there may be, with its notification and exact counters.
Init ==
    /\ account = [u \in Users |-> "active"]
    /\ follows \in SUBSET Pairs
    /\ blocks = {}
    /\ followers = [u \in Users |-> Cardinality(follows \intersect To(u))]
    /\ following = [u \in Users |-> Cardinality(follows \intersect From(u))]
    /\ notes = [p \in Pairs |-> IF p \in follows THEN 1 ELSE 0]
    /\ req = [r \in Requests |-> NoRequest("idle")]
    /\ job = [u \in Users |-> NoJob("none")]
    /\ crashes = 0
    /\ extra = [p \in Pairs |-> 0]
    /\ late = {}
    /\ stranded = {}

At(r, pc) == req[r].pc = pc
Goto(r, pc) == req' = [req EXCEPT ![r].pc = pc]
Finish(r) == req' = [req EXCEPT ![r] = NoRequest("done")]
Choose(r, test, pc) == IF test THEN Goto(r, pc) ELSE Finish(r)
Launch(r, tasks) == req' = [req EXCEPT ![r].pc = "tasks", ![r].tasks = tasks]

Active(u) == account[u] = "active"
Blocked(p) == p \in blocks \/ Back(p) \in blocks

----------------------------------------------------------------------------
(* followUser, unfollowUser, blockUser, unblockUser.                       *)

Entry == [follow |-> "rules", unfollow |-> "remove", block |-> "target", unblock |-> "remove", delete |-> "mark"]

Send(r, op, p) ==
    /\ At(r, "idle")
    /\ Active(p[1])
    /\ req' = [req EXCEPT ![r].op = op, ![r].pair = p, ![r].pc = Entry[op]]
    /\ UNCHANGED <<account, relations, counters, notes, job, crashes, stranded>>

\* ensureUsersCanInteract
EnsureUsersCanInteract(r) ==
    /\ At(r, "rules")
    /\ Choose(r, ~Blocked(req[r].pair), "target")
    /\ UNCHANGED <<account, relations, counters, notes, job, crashes, stranded>>

FindTarget(r) ==
    /\ At(r, "target")
    /\ Choose(r, Active(req[r].pair[2]), "existing")
    /\ UNCHANGED <<account, relations, counters, notes, job, crashes, stranded>>

FindExisting(r) ==
    /\ At(r, "existing")
    /\ IF req[r].op = "follow"
       THEN IF req[r].pair \in follows
            THEN Finish(r)
            ELSE Launch(r, Tasks({"doc", "out", "in"}, {req[r].pair}))
       ELSE Choose(r, req[r].pair \notin blocks, "create")
    /\ UNCHANGED <<account, relations, counters, notes, job, crashes, stranded>>

\* Variant with a bug: the follow in the other direction is forgotten.
CutOneWay(p) == Tasks({"cut"}, {p})

\* deleteBetweenUsers
CutBothWays(p) == Tasks({"cut"}, {p, Back(p)})

\* A duplicate key ends a second block here, before its cleanup.
CreateBlock(r) ==
    /\ At(r, "create")
    /\ blocks' = blocks \union {req[r].pair}
    /\ IF req[r].pair \in blocks THEN Finish(r) ELSE Launch(r, CutBothWays(req[r].pair))
    /\ UNCHANGED <<account, follows, late, counters, notes, job, crashes, stranded>>

\* findOneAndDelete of a follow or a block.
Remove(r) ==
    /\ At(r, "remove")
    /\ IF req[r].op = "unfollow"
       THEN /\ follows' = follows \ {req[r].pair}
            /\ UNCHANGED blocks
            /\ IF req[r].pair \in follows
               THEN Launch(r, Tasks({"out", "in", "note"}, {req[r].pair}))
               ELSE Finish(r)
       ELSE /\ blocks' = blocks \ {req[r].pair}
            /\ UNCHANGED follows
            /\ Finish(r)
    /\ UNCHANGED <<account, late, counters, notes, job, crashes, stranded>>

\* Variant with a bug: a block that cuts a follow counts it.
DeltaOfUnfollow(r) == IF req[r].op = "unfollow" THEN -1 ELSE 1

Delta(r) == IF req[r].op = "follow" THEN 1 ELSE -1

\* incrementCounter only finds an active account.
Count(counter, u, n) == IF Active(u) THEN [counter EXCEPT ![u] = @ + n] ELSE counter

\* What follows a Promise.all.
Resume(r, tasks, found, failed) ==
    req' = [req EXCEPT ![r] =
        IF tasks # {} THEN [@ EXCEPT !.tasks = tasks, !.found = found, !.failed = failed]
        ELSE IF found # {} THEN [@ EXCEPT !.tasks = Tasks({"out", "in", "note"}, found), !.found = {}]
        ELSE IF @.op = "follow" /\ ~failed THEN [@ EXCEPT !.tasks = {}, !.pc = "notify"]
        ELSE NoRequest("done")]

\* A duplicate follow is rejected by the unique index while its siblings go on.
CreateFollow(r, t) ==
    /\ t.what = "doc"
    /\ follows' = follows \union {t.pair}
    /\ late' = IF t.pair \in follows THEN late
               ELSE IF Blocked(t.pair) \/ ~Active(t.pair[1]) \/ ~Active(t.pair[2])
               THEN late \union {t.pair} ELSE late \ {t.pair}
    /\ extra' = [extra EXCEPT ![t.pair] = IF t.pair \in follows THEN @ + 1 ELSE @]
    /\ Resume(r, req[r].tasks \ {t}, {}, req[r].failed \/ t.pair \in follows)
    /\ UNCHANGED <<blocks, followers, following, notes>>

CutFollow(r, t) ==
    /\ t.what = "cut"
    /\ follows' = follows \ {t.pair}
    /\ Resume(r, req[r].tasks \ {t}, req[r].found \union ({t.pair} \intersect follows), FALSE)
    /\ UNCHANGED <<blocks, late, counters, notes>>

AdjustCounter(r, t) ==
    /\ t.what \in {"out", "in"}
    /\ following' = IF t.what = "out" THEN Count(following, t.pair[1], Delta(r)) ELSE following
    /\ followers' = IF t.what = "in" THEN Count(followers, t.pair[2], Delta(r)) ELSE followers
    /\ Resume(r, req[r].tasks \ {t}, req[r].found, req[r].failed)
    /\ UNCHANGED <<relations, extra, notes>>

\* findOneAndDelete
TakeOne(n) == IF n = 0 THEN 0 ELSE n - 1

RemoveNote(r, t) ==
    /\ t.what = "note"
    /\ notes' = [notes EXCEPT ![t.pair] = TakeOne(@)]
    /\ Resume(r, req[r].tasks \ {t}, req[r].found, req[r].failed)
    /\ UNCHANGED <<relations, counters>>

DoTask(r) ==
    /\ At(r, "tasks")
    /\ \E t \in req[r].tasks : CreateFollow(r, t) \/ CutFollow(r, t) \/ AdjustCounter(r, t) \/ RemoveNote(r, t)
    /\ UNCHANGED <<account, job, crashes, stranded>>

\* NotificationService.send: the block check, then the insert.
CheckNote(r) ==
    /\ At(r, "notify")
    /\ Choose(r, ~Blocked(req[r].pair), "note")
    /\ UNCHANGED <<account, relations, counters, notes, job, crashes, stranded>>

SendNote(r) ==
    /\ At(r, "note")
    /\ notes' = [notes EXCEPT ![req[r].pair] = @ + 1]
    /\ Finish(r)
    /\ UNCHANGED <<account, relations, counters, job, crashes, stranded>>

----------------------------------------------------------------------------
(* deleteUserAccount of a verified user, and its job.                      *)

MarkInactive(r) ==
    /\ At(r, "mark")
    /\ Choose(r, Active(req[r].pair[1]), "enqueue")
    /\ account' = [account EXCEPT ![req[r].pair[1]] = IF @ = "active" THEN "inactive" ELSE @]
    /\ UNCHANGED <<relations, counters, notes, job, crashes, stranded>>

\* addUnique, after the Promise.all on posts, sessions and cache.
EnqueueUserCleanup(r) ==
    /\ At(r, "enqueue")
    /\ job' = [job EXCEPT ![req[r].pair[1]] = NoJob("queued")]
    /\ Finish(r)
    /\ UNCHANGED <<account, relations, counters, notes, crashes, stranded>>

\* The user-cleanup worker has concurrency 1.
JobStart(u) ==
    /\ job[u].pc = "queued"
    /\ \A v \in Users : job[v].pc \in {"none", "queued"}
    /\ job' = [job EXCEPT ![u] = [NoJob("read") EXCEPT !.reads = {"following", "followers"}]]
    /\ UNCHANGED <<account, relations, counters, notes, req, crashes, stranded>>

\* cleanupFollowCounts: both lists are read before anything is changed.
JobRead(u, what) ==
    /\ job[u].pc = "read" /\ what \in job[u].reads
    /\ job' = [job EXCEPT
            ![u].reads = @ \ {what},
            ![u].found = @ \union (follows \intersect IF what = "following" THEN From(u) ELSE To(u)),
            ![u].pc = IF job[u].reads = {what} THEN "counts" ELSE @,
            ![u].deletes = IF job[u].reads = {what} THEN {"follows"} ELSE @]
    /\ UNCHANGED <<account, relations, counters, notes, req, crashes, stranded>>

\* Goes on to the next Promise.all when nothing is left of this one.
JobDone(u, found, deletes) ==
    job' = [job EXCEPT ![u] =
        IF found = {} /\ deletes = {}
        THEN IF @.pc = "counts" THEN [NoJob("relations") EXCEPT !.deletes = {"blocks", "notes"}] ELSE NoJob("user")
        ELSE [@ EXCEPT !.found = found, !.deletes = deletes]]

Floor(n) == IF n > 0 THEN n - 1 ELSE 0

\* decrementUserCounter of the other user of a pair.
JobCount(u, p) ==
    /\ job[u].pc = "counts" /\ p \in job[u].found
    /\ followers' = IF p[1] = u THEN [followers EXCEPT ![p[2]] = Floor(@)] ELSE followers
    /\ following' = IF p[2] = u THEN [following EXCEPT ![p[1]] = Floor(@)] ELSE following
    /\ JobDone(u, job[u].found \ {p}, job[u].deletes)
    /\ UNCHANGED <<account, relations, extra, notes, req, crashes, stranded>>

\* Variant with a bug: only the follows of the user are deleted.
PurgeOwn(u) == follows \ From(u)

\* FollowModel.deleteMany
Purge(u) == follows \ Touching(u)

JobDelete(u, what) ==
    /\ job[u].pc \in {"counts", "relations"} /\ what \in job[u].deletes
    /\ follows' = IF what = "follows" THEN Purge(u) ELSE follows
    /\ blocks' = IF what = "blocks" THEN blocks \ Touching(u) ELSE blocks
    /\ notes' = IF what = "notes" THEN [p \in Pairs |-> IF p \in Touching(u) THEN 0 ELSE notes[p]] ELSE notes
    /\ JobDone(u, job[u].found, job[u].deletes \ {what})
    /\ UNCHANGED <<account, late, counters, req, crashes, stranded>>

JobDeleteUser(u) ==
    /\ job[u].pc = "user"
    /\ account' = [account EXCEPT ![u] = "gone"]
    /\ job' = [job EXCEPT ![u] = NoJob("none")]
    /\ UNCHANGED <<relations, counters, notes, req, crashes, stranded>>

\* Variant with a bug: a job that was running is not run again.
ForgetJob(u) == NoJob("none")

\* BullMQ runs a job whose worker died again from its start.
RestartJob(u) == IF job[u].pc = "none" THEN job[u] ELSE NoJob("queued")

\* The process holds the requests; MongoDB and the queue outlive it.
Crash ==
    /\ crashes < MaxCrashes
    /\ crashes' = crashes + 1
    /\ stranded' = stranded \union {req[r].pair[1] : r \in {q \in Requests : At(q, "enqueue")}}
    /\ req' = [r \in Requests |-> IF At(r, "idle") THEN req[r] ELSE NoRequest("done")]
    /\ job' = [u \in Users |-> RestartJob(u)]
    /\ UNCHANGED <<account, relations, counters, notes>>

----------------------------------------------------------------------------
Step(r) ==
    \/ EnsureUsersCanInteract(r) \/ FindTarget(r) \/ FindExisting(r)
    \/ CreateBlock(r) \/ Remove(r) \/ DoTask(r) \/ CheckNote(r) \/ SendNote(r)
    \/ MarkInactive(r) \/ EnqueueUserCleanup(r)

JobStep(u) ==
    \/ JobStart(u)
    \/ \E what \in {"following", "followers"} : JobRead(u, what)
    \/ \E p \in Pairs : JobCount(u, p)
    \/ \E what \in {"follows", "blocks", "notes"} : JobDelete(u, what)
    \/ JobDeleteUser(u)

Next ==
    \/ \E r \in Requests, op \in Op, p \in Pairs : Send(r, op, p)
    \/ \E r \in Requests : Step(r)
    \/ \E u \in Users : JobStep(u)
    \/ Crash

\* Awaits resolve and the worker takes its jobs; nothing makes a user send a request.
Fairness ==
    /\ \A r \in Requests : WF_vars(Step(r))
    /\ \A u \in Users : WF_vars(JobStep(u))

Spec == Init /\ [][Next]_vars /\ Fairness

----------------------------------------------------------------------------
(* Properties.                                                             *)

Quiet ==
    /\ \A r \in Requests : At(r, "idle") \/ At(r, "done")
    /\ \A u \in Users : job[u].pc = "none"

Duplicates(pairs) == LET Sum[S \in SUBSET pairs] ==
                             IF S = {} THEN 0 ELSE LET p == CHOOSE p \in S : TRUE IN extra[p] + Sum[S \ {p}]
                     IN  Sum[pairs]

\* When nothing is in flight, the process has not died and no account is deactivated, the
\* counters tell how many relations there are, up to the follows the unique index rejected
\* after they were counted (followUser, unfollowUser, cleanupFollowBetweenUsers).
CountsAgree ==
    Quiet /\ crashes = 0 /\ (\A u \in Users : Active(u)) =>
        \A u \in Users :
            /\ followers[u] = Cardinality(To(u) \intersect follows) + Duplicates(To(u))
            /\ following[u] = Cardinality(From(u) \intersect follows) + Duplicates(From(u))

\* No follow is left beside a block in either direction, but for one that passed the
\* block check before the block was created, and unless the process died, which it may do
\* between the block and the cut (followUser, blockUser).
BlockEndsFollows ==
    Quiet /\ crashes = 0 => \A p \in follows \ late : ~Blocked(p)

\* An account that is gone is in no follow, even if the process died during the cleanup,
\* but for a follow that was created after the account had been deactivated by a request
\* that had found it active (followUser, cleanupFollowCounts).
GoneLeavesNoFollows ==
    \A p \in follows \ late : account[p[1]] # "gone" /\ account[p[2]] # "gone"

\* A deactivated account is removed, unless its job was never queued because the process
\* died before (deleteUserAccount, cleanupUser).
AccountsAreRemoved == <>[](\A u \in Users \ stranded : account[u] # "inactive")
==============================================================================
