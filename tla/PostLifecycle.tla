---------------------------- MODULE PostLifecycle ----------------------------
(***************************************************************************)
(* The posts of one user from createPost to the end of their cleanup job:  *)
(* PostService.createPost, processQueuedPostMediaUpload, updatePost and    *)
(* deletePost, the in-memory PostUploadWorker, CleanupQueue.addUnique, the *)
(* cleanup workers' cleanupPost and cleanupMediaFiles, the files kept by   *)
(* the storage provider and the owner's counters.                          *)
(*                                                                         *)
(* One action is one awaited operation.  The branches of a Promise.all are *)
(* a set of pending writes that take effect in any order; when one of them *)
(* rejects, the others still run.                                          *)
(***************************************************************************)
EXTENDS Integers, FiniteSets, Sequences

CONSTANTS
    Posts,          \* post ids
    CreateFiles,    \* the files a createPost request may carry
    Deleters,       \* deletePost requests that may be in flight together
    Editors,        \* updatePost requests that may be in flight together
    Concurrency,    \* PostUploadWorker.concurrency
    Attempts,       \* cleanupJobOptions.attempts
    MaxFaults       \* bound: crashes of the process and operations that reject

ASSUME ConcurrencyAssumption == Concurrency \in Nat \ {0}
ASSUME AttemptsAssumption == Attempts \in Nat \ {0}
ASSUME FaultsAssumption == MaxFaults \in Nat
ASSUME RequestsAssumption == Deleters \intersect Editors = {}
ASSUME PostsAssumption == IsFiniteSet(Posts)

\* A stored file: every upload makes a file of its own.
Files == Posts \X (CreateFiles \union Editors)

VARIABLES
    post,           \* the posts collection
    counted,        \* User.postsCount (projectsCount moves along with it)
    logs,           \* posts with a contribution log
    contributions,  \* the daily count and User.profileContributions
    stored,         \* files at the storage provider
    queue,          \* PostUploadWorker.queue
    activeJobs,     \* PostUploadWorker.activeJobs
    up,             \* what creates each post: its upload job, or the request
    job,            \* the post-cleanup job of each post
    mediaJobs,      \* file sets of the media-cleanup jobs that wait
    req,            \* deletePost and updatePost requests
    took,           \* history: decrements of counted by the cleanup of each post
    faults          \* crashes and rejected operations so far

vars == <<post, counted, logs, contributions, stored, queue, activeJobs, up, job, mediaJobs,
          req, took, faults>>
counters == <<counted, logs, contributions>>
worker == <<queue, activeJobs, up>>         \* the upload worker's memory
jobs == <<job, took>>                       \* the post-cleanup queue
files == <<stored, mediaJobs>>

----------------------------------------------------------------------------
(* Documents and their visibility.                                         *)

Upload == {"absent", "processing", "ready", "failed", "removed"}

PostDoc == [upload: Upload, deleting: BOOLEAN, media: SUBSET Files, adjusted: BOOLEAN]

NoPost == [upload |-> "absent", deleting |-> FALSE, media |-> {}, adjusted |-> FALSE]

Exists(p) == post[p].upload \in {"processing", "ready", "failed"}

\* visiblePostQuery
Visible(p) == post[p].upload = "ready" /\ ~post[p].deleting

\* The filter of completeMediaUpload and failMediaUpload.
NotDeleting(p) == Exists(p) /\ ~post[p].deleting

\* buildCounterReset: a counter never falls below zero.
Decrement(n) == IF n = 0 THEN 0 ELSE n - 1

----------------------------------------------------------------------------
(* Local states.                                                           *)

\* The writes of completePostCreation; updateContribution may decide not to count.
CreateWrite == {"counted", "log", "contributions"}

\* Variant with a bug: postsCount is not incremented when the contribution counts.
CountingOnce == {{"counted"}, {"log", "contributions"}}

Counting == {{"counted"}, CreateWrite}

Creation == [pc: {"idle", "queued", "upload", "discard", "count", "undo", "fail"},
             todo: SUBSET Files, done: SUBSET Files, pending: SUBSET CreateWrite]

NoCreation == [pc |-> "idle", todo |-> {}, done |-> {}, pending |-> {}]

\* cleanupPost's first Promise.all: logs becomes contributions when there is a log.
CleanupWrite == {"counted", "adjusted", "logs", "contributions"}

CleanupJob == [pc: {"none", "waiting", "failed", "adjust", "media", "remove"},
               tries: 0 .. Attempts, pending: SUBSET CleanupWrite, broken: BOOLEAN]

NoJob == [pc |-> "none", tries |-> 0, pending |-> {}, broken |-> FALSE]

Waiting(tries) == [NoJob EXCEPT !.pc = "waiting", !.tries = tries]

RequestPc == {"idle", "mark", "lookup", "drop", "add", "upload", "update", "undo", "replace"}

Request == [pc: RequestPc, target: SUBSET Posts, visible: BOOLEAN, seen: SUBSET Files,
            next: SUBSET Files, new: SUBSET Files]

NoRequest == [pc |-> "idle", target |-> {}, visible |-> FALSE, seen |-> {}, next |-> {}, new |-> {}]

Requests == Deleters \union Editors

TypeOK ==
    /\ post \in [Posts -> PostDoc]
    /\ counted \in Nat /\ contributions \in Nat
    /\ logs \in SUBSET Posts
    /\ stored \in SUBSET Files
    /\ queue \in Seq(Posts)
    /\ activeJobs \in Nat
    /\ up \in [Posts -> Creation]
    /\ job \in [Posts -> CleanupJob]
    /\ mediaJobs \in SUBSET (SUBSET Files)
    /\ req \in [Requests -> Request]
    /\ \A r \in Requests : req[r].pc # "idle" => \E p \in Posts : req[r].target = {p}
    /\ took \in [Posts -> Nat]
    /\ faults \in 0 .. MaxFaults

Init ==
    /\ post = [p \in Posts |-> NoPost]
    /\ counted = 0 /\ contributions = 0
    /\ logs = {}
    /\ stored = {}
    /\ queue = <<>>
    /\ activeJobs = 0
    /\ up = [p \in Posts |-> NoCreation]
    /\ job = [p \in Posts |-> NoJob]
    /\ mediaJobs = {}
    /\ req = [r \in Requests |-> NoRequest]
    /\ took = [p \in Posts |-> 0]
    /\ faults = 0

----------------------------------------------------------------------------
(* Steps shared by the operations.                                         *)

\* A crash, or an awaited operation that rejects without having had an effect.
Fault == faults < MaxFaults /\ faults' = faults + 1

Serving(r, p, pc) == req[r].pc = pc /\ req[r].target = {p}
Goto(r, pc) == req' = [req EXCEPT ![r].pc = pc]
Respond(r) == req' = [req EXCEPT ![r] = NoRequest]

\* PostService.cleanupMediaFiles: a job, or the deletion itself when the
\* enqueue rejects.  The job's id is a hash of the files, so equal sets are one job.
CleanupFiles(fs) ==
    \/ mediaJobs' = mediaJobs \union ({fs} \ {{}}) /\ UNCHANGED <<stored, faults>>
    \/ fs # {} /\ Fault /\ stored' = stored \ fs /\ UNCHANGED mediaJobs

----------------------------------------------------------------------------
(* createPost and the upload worker.                                       *)

\* A post with files is queued; one without is ready at once and counted by
\* the request itself, which takes no slot of the worker.
CreatePost(p, fs) ==
    /\ post[p].upload = "absent"
    /\ IF fs # {}
       THEN /\ post' = [post EXCEPT ![p].upload = "processing"]
            /\ up' = [up EXCEPT ![p].pc = "queued", ![p].todo = fs]
            /\ queue' = Append(queue, p)
       ELSE /\ post' = [post EXCEPT ![p].upload = "ready"]
            /\ \E writes \in Counting : up' = [up EXCEPT ![p].pc = "count", ![p].pending = writes]
            /\ UNCHANGED queue
    /\ UNCHANGED <<counters, activeJobs, files, jobs, req, faults>>

\* Variant with a bug: one slot is never used.
SpareSlot == activeJobs < Concurrency - 1

SlotIsFree == activeJobs < Concurrency

\* One turn of drain's loop, which runs after every enqueue and at the end of
\* every job.
Drain ==
    /\ queue # <<>>
    /\ SlotIsFree
    /\ up' = [up EXCEPT ![Head(queue)].pc = "upload"]
    /\ queue' = Tail(queue)
    /\ activeJobs' = activeJobs + 1
    /\ UNCHANGED <<post, counters, files, jobs, req, faults>>

UploadFile(p, f) ==
    /\ up[p].pc = "upload" /\ f \in up[p].todo
    /\ stored' = stored \union {f}
    /\ up' = [up EXCEPT ![p].todo = @ \ {f}, ![p].done = @ \union {f}]
    /\ UNCHANGED <<post, counters, queue, activeJobs, jobs, mediaJobs, req, faults>>

\* completeMediaUpload; the post may have been deleted meanwhile.  Before it,
\* buildCreateMedia may find the given media order invalid.
CompleteUpload(p) ==
    /\ up[p].pc = "upload" /\ up[p].todo = {}
    /\ \/ /\ NotDeleting(p)
          /\ post' = [post EXCEPT ![p].upload = "ready", ![p].media = up[p].done]
          /\ \E writes \in Counting : up' = [up EXCEPT ![p].pc = "count", ![p].pending = writes]
       \/ ~NotDeleting(p) /\ up' = [up EXCEPT ![p].pc = "discard"] /\ UNCHANGED post
       \/ up' = [up EXCEPT ![p].pc = "undo"] /\ UNCHANGED post
    /\ UNCHANGED <<counters, queue, activeJobs, files, jobs, req, faults>>

\* The upload of a file, or completeMediaUpload, rejects.
UploadRejects(p) ==
    /\ up[p].pc = "upload"
    /\ Fault
    /\ up' = [up EXCEPT ![p].pc = "undo"]
    /\ UNCHANGED <<post, counters, queue, activeJobs, files, jobs, req>>

Uploaded(p) == up[p].done

\* The files of a post that is gone are cleaned before the throw and after it.
DiscardUpload(p) ==
    /\ up[p].pc = "discard"
    /\ CleanupFiles(Uploaded(p))
    /\ up' = [up EXCEPT ![p].pc = "undo"]
    /\ UNCHANGED <<post, counters, queue, activeJobs, jobs, req>>

UndoUpload(p) ==
    /\ up[p].pc = "undo"
    /\ CleanupFiles(Uploaded(p))
    /\ up' = [up EXCEPT ![p].pc = "fail"]
    /\ UNCHANGED <<post, counters, queue, activeJobs, jobs, req>>

\* Writes of completePostCreation that are still running outlive the job.
EndCreation(p) == [NoCreation EXCEPT !.pending = up[p].pending]

\* Variant with a bug: then in the place of finally.
GiveBackOnSuccess(rejected) == IF rejected THEN activeJobs ELSE Decrement(activeJobs)

\* The finally handler of a job, which may have rejected.
GiveBack(rejected) == Decrement(activeJobs)

\* failMediaUpload leaves the media alone; its rejection ends the job too.
FailUpload(p) ==
    /\ up[p].pc = "fail"
    /\ up' = [up EXCEPT ![p] = EndCreation(p)]
    /\ \/ /\ post' = IF NotDeleting(p) THEN [post EXCEPT ![p].upload = "failed"] ELSE post
          /\ activeJobs' = GiveBack(FALSE)
          /\ UNCHANGED faults
       \/ Fault /\ activeJobs' = GiveBack(TRUE) /\ UNCHANGED post
    /\ UNCHANGED <<counters, queue, files, jobs, req>>

\* One write of completePostCreation.  With the last one an upload job ends, and
\* so does the request of a post without files, which has no slot to give back.
CountWrite(p, w) ==
    LET last == up[p].pc = "count" /\ up[p].pending = {w} IN
    /\ w \in up[p].pending
    /\ up' = [up EXCEPT ![p] = IF last THEN NoCreation ELSE [@ EXCEPT !.pending = up[p].pending \ {w}]]
    /\ activeJobs' = IF last /\ up[p].done # {} THEN GiveBack(FALSE) ELSE activeJobs
    /\ counted' = IF w = "counted" THEN counted + 1 ELSE counted
    /\ logs' = IF w = "log" THEN logs \union {p} ELSE logs
    /\ contributions' = IF w = "contributions" THEN contributions + 1 ELSE contributions
    /\ UNCHANGED <<post, queue, files, jobs, req, faults>>

\* incrementCounter rejects: the catch block undoes an upload; a request without
\* files has nothing to clean and answers with the error.
CountRejects(p) ==
    /\ up[p].pc = "count" /\ "counted" \in up[p].pending
    /\ Fault
    /\ up' = [up EXCEPT ![p].pending = @ \ {"counted"},
                        ![p].pc = IF up[p].done = {} THEN "idle" ELSE "undo"]
    /\ UNCHANGED <<post, counters, queue, activeJobs, files, jobs, req>>

----------------------------------------------------------------------------
(* deletePost and CleanupQueue.addUnique.                                  *)

FindPost(r, p) ==
    /\ req[r].pc = "idle" /\ post[p].upload # "absent"
    /\ req' = [req EXCEPT ![r].pc = "mark", ![r].target = {p}, ![r].visible = Visible(p)]
    /\ UNCHANGED <<post, counters, worker, files, jobs, faults>>

\* A post that was not visible is marked too, and nothing is enqueued for it:
\* the answer is that its deletion is already in progress.
MarkDeleting(r, p) ==
    /\ Serving(r, p, "mark")
    /\ post' = IF Exists(p) THEN [post EXCEPT ![p].deleting = TRUE] ELSE post
    /\ IF Exists(p) /\ req[r].visible THEN Goto(r, "lookup") ELSE Respond(r)
    /\ UNCHANGED <<counters, worker, files, jobs, faults>>

JobRuns(p) == job[p].pc \in {"adjust", "media", "remove"}

\* getJob and getState.
LookupJob(r, p) ==
    /\ Serving(r, p, "lookup")
    /\ CASE job[p].pc = "none"   -> Goto(r, "add")
         [] job[p].pc = "failed" -> Goto(r, "drop")
         [] OTHER                -> Respond(r)
    /\ UNCHANGED <<post, counters, worker, files, jobs, faults>>

\* existingJob.remove() rejects when a worker has the job; deletePost logs that.
DropJob(r, p) ==
    /\ Serving(r, p, "drop")
    /\ IF JobRuns(p)
       THEN Respond(r) /\ UNCHANGED job
       ELSE Goto(r, "add") /\ job' = [job EXCEPT ![p] = NoJob]
    /\ UNCHANGED <<post, counters, worker, files, took, faults>>

\* Variant with a bug: jobs have no id of their own.
AnotherJob(p) == Waiting(0)

\* add with the id of an existing job changes nothing.
AddedJob(p) == IF job[p].pc = "none" THEN Waiting(0) ELSE job[p]

AddJob(r, p) ==
    /\ Serving(r, p, "add")
    /\ job' = [job EXCEPT ![p] = AddedJob(p)]
    /\ Respond(r)
    /\ UNCHANGED <<post, counters, worker, files, took, faults>>

\* The queue is out of reach: deletePost logs a warning and reports success.
EnqueueRejects(r, p) ==
    /\ \E pc \in {"lookup", "drop", "add"} : Serving(r, p, pc)
    /\ Fault
    /\ Respond(r)
    /\ UNCHANGED <<post, counters, worker, files, jobs>>

----------------------------------------------------------------------------
(* The post-cleanup and media-cleanup workers.                             *)

\* BullMQ: a processor that throws is called again until its attempts are used up.
Retry(p) ==
    job' = [job EXCEPT ![p] = IF @.tries + 1 < Attempts THEN Waiting(@.tries + 1)
                              ELSE [NoJob EXCEPT !.pc = "failed", !.tries = Attempts]]

\* Variant with a bug: cleanupPost looks for a visible post.
FindsVisible(p) == Visible(p)

CleanupFinds(p) == Exists(p)

\* cleanupPost reads the post once and countsAdjusted is of this moment; the
\* media of a post that is deleting do not change any more.
ReadPost(p) ==
    /\ job[p].pc = "waiting"
    /\ job' = [job EXCEPT ![p] =
                  IF CleanupFinds(p)
                  THEN [@ EXCEPT !.pc = "adjust",
                                 !.pending = {"logs"} \union (IF post[p].adjusted THEN {} ELSE {"counted", "adjusted"})]
                  ELSE NoJob]
    /\ UNCHANGED <<post, counters, worker, files, req, took, faults>>

\* adjustOwnerPostCounts and removeContributionLogs, side by side.
AdjustWrite(p, w) ==
    /\ job[p].pc = "adjust" /\ w \in job[p].pending
    /\ job' = [job EXCEPT ![p].pending =
                  (@ \ {w}) \union (IF w = "logs" /\ p \in logs THEN {"contributions"} ELSE {})]
    /\ counted' = IF w = "counted" THEN Decrement(counted) ELSE counted
    /\ took' = IF w = "counted" THEN [took EXCEPT ![p] = @ + 1] ELSE took
    /\ post' = IF w = "adjusted" THEN [post EXCEPT ![p].adjusted = TRUE] ELSE post
    /\ logs' = IF w = "logs" THEN logs \ {p} ELSE logs
    /\ contributions' = IF w = "contributions" THEN Decrement(contributions) ELSE contributions
    /\ UNCHANGED <<worker, files, req, faults>>

AdjustRejects(p, w) ==
    /\ job[p].pc = "adjust" /\ w \in job[p].pending
    /\ Fault
    /\ job' = [job EXCEPT ![p].pending = @ \ {w}, ![p].broken = TRUE]
    /\ UNCHANGED <<post, counters, worker, files, req, took>>

\* The back-off is longer than any write that still runs.
AdjustDone(p) ==
    /\ job[p].pc = "adjust" /\ job[p].pending = {}
    /\ IF job[p].broken THEN Retry(p) ELSE job' = [job EXCEPT ![p].pc = "media"]
    /\ UNCHANGED <<post, counters, worker, files, req, took, faults>>

\* deletePostMedia: tryDeleteFile swallows what the provider rejects.
DeleteMedia(p) ==
    /\ job[p].pc = "media"
    /\ \/ stored' = stored \ post[p].media /\ UNCHANGED faults
       \/ post[p].media \intersect stored # {} /\ Fault /\ UNCHANGED stored
    /\ job' = [job EXCEPT ![p].pc = "remove"]
    /\ UNCHANGED <<post, counters, worker, mediaJobs, req, took>>

RemovePost(p) ==
    /\ job[p].pc = "remove"
    /\ post' = [post EXCEPT ![p] = [NoPost EXCEPT !.upload = "removed"]]
    /\ job' = [job EXCEPT ![p] = NoJob]
    /\ UNCHANGED <<counters, worker, files, req, took, faults>>

\* The read, a deletion of relations or the deletion of the post rejects.
JobRejects(p) ==
    /\ job[p].pc \in {"waiting", "media", "remove"}
    /\ Fault
    /\ Retry(p)
    /\ UNCHANGED <<post, counters, worker, files, req, took>>

\* cleanupMediaFiles; when the bulk deletion rejects, the job waits for another
\* attempt or this was its last.
MediaCleanup(fs) ==
    /\ fs \in mediaJobs
    /\ \/ stored' = stored \ fs /\ mediaJobs' = mediaJobs \ {fs} /\ UNCHANGED faults
       \/ Fault /\ mediaJobs' \in {mediaJobs, mediaJobs \ {fs}} /\ UNCHANGED stored
    /\ UNCHANGED <<post, counters, worker, jobs, req>>

----------------------------------------------------------------------------
(* updatePost, for edits of the media.                                     *)

\* The file a request uploads is a new one.
Fresh(f) == /\ f \notin stored \union UNION mediaJobs
            /\ \A p \in Posts : f \notin post[p].media

\* The media are chosen among those read here: buildUpdateMedia never looks again.
FindForUpdate(r, p, kept, new) ==
    /\ req[r].pc = "idle" /\ Visible(p)
    /\ kept \subseteq post[p].media
    /\ \A f \in new : Fresh(f)
    /\ req' = [req EXCEPT ![r] = [pc |-> IF new = {} THEN "update" ELSE "upload", target |-> {p},
                                  visible |-> TRUE, seen |-> post[p].media,
                                  next |-> kept \union new, new |-> new]]
    /\ UNCHANGED <<post, counters, worker, files, jobs, faults>>

UploadForUpdate(r, p) ==
    /\ Serving(r, p, "upload")
    /\ \/ stored' = stored \union req[r].new /\ Goto(r, "update") /\ UNCHANGED faults
       \/ Fault /\ Respond(r) /\ UNCHANGED stored
    /\ UNCHANGED <<post, counters, worker, mediaJobs, jobs>>

\* updateById, whose filter is visiblePostQuery.
UpdatePost(r, p) ==
    /\ Serving(r, p, "update")
    /\ post' = IF Visible(p) THEN [post EXCEPT ![p].media = req[r].next] ELSE post
    /\ Goto(r, IF Visible(p) THEN "replace" ELSE "undo")
    /\ UNCHANGED <<counters, worker, files, jobs, faults>>

\* The rest of the input is invalid, which is found after the upload.
RejectUpdate(r, p) ==
    /\ Serving(r, p, "update")
    /\ Goto(r, "undo")
    /\ UNCHANGED <<post, counters, worker, files, jobs, faults>>

\* cleanupUploadedMedia.
UndoUpdate(r, p) ==
    /\ Serving(r, p, "undo")
    /\ CleanupFiles(req[r].new)
    /\ Respond(r)
    /\ UNCHANGED <<post, counters, worker, jobs>>

\* Variants with a bug: the media that stay are removed too; none are removed.
AllPrevious(r) == req[r].seen
NoneRemoved(r) == {}

RemovedMedia(r) == req[r].seen \ req[r].next

\* cleanupRemovedMedia.
ReplaceMedia(r, p) ==
    /\ Serving(r, p, "replace")
    /\ CleanupFiles(RemovedMedia(r))
    /\ Respond(r)
    /\ UNCHANGED <<post, counters, worker, jobs>>

----------------------------------------------------------------------------
(* The process dies: upload jobs, requests and pending writes are lost; the *)
(* jobs it ran are stalled and BullMQ hands them out again.                *)

Crash ==
    /\ Fault
    /\ queue' = <<>>
    /\ activeJobs' = 0
    /\ up' = [p \in Posts |-> NoCreation]
    /\ req' = [r \in Requests |-> NoRequest]
    /\ job' = [p \in Posts |-> IF JobRuns(p) THEN Waiting(job[p].tries) ELSE job[p]]
    /\ UNCHANGED <<post, counters, files, took>>

CreateStep(p) ==
    \/ \E f \in Files : UploadFile(p, f)
    \/ CompleteUpload(p) \/ DiscardUpload(p) \/ UndoUpload(p) \/ FailUpload(p)

CountStep(p) == \E w \in CreateWrite : CountWrite(p, w)

DeleteStep(r, p) == MarkDeleting(r, p) \/ LookupJob(r, p) \/ DropJob(r, p) \/ AddJob(r, p)

CleanupStep(p) ==
    \/ ReadPost(p) \/ AdjustDone(p) \/ DeleteMedia(p) \/ RemovePost(p)
    \/ \E w \in CleanupWrite : AdjustWrite(p, w)

UpdateStep(r, p) ==
    \/ UploadForUpdate(r, p) \/ UpdatePost(r, p) \/ RejectUpdate(r, p)
    \/ UndoUpdate(r, p) \/ ReplaceMedia(r, p)

Next ==
    \/ \E p \in Posts : \/ \E F \in SUBSET CreateFiles : CreatePost(p, {p} \X F)
                       \/ CreateStep(p) \/ CountStep(p) \/ CleanupStep(p)
                       \/ UploadRejects(p) \/ CountRejects(p) \/ JobRejects(p)
                       \/ \E w \in CleanupWrite : AdjustRejects(p, w)
    \/ \E r \in Deleters, p \in Posts : FindPost(r, p) \/ DeleteStep(r, p) \/ EnqueueRejects(r, p)
    \/ \E r \in Editors, p \in Posts :
           \/ UpdateStep(r, p)
           \/ \E kept \in SUBSET post[p].media, new \in {{}, {<<p, r>>}} : FindForUpdate(r, p, kept, new)
    \/ \E fs \in mediaJobs : MediaCleanup(fs)
    \/ Drain
    \/ Crash

Spec == Init /\ [][Next]_vars

\* Awaited operations return and the workers run; requests, rejections and
\* crashes need not happen.
UploadFairness ==
    /\ WF_vars(Drain)
    /\ \A p \in Posts : WF_vars(CreateStep(p)) /\ WF_vars(CountStep(p))

Fairness ==
    /\ UploadFairness
    /\ \A p \in Posts : WF_vars(CleanupStep(p))
    /\ \A r \in Deleters, p \in Posts : WF_vars(DeleteStep(r, p))
    /\ \A r \in Editors, p \in Posts : WF_vars(UpdateStep(r, p))
    /\ WF_vars(\E fs \in SUBSET Files : MediaCleanup(fs))

UploadSpec == Spec /\ UploadFairness
FairSpec == Spec /\ Fairness

----------------------------------------------------------------------------
(* Properties.                                                             *)

\* A post that can be read shows files that are stored and that no waiting
\* media-cleanup job is about to delete: updatePost, a failed upload and the
\* cleanup only delete media no post refers to.
MediaIsKept ==
    faults = 0 =>
        \A p \in Posts : Visible(p) =>
            /\ post[p].media \subseteq stored
            /\ post[p].media \intersect UNION mediaJobs = {}

Settled ==
    /\ queue = <<>> /\ mediaJobs = {}
    /\ \A p \in Posts : up[p] = NoCreation /\ job[p].pc = "none"
    /\ \A r \in Requests : req[r].pc = "idle"

\* Once nothing is under way, every stored file belongs to a post that still
\* exists: a deletion that overtakes the upload, an edit that fails and an
\* edit that drops media leave no file behind.
NoOrphanFiles ==
    Settled /\ faults = 0 => stored \subseteq UNION {post[p].media : p \in {q \in Posts : Exists(q)}}

\* Once nothing is under way, the owner's counters are at least what the
\* posts justify, although cleanup jobs decrement them while other posts have
\* not been counted yet.  They may be more: a decrement that overtakes the
\* increment it belongs to is lost at zero.
CountersCover ==
    Settled /\ faults = 0 =>
        /\ counted >= Cardinality({p \in Posts : Visible(p)})
        /\ contributions >= Cardinality(logs)

\* A post with files does not stay processing: it gets its turn in the upload
\* worker and becomes ready or failed, or is deleted first, whatever the jobs
\* before it ran into.  Only a crash and a failMediaUpload that rejects end a
\* job without its post being told.
UploadSettles ==
    \A p \in Posts :
        post[p].upload = "processing" ~>
            \/ post[p].upload # "processing"
            \/ post[p].deleting
            \/ faults > 0 /\ up[p].pc = "idle"

\* A cleanup job ends with its post removed, whatever requests and uploads
\* the post still has.
CleanupFinishes ==
    \A p \in Posts : job[p].pc # "none" ~> post[p].upload = "removed" \/ faults > 0

\* A post marked as deleting is removed in the end.
DeletionFinishes ==
    \A p \in Posts : post[p].deleting ~> post[p].upload = "removed" \/ faults > 0

\* The cleanup takes a post from the owner's count once, however many requests delete the
\* post, unless something fails: addUnique and adjustOwnerPostCounts.
CountedOffOnce == faults = 0 => \A p \in Posts : took[p] <= 1
============================================================================
