------------------------- MODULE PostLifecycle_proofs -------------------------
(***************************************************************************)
(* For any posts, files, deletePost requests, upload slots and attempts:   *)
(* types are kept, a cleanup takes a post from the owner's count once, the *)
(* counters cover what the posts justify, and with one edit at a time no   *)
(* file is deleted that a post shows and none is left that no post has.    *)
(***************************************************************************)
EXTENDS PostLifecycle, FiniteSetTheorems, TLAPS

----------------------------------------------------------------------------
(* Types.                                                                  *)

PostsOK == post \in [Posts -> PostDoc]
CountersOK == counted \in Nat /\ contributions \in Nat /\ logs \in SUBSET Posts
FilesOK == stored \in SUBSET Files /\ mediaJobs \in SUBSET (SUBSET Files)
WorkerOK == queue \in Seq(Posts) /\ activeJobs \in Nat /\ up \in [Posts -> Creation]
JobsOK == job \in [Posts -> CleanupJob] /\ took \in [Posts -> Nat]
RequestsOK ==
    /\ req \in [Requests -> Request]
    /\ \A r \in Requests : req[r].pc # "idle" => \E p \in Posts : req[r].target = {p}
FaultsOK == faults \in 0 .. MaxFaults

LEMMA TypeParts == TypeOK <=> PostsOK /\ CountersOK /\ FilesOK /\ WorkerOK /\ JobsOK /\ RequestsOK /\ FaultsOK
  BY DEF TypeOK, PostsOK, CountersOK, FilesOK, WorkerOK, JobsOK, RequestsOK, FaultsOK

LEMMA TypePartsNext ==
  TypeOK' <=> PostsOK' /\ CountersOK' /\ FilesOK' /\ WorkerOK' /\ JobsOK' /\ RequestsOK' /\ FaultsOK'
  BY DEF TypeOK, PostsOK, CountersOK, FilesOK, WorkerOK, JobsOK, RequestsOK, FaultsOK

LEMMA Faulty == ASSUME TypeOK, Fault PROVE FaultsOK' /\ faults' # 0
  BY FaultsAssumption DEF Fault, TypeOK, FaultsOK

\* The parts that a step leaves alone.
LEMMA Same ==
  ASSUME TypeOK
  PROVE  /\ UNCHANGED post => PostsOK'
         /\ UNCHANGED counters => CountersOK'
         /\ UNCHANGED files => FilesOK'
         /\ UNCHANGED worker => WorkerOK'
         /\ UNCHANGED jobs => JobsOK'
         /\ UNCHANGED req => RequestsOK'
         /\ UNCHANGED faults => FaultsOK'
  <1>1. UNCHANGED post => PostsOK'
    BY DEF TypeOK, PostsOK
  <1>2. UNCHANGED counters => CountersOK'
    BY DEF TypeOK, counters, CountersOK
  <1>3. UNCHANGED files => FilesOK'
    BY DEF TypeOK, files, FilesOK
  <1>4. UNCHANGED worker => WorkerOK'
    BY DEF TypeOK, worker, WorkerOK
  <1>5. UNCHANGED jobs => JobsOK'
    BY DEF TypeOK, jobs, JobsOK
  <1>6. UNCHANGED req => RequestsOK'
    BY DEF TypeOK, RequestsOK
  <1>7. UNCHANGED faults => FaultsOK'
    BY DEF TypeOK, FaultsOK
  <1> QED
    BY <1>1, <1>2, <1>3, <1>4, <1>5, <1>6, <1>7

\* The ways a creation, a job or a request goes on.
LEMMA Creations ==
  ASSUME NEW u \in Creation
  PROVE  /\ \A pc \in {"idle", "queued", "upload", "discard", "count", "undo", "fail"} : [u EXCEPT !.pc = pc] \in Creation
         /\ \A fs \in SUBSET Files : [u EXCEPT !.pc = "queued", !.todo = fs] \in Creation
         /\ \A todo \in SUBSET Files, done \in SUBSET Files : [u EXCEPT !.todo = todo, !.done = done] \in Creation
         /\ \A pending \in SUBSET CreateWrite, pc \in {"idle", "count", "undo"} :
              [u EXCEPT !.pc = pc, !.pending = pending] \in Creation /\ [u EXCEPT !.pending = pending, !.pc = pc] \in Creation
         /\ \A pending \in SUBSET CreateWrite : [u EXCEPT !.pending = pending] \in Creation
         /\ NoCreation \in Creation /\ [NoCreation EXCEPT !.pending = u.pending] \in Creation
  <1>1. \A pc \in {"idle", "queued", "upload", "discard", "count", "undo", "fail"} : [u EXCEPT !.pc = pc] \in Creation
    BY DEF Creation
  <1>2. \A fs \in SUBSET Files : [u EXCEPT !.pc = "queued", !.todo = fs] \in Creation
    BY DEF Creation
  <1>3. \A todo \in SUBSET Files, done \in SUBSET Files : [u EXCEPT !.todo = todo, !.done = done] \in Creation
    BY DEF Creation
  <1>4. \A pending \in SUBSET CreateWrite, pc \in {"idle", "count", "undo"} :
              [u EXCEPT !.pc = pc, !.pending = pending] \in Creation /\ [u EXCEPT !.pending = pending, !.pc = pc] \in Creation
    BY DEF Creation
  <1>5. \A pending \in SUBSET CreateWrite : [u EXCEPT !.pending = pending] \in Creation
    BY DEF Creation
  <1>6. NoCreation \in Creation
    BY DEF NoCreation, Creation
  <1>7. [NoCreation EXCEPT !.pending = u.pending] \in Creation
    BY DEF NoCreation, Creation
  <1> QED
    BY <1>1, <1>2, <1>3, <1>4, <1>5, <1>6, <1>7

LEMMA CreateTypes ==
  ASSUME TypeOK, NEW p \in Posts,
         (\E F \in SUBSET CreateFiles : CreatePost(p, {p} \X F)) \/ CreateStep(p) \/ CountStep(p) \/ UploadRejects(p) \/ CountRejects(p)
  PROVE  TypeOK'
  <1>0. /\ post \in [Posts -> PostDoc] /\ up \in [Posts -> Creation] /\ queue \in Seq(Posts)
        /\ activeJobs \in Nat /\ stored \in SUBSET Files /\ mediaJobs \in SUBSET (SUBSET Files)
        /\ counted \in Nat /\ contributions \in Nat /\ logs \in SUBSET Posts
    BY DEF TypeOK
  <1>1. \A u \in Creation : u.todo \in SUBSET Files /\ u.done \in SUBSET Files /\ u.pending \in SUBSET CreateWrite
    BY DEF Creation
  <1>2. \A writes \in Counting : writes \in SUBSET CreateWrite
    BY DEF Counting, CreateWrite
  <1>3. CASE \E F \in SUBSET CreateFiles : CreatePost(p, {p} \X F)
    <2>1. PICK F \in SUBSET CreateFiles : CreatePost(p, {p} \X F)
      BY <1>3
    <2> DEFINE fs == {p} \X F
    <2>2. fs \in SUBSET Files
      BY DEF Files
    <2>3. \A x \in {"processing", "ready"} : [post[p] EXCEPT !.upload = x] \in PostDoc
      BY <1>0 DEF PostDoc, Upload
    <2>4. [up[p] EXCEPT !.pc = "queued", !.todo = fs] \in Creation
      BY <1>0, <2>2, Creations
    <2>5. \A writes \in Counting : [up[p] EXCEPT !.pc = "count", !.pending = writes] \in Creation
      BY <1>0, <1>2, Creations
    <2>6. CreatePost(p, fs)
      BY <2>1
    <2> HIDE DEF fs
    <2>7. PostsOK'
      BY <1>0, <2>3, <2>6 DEF CreatePost, PostsOK
    <2>a. activeJobs' = activeJobs
      BY <2>6 DEF CreatePost
    <2>8. WorkerOK'
      <3>1. CASE fs # {}
        <4>1. up' = [up EXCEPT ![p] = [up[p] EXCEPT !.pc = "queued", !.todo = fs]] /\ queue' = Append(queue, p)
          BY <1>0, <2>6, <3>1 DEF CreatePost
        <4> QED
          BY <1>0, <2>4, <2>a, <4>1 DEF WorkerOK
      <3>2. CASE fs = {}
        <4>1. PICK writes \in Counting : up' = [up EXCEPT ![p].pc = "count", ![p].pending = writes]
          BY <2>6, <3>2 DEF CreatePost
        <4>2. up' = [up EXCEPT ![p] = [up[p] EXCEPT !.pc = "count", !.pending = writes]] /\ queue' = queue
          BY <1>0, <2>6, <3>2, <4>1 DEF CreatePost
        <4> QED
          BY <1>0, <2>5, <2>a, <4>2 DEF WorkerOK
      <3> QED
        BY <3>1, <3>2
    <2> QED
      BY <2>6, <2>7, <2>8, Same, TypePartsNext DEF CreatePost
  <1>4. ASSUME NEW f \in Files, UploadFile(p, f) PROVE TypeOK'
    <2>1. [up[p] EXCEPT !.todo = @ \ {f}, !.done = @ \union {f}] \in Creation
      BY <1>0, <1>1, Creations
    <2>2. WorkerOK' /\ FilesOK'
      BY <1>0, <1>4, <2>1 DEF UploadFile, WorkerOK, FilesOK
    <2> QED
      BY <1>4, <2>2, Same, TypePartsNext DEF UploadFile
  <1>5. CASE CompleteUpload(p)
    <2>0. up[p].done \in SUBSET Files /\ post[p] \in PostDoc
      BY <1>0, <1>1
    <2>1. [[post[p] EXCEPT !.upload = "ready"] EXCEPT !.media = up[p].done] \in PostDoc
      BY <2>0 DEF PostDoc, Upload
    <2>2. PostsOK'
      BY <1>0, <1>5, <2>1 DEF CompleteUpload, PostsOK
    <2>3. /\ \A writes \in Counting : [up[p] EXCEPT !.pc = "count", !.pending = writes] \in Creation
          /\ \A pc \in {"discard", "undo"} : [up[p] EXCEPT !.pc = pc] \in Creation
      BY <1>0, <1>2, Creations
    <2>a. activeJobs' \in Nat /\ queue' \in Seq(Posts)
      BY <1>0, <1>5 DEF CompleteUpload
    <2>4. WorkerOK'
      <3>1. ASSUME NEW writes \in Counting, up' = [up EXCEPT ![p].pc = "count", ![p].pending = writes] PROVE up' \in [Posts -> Creation]
        <4>1. up' = [up EXCEPT ![p] = [up[p] EXCEPT !.pc = "count", !.pending = writes]]
          BY <1>0, <3>1
        <4> QED
          BY <1>0, <2>3, <4>1
      <3>2. ASSUME NEW pc \in {"discard", "undo"}, up' = [up EXCEPT ![p].pc = pc] PROVE up' \in [Posts -> Creation]
        BY <1>0, <2>3, <3>2
      <3> QED
        BY <1>5, <2>a, <3>1, <3>2 DEF CompleteUpload, WorkerOK
    <2> QED
      BY <1>5, <2>2, <2>4, Same, TypePartsNext DEF CompleteUpload
  <1>6. ASSUME CleanupFiles(up[p].done), NEW pc \in {"undo", "fail"}, up' = [up EXCEPT ![p].pc = pc],
               UNCHANGED <<post, counters, queue, activeJobs, jobs, req>>
        PROVE  TypeOK'
    <2>1. FilesOK' /\ FaultsOK'
      BY <1>0, <1>1, <1>6, Faulty, Same DEF CleanupFiles, FilesOK
    <2>2. WorkerOK'
      BY <1>0, <1>6, Creations DEF WorkerOK
    <2> QED
      BY <1>6, <2>1, <2>2, Same, TypePartsNext
  <1>7. CASE FailUpload(p)
    <2>1. [post[p] EXCEPT !.upload = "failed"] \in PostDoc
      BY <1>0 DEF PostDoc, Upload
    <2>2. PostsOK' /\ FaultsOK'
      BY <1>0, <1>7, <2>1, Faulty, Same DEF FailUpload, PostsOK
    <2>a. activeJobs' \in Nat /\ queue' = queue
      BY <1>0, <1>7 DEF FailUpload, GiveBack, Decrement
    <2>b. up' = [up EXCEPT ![p] = EndCreation(p)]
      BY <1>7 DEF FailUpload
    <2>3. WorkerOK'
      BY <1>0, <2>a, <2>b, Creations DEF EndCreation, WorkerOK
    <2> QED
      BY <1>7, <2>2, <2>3, Same, TypePartsNext DEF FailUpload
  <1>8. ASSUME NEW w \in CreateWrite, CountWrite(p, w) PROVE TypeOK'
    <2>1. up[p].pending \ {w} \in SUBSET CreateWrite
      BY <1>0, <1>1
    <2>2. [up[p] EXCEPT !.pending = @ \ {w}] \in Creation /\ NoCreation \in Creation
      BY <1>0, <2>1, Creations
    <2>3. WorkerOK'
      <3> DEFINE u == IF up[p].pc = "count" /\ up[p].pending = {w} THEN NoCreation
                      ELSE [up[p] EXCEPT !.pending = up[p].pending \ {w}]
      <3>1. u \in Creation
        BY <2>2
      <3>2. up' = [up EXCEPT ![p] = u]
        <4>1. CASE up[p].pc = "count" /\ up[p].pending = {w}
          BY <1>0, <1>8, <4>1 DEF CountWrite
        <4>2. CASE ~(up[p].pc = "count" /\ up[p].pending = {w})
          BY <1>0, <1>8, <4>2 DEF CountWrite
        <4> QED
          BY <4>1, <4>2
      <3>3. queue' = queue /\ activeJobs' \in Nat
        BY <1>0, <1>8 DEF CountWrite, GiveBack, Decrement
      <3> HIDE DEF u
      <3> QED
        BY <1>0, <3>1, <3>2, <3>3 DEF WorkerOK
    <2>4. CountersOK'
      BY <1>0, <1>8 DEF CountWrite, CountersOK
    <2> QED
      BY <1>8, <2>3, <2>4, Same, TypePartsNext DEF CountWrite
  <1>9. CASE UploadRejects(p)
    <2>1. WorkerOK' /\ FaultsOK'
      BY <1>0, <1>9, Creations, Faulty DEF UploadRejects, WorkerOK
    <2> QED
      BY <1>9, <2>1, Same, TypePartsNext DEF UploadRejects
  <1>10. CASE CountRejects(p)
    <2>1. up[p].pending \ {"counted"} \in SUBSET CreateWrite
      BY <1>0, <1>1
    <2> DEFINE pc == IF up[p].done = {} THEN "idle" ELSE "undo"
               u == [up[p] EXCEPT !.pending = up[p].pending \ {"counted"}, !.pc = pc]
    <2>2. u \in Creation
      <3>1. pc \in {"idle", "undo"}
        OBVIOUS
      <3> HIDE DEF pc
      <3> QED
        BY <1>0, <2>1, <3>1, Creations
    <2>3. up' = [up EXCEPT ![p] = u]
      BY <1>0, <1>10 DEF CountRejects
    <2> HIDE DEF u
    <2>4. WorkerOK' /\ FaultsOK'
      BY <1>0, <1>10, <2>2, <2>3, Faulty DEF CountRejects, WorkerOK
    <2> QED
      BY <1>10, <2>4, Same, TypePartsNext DEF CountRejects
  <1>11. CASE DiscardUpload(p) \/ UndoUpload(p)
    BY <1>6, <1>11 DEF DiscardUpload, UndoUpload, Uploaded
  <1> QED
    BY <1>3, <1>4, <1>5, <1>7, <1>8, <1>9, <1>10, <1>11 DEF CreateStep, CountStep

LEMMA NewJobs ==
  /\ NoJob \in CleanupJob /\ \A tries \in 0..Attempts : Waiting(tries) \in CleanupJob
  /\ [NoJob EXCEPT !.pc = "failed", !.tries = Attempts] \in CleanupJob
  <1>1. 0 \in 0..Attempts /\ Attempts \in 0..Attempts
    BY AttemptsAssumption
  <1>2. NoJob \in CleanupJob
    BY <1>1 DEF NoJob, CleanupJob
  <1>3. \A j \in CleanupJob, tries \in 0..Attempts, pc \in {"waiting", "failed"} : [j EXCEPT !.pc = pc, !.tries = tries] \in CleanupJob
    BY DEF CleanupJob
  <1> QED
    BY <1>1, <1>2, <1>3 DEF Waiting

LEMMA DeleteTypes ==
  ASSUME TypeOK, NEW r \in Deleters, NEW p \in Posts, FindPost(r, p) \/ DeleteStep(r, p) \/ EnqueueRejects(r, p)
  PROVE  TypeOK'
  <1>0. /\ post \in [Posts -> PostDoc] /\ job \in [Posts -> CleanupJob] /\ took \in [Posts -> Nat]
        /\ req \in [Requests -> Request] /\ r \in Requests
        /\ \A q \in Requests : req[q].pc # "idle" => \E x \in Posts : req[q].target = {x}
    BY DEF TypeOK, Requests
  <1>1. ASSUME NEW pc \in RequestPc, Goto(r, pc), req[r].pc # "idle" PROVE RequestsOK'
    <2>1. [req[r] EXCEPT !.pc = pc] \in Request
      BY <1>0 DEF Request
    <2>2. [req[r] EXCEPT !.pc = pc].target = req[r].target
      BY <1>0 DEF Request
    <2> QED
      BY <1>0, <1>1, <2>1, <2>2 DEF Goto, RequestsOK
  <1>2. ASSUME Respond(r) PROVE RequestsOK'
    <2>1. NoRequest \in Request /\ NoRequest.pc = "idle"
      BY DEF NoRequest, Request, RequestPc
    <2> QED
      BY <1>0, <1>2, <2>1 DEF Respond, RequestsOK
  <1>3. NoJob \in CleanupJob /\ Waiting(0) \in CleanupJob
    BY NewJobs, AttemptsAssumption
  <1>4. CASE FindPost(r, p)
    <2> DEFINE t == [req[r] EXCEPT !.pc = "mark", !.target = {p}, !.visible = Visible(p)]
    <2>1. Visible(p) \in BOOLEAN
      <3>1. post[p].deleting \in BOOLEAN
        BY <1>0 DEF PostDoc
      <3> QED
        BY <3>1 DEF Visible
    <2>2. t \in Request /\ t.target = {p}
      BY <1>0, <2>1 DEF Request, RequestPc
    <2>3. req' = [req EXCEPT ![r] = t]
      BY <1>0, <1>4 DEF FindPost
    <2> HIDE DEF t
    <2>4. RequestsOK'
      BY <1>0, <2>2, <2>3 DEF RequestsOK
    <2> QED
      BY <1>4, <2>4, Same, TypePartsNext DEF FindPost
  <1>5. CASE MarkDeleting(r, p)
    <2>1. [post[p] EXCEPT !.deleting = TRUE] \in PostDoc
      BY <1>0 DEF PostDoc
    <2>2. PostsOK'
      BY <1>0, <1>5, <2>1 DEF MarkDeleting, PostsOK
    <2>3. RequestsOK'
      BY <1>1, <1>2, <1>5 DEF MarkDeleting, Serving, RequestPc
    <2> QED
      BY <1>5, <2>2, <2>3, Same, TypePartsNext DEF MarkDeleting
  <1>6. CASE LookupJob(r, p)
    <2>1. RequestsOK'
      BY <1>1, <1>2, <1>6 DEF LookupJob, Serving, RequestPc
    <2> QED
      BY <1>6, <2>1, Same, TypePartsNext DEF LookupJob
  <1>7. CASE DropJob(r, p)
    <2>1. RequestsOK'
      BY <1>1, <1>2, <1>7 DEF DropJob, Serving, RequestPc
    <2>2. JobsOK'
      BY <1>0, <1>3, <1>7 DEF DropJob, JobsOK
    <2> QED
      BY <1>7, <2>1, <2>2, Same, TypePartsNext DEF DropJob
  <1>8. CASE AddJob(r, p)
    <2>1. JobsOK'
      BY <1>0, <1>3, <1>8 DEF AddJob, AddedJob, JobsOK
    <2> QED
      BY <1>2, <1>8, <2>1, Same, TypePartsNext DEF AddJob
  <1>9. CASE EnqueueRejects(r, p)
    BY <1>2, <1>9, Faulty, Same, TypePartsNext DEF EnqueueRejects
  <1> QED
    BY <1>4, <1>5, <1>6, <1>7, <1>8, <1>9 DEF DeleteStep

LEMMA Jobs ==
  ASSUME NEW j \in CleanupJob
  PROVE  /\ \A pc \in {"none", "waiting", "failed", "adjust", "media", "remove"} : [j EXCEPT !.pc = pc] \in CleanupJob
         /\ \A pending \in SUBSET CleanupWrite :
              /\ [j EXCEPT !.pending = pending] \in CleanupJob /\ [j EXCEPT !.pc = "adjust", !.pending = pending] \in CleanupJob
              /\ [j EXCEPT !.pending = pending, !.broken = TRUE] \in CleanupJob
         /\ NoJob \in CleanupJob /\ \A tries \in 0..Attempts : Waiting(tries) \in CleanupJob
         /\ [NoJob EXCEPT !.pc = "failed", !.tries = Attempts] \in CleanupJob
  <1>1. \A pc \in {"none", "waiting", "failed", "adjust", "media", "remove"} : [j EXCEPT !.pc = pc] \in CleanupJob
    BY DEF CleanupJob
  <1>2. \A pending \in SUBSET CleanupWrite : [j EXCEPT !.pending = pending] \in CleanupJob
    BY DEF CleanupJob
  <1>3. \A pending \in SUBSET CleanupWrite : [j EXCEPT !.pc = "adjust", !.pending = pending] \in CleanupJob
    BY DEF CleanupJob
  <1>4. \A pending \in SUBSET CleanupWrite : [j EXCEPT !.pending = pending, !.broken = TRUE] \in CleanupJob
    BY DEF CleanupJob
  <1>5. NoJob \in CleanupJob /\ \A tries \in 0..Attempts : Waiting(tries) \in CleanupJob
    BY NewJobs
  <1>6. [NoJob EXCEPT !.pc = "failed", !.tries = Attempts] \in CleanupJob
    BY NewJobs
  <1> QED
    BY <1>1, <1>2, <1>3, <1>4, <1>5, <1>6

LEMMA RetryType ==
  ASSUME TypeOK, NEW p \in Posts, Retry(p)
  PROVE  job' \in [Posts -> CleanupJob]
  <1>1. job[p] \in CleanupJob /\ job[p].tries \in 0..Attempts
    BY DEF TypeOK, CleanupJob
  <1> DEFINE j == IF job[p].tries + 1 < Attempts THEN Waiting(job[p].tries + 1) ELSE [NoJob EXCEPT !.pc = "failed", !.tries = Attempts]
  <1>2. j \in CleanupJob
    <2>1. job[p].tries + 1 < Attempts => job[p].tries + 1 \in 0..Attempts
      BY <1>1, AttemptsAssumption
    <2> QED
      BY <1>1, <2>1, Jobs
  <1>3. job' = [job EXCEPT ![p] = j]
    BY DEF Retry
  <1> HIDE DEF j
  <1> QED
    BY <1>2, <1>3 DEF TypeOK

LEMMA CleanupTypes ==
  ASSUME TypeOK, NEW p \in Posts,
         CleanupStep(p) \/ JobRejects(p) \/ (\E w \in CleanupWrite : AdjustRejects(p, w))
  PROVE  TypeOK'
  <1>0. /\ post \in [Posts -> PostDoc] /\ job \in [Posts -> CleanupJob] /\ took \in [Posts -> Nat]
        /\ counted \in Nat /\ contributions \in Nat /\ logs \in SUBSET Posts /\ stored \in SUBSET Files
        /\ mediaJobs \in SUBSET (SUBSET Files)
        /\ job[p] \in CleanupJob /\ job[p].pending \in SUBSET CleanupWrite /\ post[p] \in PostDoc
    BY DEF TypeOK, CleanupJob
  <1>1. CASE ReadPost(p)
    <2> DEFINE pending == {"logs"} \union (IF post[p].adjusted THEN {} ELSE {"counted", "adjusted"})
    <2>1. pending \in SUBSET CleanupWrite
      BY DEF CleanupWrite
    <2>2. job' = [job EXCEPT ![p] = IF CleanupFinds(p) THEN [job[p] EXCEPT !.pc = "adjust", !.pending = pending] ELSE NoJob]
      BY <1>1 DEF ReadPost
    <2> HIDE DEF pending
    <2>3. [job[p] EXCEPT !.pc = "adjust", !.pending = pending] \in CleanupJob /\ NoJob \in CleanupJob
      BY <1>0, <2>1, Jobs
    <2>4. JobsOK'
      BY <1>0, <1>1, <2>2, <2>3 DEF ReadPost, JobsOK
    <2> QED
      BY <1>1, <2>4, Same, TypePartsNext DEF ReadPost
  <1>2. ASSUME NEW w \in CleanupWrite, AdjustWrite(p, w) PROVE TypeOK'
    <2>1. (job[p].pending \ {w}) \union (IF w = "logs" /\ p \in logs THEN {"contributions"} ELSE {}) \in SUBSET CleanupWrite
      BY <1>0 DEF CleanupWrite
    <2>2. job' \in [Posts -> CleanupJob]
      BY <1>0, <1>2, <2>1, Jobs DEF AdjustWrite
    <2>3. took' \in [Posts -> Nat]
      BY <1>0, <1>2 DEF AdjustWrite
    <2>4. CountersOK'
      <3>1. \A n \in Nat : Decrement(n) \in Nat
        BY DEF Decrement
      <3> QED
        BY <1>0, <1>2, <3>1 DEF AdjustWrite, CountersOK
    <2>5. PostsOK'
      <3>1. [post[p] EXCEPT !.adjusted = TRUE] \in PostDoc
        BY <1>0 DEF PostDoc
      <3> QED
        BY <1>0, <1>2, <3>1 DEF AdjustWrite, PostsOK
    <2> QED
      BY <1>2, <2>2, <2>3, <2>4, <2>5, Same, TypePartsNext DEF AdjustWrite, JobsOK
  <1>3. CASE AdjustDone(p)
    <2>1. job' \in [Posts -> CleanupJob]
      BY <1>0, <1>3, Jobs, RetryType DEF AdjustDone
    <2> QED
      BY <1>0, <1>3, <2>1, Same, TypePartsNext DEF AdjustDone, JobsOK
  <1>4. CASE DeleteMedia(p)
    <2>1. JobsOK'
      BY <1>0, <1>4, Jobs DEF DeleteMedia, JobsOK
    <2>2. FilesOK'
      BY <1>0, <1>4 DEF DeleteMedia, FilesOK
    <2>3. FaultsOK'
      BY <1>4, Faulty, Same DEF DeleteMedia
    <2> QED
      BY <1>4, <2>1, <2>2, <2>3, Same, TypePartsNext DEF DeleteMedia
  <1>5. CASE RemovePost(p)
    <2>1. [NoPost EXCEPT !.upload = "removed"] \in PostDoc
      BY DEF NoPost, PostDoc, Upload
    <2>2. PostsOK'
      BY <1>0, <1>5, <2>1 DEF RemovePost, PostsOK
    <2>3. JobsOK'
      BY <1>0, <1>5, Jobs DEF RemovePost, JobsOK
    <2> QED
      BY <1>5, <2>2, <2>3, Same, TypePartsNext DEF RemovePost
  <1>6. CASE JobRejects(p)
    BY <1>0, <1>6, RetryType, Faulty, Same, TypePartsNext DEF JobRejects, JobsOK
  <1>7. ASSUME NEW w \in CleanupWrite, AdjustRejects(p, w) PROVE TypeOK'
    <2>1. [job[p] EXCEPT !.pending = job[p].pending \ {w}, !.broken = TRUE] \in CleanupJob
      BY <1>0, Jobs
    <2>2. job' = [job EXCEPT ![p] = [job[p] EXCEPT !.pending = job[p].pending \ {w}, !.broken = TRUE]]
      BY <1>0, <1>7 DEF AdjustRejects
    <2>3. JobsOK'
      BY <1>0, <1>7, <2>1, <2>2 DEF AdjustRejects, JobsOK
    <2> QED
      BY <1>7, <2>3, Faulty, Same, TypePartsNext DEF AdjustRejects
  <1> QED
    BY <1>1, <1>2, <1>3, <1>4, <1>5, <1>6, <1>7 DEF CleanupStep

LEMMA EditTypes ==
  ASSUME TypeOK, NEW r \in Editors, NEW p \in Posts,
         \/ UpdateStep(r, p)
         \/ \E kept \in SUBSET post[p].media, new \in {{}, {<<p, r>>}} : FindForUpdate(r, p, kept, new)
  PROVE  TypeOK'
  <1>0. /\ post \in [Posts -> PostDoc] /\ stored \in SUBSET Files /\ mediaJobs \in SUBSET (SUBSET Files)
        /\ req \in [Requests -> Request] /\ r \in Requests /\ req[r] \in Request /\ post[p] \in PostDoc
        /\ req[r].seen \in SUBSET Files /\ req[r].next \in SUBSET Files /\ req[r].new \in SUBSET Files
        /\ post[p].media \in SUBSET Files
        /\ \A q \in Requests : req[q].pc # "idle" => \E x \in Posts : req[q].target = {x}
    BY DEF TypeOK, Requests, Request, PostDoc
  <1>1. ASSUME NEW pc \in RequestPc, Goto(r, pc), req[r].pc # "idle" PROVE RequestsOK'
    <2>1. [req[r] EXCEPT !.pc = pc] \in Request
      BY <1>0 DEF Request
    <2>2. [req[r] EXCEPT !.pc = pc].target = req[r].target
      BY <1>0 DEF Request
    <2> QED
      BY <1>0, <1>1, <2>1, <2>2 DEF Goto, RequestsOK
  <1>2. ASSUME Respond(r) PROVE RequestsOK'
    <2>1. NoRequest \in Request /\ NoRequest.pc = "idle"
      BY DEF NoRequest, Request, RequestPc
    <2> QED
      BY <1>0, <1>2, <2>1 DEF Respond, RequestsOK
  <1>3. ASSUME NEW kept \in SUBSET post[p].media, NEW new \in {{}, {<<p, r>>}}, FindForUpdate(r, p, kept, new)
        PROVE  TypeOK'
    <2> DEFINE t == [pc |-> IF new = {} THEN "update" ELSE "upload", target |-> {p}, visible |-> TRUE,
                     seen |-> post[p].media, next |-> kept \union new, new |-> new]
    <2>1. new \in SUBSET Files
      BY DEF Files
    <2>2. kept \union new \in SUBSET Files
      BY <1>0, <2>1
    <2>3. t \in Request /\ t.target = {p}
      BY <1>0, <2>1, <2>2 DEF Request, RequestPc
    <2>4. req' = [req EXCEPT ![r] = t]
      BY <1>3 DEF FindForUpdate
    <2> HIDE DEF t
    <2>5. RequestsOK'
      BY <1>0, <2>3, <2>4 DEF RequestsOK
    <2> QED
      BY <1>3, <2>5, Same, TypePartsNext DEF FindForUpdate
  <1>4. CASE UploadForUpdate(r, p)
    <2>1. FilesOK' /\ FaultsOK' /\ RequestsOK'
      BY <1>0, <1>1, <1>2, <1>4, Faulty, Same DEF UploadForUpdate, FilesOK, Serving, RequestPc
    <2> QED
      BY <1>4, <2>1, Same, TypePartsNext DEF UploadForUpdate
  <1>5. CASE UpdatePost(r, p)
    <2>1. [post[p] EXCEPT !.media = req[r].next] \in PostDoc
      BY <1>0 DEF PostDoc
    <2>2. PostsOK'
      BY <1>0, <1>5, <2>1 DEF UpdatePost, PostsOK
    <2>3. RequestsOK'
      BY <1>1, <1>5 DEF UpdatePost, Serving, RequestPc
    <2> QED
      BY <1>5, <2>2, <2>3, Same, TypePartsNext DEF UpdatePost
  <1>6. CASE RejectUpdate(r, p)
    <2>1. RequestsOK'
      BY <1>1, <1>6 DEF RejectUpdate, Serving, RequestPc
    <2> QED
      BY <1>6, <2>1, Same, TypePartsNext DEF RejectUpdate
  <1>7. ASSUME NEW fs \in SUBSET Files, CleanupFiles(fs) PROVE FilesOK' /\ FaultsOK'
    BY <1>0, <1>7, Faulty, Same DEF CleanupFiles, FilesOK
  <1>8. CASE UndoUpdate(r, p)
    BY <1>0, <1>2, <1>7, <1>8, Same, TypePartsNext DEF UndoUpdate
  <1>9. CASE ReplaceMedia(r, p)
    <2>1. RemovedMedia(r) \in SUBSET Files
      BY <1>0 DEF RemovedMedia
    <2> QED
      BY <1>2, <1>7, <1>9, <2>1, Same, TypePartsNext DEF ReplaceMedia
  <1> QED
    BY <1>3, <1>4, <1>5, <1>6, <1>8, <1>9 DEF UpdateStep

LEMMA OtherTypes ==
  ASSUME TypeOK, (\E fs \in mediaJobs : MediaCleanup(fs)) \/ Drain \/ Crash
  PROVE  TypeOK'
  <1>0. /\ stored \in SUBSET Files /\ mediaJobs \in SUBSET (SUBSET Files)
        /\ queue \in Seq(Posts) /\ up \in [Posts -> Creation] /\ job \in [Posts -> CleanupJob] /\ took \in [Posts -> Nat]
        /\ activeJobs \in Nat
    BY DEF TypeOK
  <1>1. ASSUME NEW fs \in mediaJobs, MediaCleanup(fs) PROVE TypeOK'
    <2>1. FilesOK' /\ FaultsOK'
      BY <1>0, <1>1, Faulty, Same DEF MediaCleanup, FilesOK
    <2> QED
      BY <1>1, <2>1, Same, TypePartsNext DEF MediaCleanup
  <1>2. CASE Drain
    <2>1. queue # <<>> /\ Head(queue) \in Posts /\ Tail(queue) \in Seq(Posts)
      BY <1>0, <1>2 DEF Drain
    <2>2. [up[Head(queue)] EXCEPT !.pc = "upload"] \in Creation
      BY <1>0, <2>1, Creations
    <2>3. WorkerOK'
      BY <1>0, <1>2, <2>1, <2>2 DEF Drain, WorkerOK
    <2> QED
      BY <1>2, <2>3, Same, TypePartsNext DEF Drain
  <1>3. CASE Crash
    <2>1. NoCreation \in Creation
      BY DEF NoCreation, Creation
    <2>2. WorkerOK'
      BY <1>3, <2>1 DEF Crash, WorkerOK
    <2>3. \A q \in Posts : Waiting(job[q].tries) \in CleanupJob
      <3>1. \A q \in Posts : job[q].tries \in 0..Attempts
        BY <1>0 DEF CleanupJob
      <3> QED
        BY <3>1, NewJobs
    <2>4. JobsOK'
      BY <1>0, <1>3, <2>3 DEF Crash, JobsOK
    <2>5. NoRequest \in Request /\ NoRequest.pc = "idle"
      BY DEF NoRequest, Request, RequestPc
    <2>6. RequestsOK'
      BY <1>3, <2>5 DEF Crash, RequestsOK
    <2> QED
      BY <1>3, <2>2, <2>4, <2>6, Faulty, Same, TypePartsNext DEF Crash
  <1> QED
    BY <1>1, <1>2, <1>3

LEMMA TypeInit == Init => TypeOK
  <1> SUFFICES ASSUME Init PROVE TypeOK
    OBVIOUS
  <1>1. PostsOK
    BY DEF Init, PostsOK, NoPost, PostDoc, Upload
  <1>2. CountersOK /\ FilesOK /\ FaultsOK
    BY FaultsAssumption DEF Init, CountersOK, FilesOK, FaultsOK
  <1>3. WorkerOK
    BY DEF Init, WorkerOK, NoCreation, Creation
  <1>4. JobsOK
    BY AttemptsAssumption DEF Init, JobsOK, NoJob, CleanupJob
  <1>5. RequestsOK
    <2>1. NoRequest \in Request /\ NoRequest.pc = "idle"
      BY DEF NoRequest, Request, RequestPc
    <2> QED
      BY <2>1 DEF Init, RequestsOK
  <1> QED
    BY <1>1, <1>2, <1>3, <1>4, <1>5, TypeParts

LEMMA TypeStep == TypeOK /\ [Next]_vars => TypeOK'
  <1> SUFFICES ASSUME TypeOK, [Next]_vars PROVE TypeOK'
    OBVIOUS
  <1>1. CASE UNCHANGED vars
    BY <1>1, Same, TypePartsNext DEF vars, counters, files, worker, jobs
  <1>2. CASE Next
    BY <1>2, CreateTypes, DeleteTypes, CleanupTypes, EditTypes, OtherTypes DEF Next
  <1> QED
    BY <1>1, <1>2

\* Posts, counters, files, the upload queue, jobs and requests keep their types (TypeOK), whatever fails.
THEOREM TypeCorrect == Spec => []TypeOK
  BY TypeInit, TypeStep, PTL DEF Spec

----------------------------------------------------------------------------
(* What every step does while nothing fails.                               *)

PostIs(p, upload, deleting, media) ==
    /\ post'[p].upload = upload /\ post'[p].deleting = deleting /\ post'[p].media = media
    /\ \A q \in Posts : q # p => post'[q] = post[q]

UpIs(p, pc, todo, done, pending) ==
    /\ up'[p].pc = pc /\ up'[p].todo = todo /\ up'[p].done = done /\ up'[p].pending = pending
    /\ \A q \in Posts : q # p => up'[q] = up[q]

JobIs(p, pc, pending, broken) ==
    /\ job'[p].pc = pc /\ job'[p].pending = pending /\ job'[p].broken = broken
    /\ \A q \in Posts : q # p => job'[q] = job[q]

\* A request that goes on is the same but for where it is.
ReqIs(r, pc) ==
    /\ req'[r].pc = pc /\ req'[r].target = req[r].target /\ req'[r].visible = req[r].visible
    /\ req'[r].seen = req[r].seen /\ req'[r].next = req[r].next /\ req'[r].new = req[r].new
    /\ \A q \in Requests : q # r => req'[q] = req[q]

Ends(r) == req'[r] = NoRequest /\ \A q \in Requests : q # r => req'[q] = req[q]

LEMMA GotoView == ASSUME TypeOK, NEW r \in Requests, NEW pc, Goto(r, pc) PROVE ReqIs(r, pc)
  <1>1. req \in [Requests -> Request] /\ req[r] \in Request
    BY DEF TypeOK
  <1> QED
    BY <1>1 DEF Goto, ReqIs, Request

LEMMA RespondView == ASSUME TypeOK, NEW r \in Requests, Respond(r) PROVE Ends(r)
  BY DEF TypeOK, Respond, Ends

LEMMA UpPc ==
  ASSUME TypeOK, NEW p \in Posts, NEW pc, up' = [up EXCEPT ![p].pc = pc]
  PROVE  UpIs(p, pc, up[p].todo, up[p].done, up[p].pending)
  <1>1. up \in [Posts -> Creation] /\ up[p] \in Creation
    BY DEF TypeOK
  <1> QED
    BY <1>1 DEF UpIs, Creation

LEMMA UpCount ==
  ASSUME TypeOK, NEW p \in Posts, NEW writes, up' = [up EXCEPT ![p].pc = "count", ![p].pending = writes]
  PROVE  UpIs(p, "count", up[p].todo, up[p].done, writes)
  <1>1. up \in [Posts -> Creation] /\ up[p] \in Creation
    BY DEF TypeOK
  <1> QED
    BY <1>1 DEF UpIs, Creation

LEMMA UpIdle ==
  ASSUME TypeOK, NEW p \in Posts, NEW pending, up' = [up EXCEPT ![p] = [NoCreation EXCEPT !.pending = pending]]
  PROVE  UpIs(p, "idle", {}, {}, pending)
  <1>1. up \in [Posts -> Creation]
    BY DEF TypeOK
  <1> QED
    BY <1>1 DEF UpIs, NoCreation

LEMMA PostUpload ==
  ASSUME TypeOK, NEW p \in Posts, NEW upload, post' = [post EXCEPT ![p].upload = upload]
  PROVE  PostIs(p, upload, post[p].deleting, post[p].media)
  <1>1. post \in [Posts -> PostDoc] /\ post[p] \in PostDoc
    BY DEF TypeOK
  <1> QED
    BY <1>1 DEF PostIs, PostDoc

LEMMA JobPc ==
  ASSUME TypeOK, NEW p \in Posts, NEW pc, job' = [job EXCEPT ![p].pc = pc]
  PROVE  JobIs(p, pc, job[p].pending, job[p].broken)
  <1>1. job \in [Posts -> CleanupJob] /\ job[p] \in CleanupJob
    BY DEF TypeOK
  <1> QED
    BY <1>1 DEF JobIs, CleanupJob

LEMMA JobNew ==
  ASSUME TypeOK, NEW p \in Posts
  PROVE  /\ job' = [job EXCEPT ![p] = NoJob] => JobIs(p, "none", {}, FALSE)
         /\ job' = [job EXCEPT ![p] = Waiting(0)] => JobIs(p, "waiting", {}, FALSE)
  <1>1. job \in [Posts -> CleanupJob]
    BY DEF TypeOK
  <1>2. NoJob.pc = "none" /\ NoJob.pending = {} /\ NoJob.broken = FALSE
    BY DEF NoJob
  <1>3. Waiting(0).pc = "waiting" /\ Waiting(0).pending = {} /\ Waiting(0).broken = FALSE
    BY DEF NoJob, Waiting
  <1> QED
    BY <1>1, <1>2, <1>3 DEF JobIs

\* createPost and the upload worker.
LEMMA CreateView ==
  ASSUME TypeOK, NEW p \in Posts, NEW fs, CreatePost(p, fs)
  PROVE  /\ post[p].upload = "absent" /\ UNCHANGED <<counters, files, jobs, req, faults>>
         /\ \/ /\ fs # {} /\ PostIs(p, "processing", post[p].deleting, post[p].media)
               /\ UpIs(p, "queued", fs, up[p].done, up[p].pending) /\ queue' = Append(queue, p)
            \/ /\ fs = {} /\ PostIs(p, "ready", post[p].deleting, post[p].media) /\ queue' = queue
               /\ \E writes \in Counting : UpIs(p, "count", up[p].todo, up[p].done, writes)
  <1>1. up \in [Posts -> Creation] /\ up[p] \in Creation
    BY DEF TypeOK
  <1>2. post[p].upload = "absent" /\ UNCHANGED <<counters, files, jobs, req, faults>>
    BY DEF CreatePost
  <1>3. CASE fs # {}
    <2>1. UpIs(p, "queued", fs, up[p].done, up[p].pending)
      BY <1>1, <1>3 DEF CreatePost, UpIs, Creation
    <2> QED
      BY <1>2, <1>3, <2>1, PostUpload DEF CreatePost
  <1>4. CASE fs = {}
    BY <1>2, <1>4, PostUpload, UpCount DEF CreatePost
  <1> QED
    BY <1>3, <1>4

LEMMA DrainView ==
  ASSUME TypeOK, Drain
  PROVE  /\ queue # <<>> /\ Head(queue) \in Posts /\ queue' = Tail(queue)
         /\ UpIs(Head(queue), "upload", up[Head(queue)].todo, up[Head(queue)].done, up[Head(queue)].pending)
         /\ UNCHANGED <<post, counters, files, jobs, req, faults>>
  <1>1. queue # <<>> /\ queue' = Tail(queue) /\ up' = [up EXCEPT ![Head(queue)].pc = "upload"]
        /\ UNCHANGED <<post, counters, files, jobs, req, faults>>
    BY DEF Drain
  <1>2. Head(queue) \in Posts
    BY <1>1 DEF TypeOK
  <1> QED
    BY <1>1, <1>2, UpPc

LEMMA UploadView ==
  ASSUME TypeOK, NEW p \in Posts, NEW f, UploadFile(p, f)
  PROVE  /\ up[p].pc = "upload" /\ f \in up[p].todo /\ stored' = stored \union {f}
         /\ UpIs(p, "upload", up[p].todo \ {f}, up[p].done \union {f}, up[p].pending)
         /\ UNCHANGED <<post, counters, queue, jobs, mediaJobs, req, faults>>
  <1>1. up \in [Posts -> Creation] /\ up[p] \in Creation
    BY DEF TypeOK
  <1>2. UpIs(p, "upload", up[p].todo \ {f}, up[p].done \union {f}, up[p].pending)
    BY <1>1 DEF UploadFile, UpIs, Creation
  <1> QED
    BY <1>2 DEF UploadFile

LEMMA CompleteView ==
  ASSUME TypeOK, NEW p \in Posts, CompleteUpload(p)
  PROVE  /\ up[p].pc = "upload" /\ UNCHANGED <<counters, queue, files, jobs, req, faults>>
         /\ \/ /\ NotDeleting(p) /\ PostIs(p, "ready", post[p].deleting, up[p].done)
               /\ \E writes \in Counting : UpIs(p, "count", up[p].todo, up[p].done, writes)
            \/ /\ UpIs(p, "undo", up[p].todo, up[p].done, up[p].pending) /\ UNCHANGED post
            \/ /\ ~NotDeleting(p) /\ UpIs(p, "discard", up[p].todo, up[p].done, up[p].pending) /\ UNCHANGED post
  <1>1. post \in [Posts -> PostDoc] /\ post[p] \in PostDoc
    BY DEF TypeOK
  <1>2. up[p].pc = "upload" /\ UNCHANGED <<counters, queue, files, jobs, req, faults>>
    BY DEF CompleteUpload
  <1>3. ASSUME NotDeleting(p), post' = [post EXCEPT ![p].upload = "ready", ![p].media = up[p].done]
        PROVE  PostIs(p, "ready", post[p].deleting, up[p].done)
    BY <1>1, <1>3 DEF PostIs, PostDoc
  <1> QED
    BY <1>2, <1>3, UpCount, UpPc DEF CompleteUpload

\* cleanupMediaFiles, when the queue is in reach.
Enqueues(fs) == mediaJobs' = mediaJobs \union ({fs} \ {{}}) /\ UNCHANGED <<stored, faults>>

LEMMA CleanupView ==
  ASSUME TypeOK, NEW fs, CleanupFiles(fs), faults' = 0
  PROVE  Enqueues(fs)
  BY Faulty DEF CleanupFiles, Enqueues

LEMMA UndoView ==
  ASSUME TypeOK, NEW p \in Posts, DiscardUpload(p) \/ UndoUpload(p), faults' = 0
  PROVE  /\ up[p].pc \in {"discard", "undo"} /\ Enqueues(up[p].done) /\ UNCHANGED <<post, counters, queue, jobs, req>>
         /\ \E pc \in {"undo", "fail"} : UpIs(p, pc, up[p].todo, up[p].done, up[p].pending)
  BY UpPc, CleanupView DEF DiscardUpload, UndoUpload, Uploaded

LEMMA FailView ==
  ASSUME TypeOK, NEW p \in Posts, FailUpload(p), faults' = 0
  PROVE  /\ up[p].pc = "fail" /\ UpIs(p, "idle", {}, {}, up[p].pending)
         /\ IF NotDeleting(p) THEN PostIs(p, "failed", post[p].deleting, post[p].media) ELSE UNCHANGED post
         /\ UNCHANGED <<counters, queue, files, jobs, req, faults>>
  BY UpIdle, PostUpload, Faulty DEF FailUpload, EndCreation

LEMMA CountView ==
  ASSUME TypeOK, NEW p \in Posts, NEW w, CountWrite(p, w)
  PROVE  /\ w \in up[p].pending /\ UNCHANGED <<post, queue, files, jobs, req, faults>>
         /\ counted' = IF w = "counted" THEN counted + 1 ELSE counted
         /\ logs' = IF w = "log" THEN logs \union {p} ELSE logs
         /\ contributions' = IF w = "contributions" THEN contributions + 1 ELSE contributions
         /\ \/ up[p].pc = "count" /\ up[p].pending = {w} /\ UpIs(p, "idle", {}, {}, {})
            \/ up[p].pending # {w} /\ UpIs(p, up[p].pc, up[p].todo, up[p].done, up[p].pending \ {w})
            \/ up[p].pc # "count" /\ UpIs(p, up[p].pc, up[p].todo, up[p].done, up[p].pending \ {w})
  <1>1. up \in [Posts -> Creation] /\ up[p] \in Creation
    BY DEF TypeOK
  <1>2. CASE up[p].pc = "count" /\ up[p].pending = {w}
    <2>1. UpIs(p, "idle", {}, {}, {})
      BY <1>1, <1>2 DEF CountWrite, UpIs, NoCreation
    <2> QED
      BY <1>2, <2>1 DEF CountWrite
  <1>3. CASE ~(up[p].pc = "count" /\ up[p].pending = {w})
    <2>1. up' = [up EXCEPT ![p] = [up[p] EXCEPT !.pending = up[p].pending \ {w}]]
      BY <1>1, <1>3 DEF CountWrite
    <2>2. UpIs(p, up[p].pc, up[p].todo, up[p].done, up[p].pending \ {w})
      BY <1>1, <2>1 DEF UpIs, Creation
    <2> QED
      BY <1>3, <2>2 DEF CountWrite
  <1> QED
    BY <1>2, <1>3

\* deletePost and addUnique.
LEMMA FindView ==
  ASSUME TypeOK, NEW r \in Requests, NEW p \in Posts, FindPost(r, p)
  PROVE  /\ post[p].upload # "absent" /\ req'[r].pc = "mark" /\ req'[r].target = {p} /\ req'[r].visible = Visible(p)
         /\ \A q \in Requests : q # r => req'[q] = req[q]
         /\ UNCHANGED <<post, counters, worker, files, jobs, faults>>
  <1>1. req \in [Requests -> Request] /\ req[r] \in Request
    BY DEF TypeOK
  <1> QED
    BY <1>1 DEF FindPost, Request

LEMMA MarkView ==
  ASSUME TypeOK, NEW r \in Requests, NEW p \in Posts, MarkDeleting(r, p)
  PROVE  /\ Serving(r, p, "mark") /\ UNCHANGED <<counters, worker, files, jobs, faults>>
         /\ \/ Exists(p) /\ PostIs(p, post[p].upload, TRUE, post[p].media)
            \/ ~Exists(p) /\ UNCHANGED post
         /\ \/ Exists(p) /\ req[r].visible /\ ReqIs(r, "lookup")
            \/ Ends(r)
  <1>1. post \in [Posts -> PostDoc] /\ post[p] \in PostDoc
    BY DEF TypeOK
  <1>2. Exists(p) => PostIs(p, post[p].upload, TRUE, post[p].media)
    BY <1>1 DEF MarkDeleting, PostIs, PostDoc
  <1> QED
    BY <1>2, GotoView, RespondView DEF MarkDeleting

LEMMA JobRequestView ==
  ASSUME TypeOK, NEW r \in Requests, NEW p \in Posts, LookupJob(r, p) \/ DropJob(r, p) \/ AddJob(r, p)
  PROVE  /\ req[r].pc \in {"lookup", "drop", "add"} /\ req[r].target = {p}
         /\ (\E pc \in {"drop", "add"} : ReqIs(r, pc)) \/ Ends(r)
         /\ \/ UNCHANGED job
            \/ ~JobRuns(p) /\ JobIs(p, "none", {}, FALSE)
            \/ job[p].pc = "none" /\ JobIs(p, "waiting", {}, FALSE)
         /\ UNCHANGED <<post, counters, worker, files, took, faults>>
  <1>1. CASE LookupJob(r, p)
    BY <1>1, GotoView, RespondView DEF LookupJob, Serving, jobs
  <1>2. CASE DropJob(r, p)
    BY <1>2, GotoView, RespondView, JobNew DEF DropJob, Serving
  <1>3. CASE AddJob(r, p)
    <2>1. CASE job[p].pc = "none"
      <3>1. job' = [job EXCEPT ![p] = Waiting(0)]
        BY <1>3, <2>1 DEF AddJob, AddedJob
      <3> QED
        BY <1>3, <2>1, <3>1, RespondView, JobNew DEF AddJob, Serving
    <2>2. CASE job[p].pc # "none"
      <3>1. job' = job
        BY <1>3, <2>2 DEF AddJob, AddedJob, TypeOK
      <3> QED
        BY <1>3, <3>1, RespondView DEF AddJob, Serving
    <2> QED
      BY <2>1, <2>2
  <1> QED
    BY <1>1, <1>2, <1>3

\* cleanupPost
LEMMA ReadView ==
  ASSUME TypeOK, NEW p \in Posts, ReadPost(p)
  PROVE  /\ job[p].pc = "waiting" /\ UNCHANGED <<post, counters, worker, files, req, took, faults>>
         /\ \/ /\ Exists(p)
               /\ JobIs(p, "adjust", {"logs"} \union (IF post[p].adjusted THEN {} ELSE {"counted", "adjusted"}), job[p].broken)
            \/ ~Exists(p) /\ JobIs(p, "none", {}, FALSE)
  <1>1. job \in [Posts -> CleanupJob] /\ job[p] \in CleanupJob
    BY DEF TypeOK
  <1>2. CASE Exists(p)
    <2>1. JobIs(p, "adjust", {"logs"} \union (IF post[p].adjusted THEN {} ELSE {"counted", "adjusted"}), job[p].broken)
      BY <1>1, <1>2 DEF ReadPost, CleanupFinds, JobIs, CleanupJob
    <2> QED
      BY <1>2, <2>1 DEF ReadPost
  <1>3. CASE ~Exists(p)
    <2>1. job' = [job EXCEPT ![p] = NoJob]
      BY <1>3 DEF ReadPost, CleanupFinds
    <2> QED
      BY <1>3, <2>1, JobNew DEF ReadPost
  <1> QED
    BY <1>2, <1>3

LEMMA AdjustView ==
  ASSUME TypeOK, NEW p \in Posts, NEW w, AdjustWrite(p, w)
  PROVE  /\ job[p].pc = "adjust" /\ w \in job[p].pending /\ UNCHANGED <<worker, files, req, faults>>
         /\ JobIs(p, "adjust", (job[p].pending \ {w}) \union (IF w = "logs" /\ p \in logs THEN {"contributions"} ELSE {}),
                  job[p].broken)
         /\ PostIs(p, post[p].upload, post[p].deleting, post[p].media)
         /\ counted' = IF w = "counted" THEN Decrement(counted) ELSE counted
         /\ logs' = IF w = "logs" THEN logs \ {p} ELSE logs
         /\ contributions' = IF w = "contributions" THEN Decrement(contributions) ELSE contributions
         /\ took'[p] = (IF w = "counted" THEN took[p] + 1 ELSE took[p]) /\ \A q \in Posts : q # p => took'[q] = took[q]
  <1>1. /\ job \in [Posts -> CleanupJob] /\ job[p] \in CleanupJob /\ post \in [Posts -> PostDoc] /\ post[p] \in PostDoc
        /\ took \in [Posts -> Nat]
    BY DEF TypeOK
  <1>2. JobIs(p, "adjust", (job[p].pending \ {w}) \union (IF w = "logs" /\ p \in logs THEN {"contributions"} ELSE {}),
              job[p].broken)
    BY <1>1 DEF AdjustWrite, JobIs, CleanupJob
  <1>3. PostIs(p, post[p].upload, post[p].deleting, post[p].media)
    BY <1>1 DEF AdjustWrite, PostIs, PostDoc
  <1>4. took'[p] = (IF w = "counted" THEN took[p] + 1 ELSE took[p]) /\ \A q \in Posts : q # p => took'[q] = took[q]
    BY <1>1 DEF AdjustWrite
  <1> QED
    BY <1>2, <1>3, <1>4 DEF AdjustWrite

LEMMA DoneView ==
  ASSUME TypeOK, NEW p \in Posts, AdjustDone(p), ~job[p].broken
  PROVE  /\ job[p].pc = "adjust" /\ job[p].pending = {} /\ JobIs(p, "media", {}, job[p].broken)
         /\ UNCHANGED <<post, counters, worker, files, req, took, faults>>
  BY JobPc DEF AdjustDone

LEMMA MediaView ==
  ASSUME TypeOK, NEW p \in Posts, DeleteMedia(p), faults' = 0
  PROVE  /\ job[p].pc = "media" /\ JobIs(p, "remove", job[p].pending, job[p].broken) /\ stored' = stored \ post[p].media
         /\ UNCHANGED <<post, counters, worker, mediaJobs, req, took, faults>>
  BY JobPc, Faulty DEF DeleteMedia

LEMMA RemoveView ==
  ASSUME TypeOK, NEW p \in Posts, RemovePost(p)
  PROVE  /\ job[p].pc = "remove" /\ JobIs(p, "none", {}, FALSE) /\ PostIs(p, "removed", FALSE, {})
         /\ UNCHANGED <<counters, worker, files, req, took, faults>>
  <1>1. PostIs(p, "removed", FALSE, {})
    BY DEF TypeOK, RemovePost, PostIs, NoPost
  <1> QED
    BY <1>1, JobNew DEF RemovePost

LEMMA FilesView ==
  ASSUME TypeOK, NEW fs \in mediaJobs, MediaCleanup(fs), faults' = 0
  PROVE  stored' = stored \ fs /\ mediaJobs' = mediaJobs \ {fs} /\ UNCHANGED <<post, counters, worker, jobs, req, faults>>
  BY Faulty DEF MediaCleanup

\* updatePost
LEMMA EditView ==
  ASSUME TypeOK, NEW r \in Requests, NEW p \in Posts, NEW kept, NEW new, FindForUpdate(r, p, kept, new)
  PROVE  /\ req[r].pc = "idle" /\ Visible(p) /\ kept \subseteq post[p].media /\ \A f \in new : Fresh(f)
         /\ req'[r].pc = (IF new = {} THEN "update" ELSE "upload") /\ req'[r].target = {p} /\ req'[r].visible = TRUE
         /\ req'[r].seen = post[p].media /\ req'[r].next = kept \union new /\ req'[r].new = new
         /\ \A q \in Requests : q # r => req'[q] = req[q]
         /\ UNCHANGED <<post, counters, worker, files, jobs, faults>>
  BY DEF TypeOK, FindForUpdate

LEMMA UploadEditView ==
  ASSUME TypeOK, NEW r \in Requests, NEW p \in Posts, UploadForUpdate(r, p), faults' = 0
  PROVE  /\ Serving(r, p, "upload") /\ stored' = stored \union req[r].new /\ ReqIs(r, "update")
         /\ UNCHANGED <<post, counters, worker, mediaJobs, jobs, faults>>
  BY GotoView, Faulty DEF UploadForUpdate

LEMMA UpdateView ==
  ASSUME TypeOK, NEW r \in Requests, NEW p \in Posts, UpdatePost(r, p) \/ RejectUpdate(r, p)
  PROVE  /\ Serving(r, p, "update") /\ UNCHANGED <<counters, worker, files, jobs, faults>>
         /\ \/ Visible(p) /\ PostIs(p, post[p].upload, post[p].deleting, req[r].next) /\ ReqIs(r, "replace")
            \/ UNCHANGED post /\ ReqIs(r, "undo")
  <1>1. post \in [Posts -> PostDoc] /\ post[p] \in PostDoc
    BY DEF TypeOK
  <1>2. CASE UpdatePost(r, p) /\ Visible(p)
    <2>1. PostIs(p, post[p].upload, post[p].deleting, req[r].next)
      BY <1>1, <1>2 DEF UpdatePost, PostIs, PostDoc
    <2> QED
      BY <1>2, <2>1, GotoView DEF UpdatePost
  <1>3. CASE UpdatePost(r, p) /\ ~Visible(p)
    BY <1>3, GotoView DEF UpdatePost
  <1>4. CASE RejectUpdate(r, p)
    BY <1>4, GotoView DEF RejectUpdate
  <1> QED
    BY <1>2, <1>3, <1>4

LEMMA EndEditView ==
  ASSUME TypeOK, NEW r \in Requests, NEW p \in Posts, UndoUpdate(r, p) \/ ReplaceMedia(r, p), faults' = 0
  PROVE  /\ \/ Serving(r, p, "undo") /\ Enqueues(req[r].new)
            \/ Serving(r, p, "replace") /\ Enqueues(RemovedMedia(r))
         /\ Ends(r) /\ UNCHANGED <<post, counters, worker, jobs>>
  BY CleanupView, RespondView DEF UndoUpdate, ReplaceMedia

\* The steps that can be taken while nothing fails.
QuietStep ==
    \/ \E p \in Posts : \/ \E F \in SUBSET CreateFiles : CreatePost(p, {p} \X F)
                       \/ CreateStep(p) \/ CountStep(p) \/ CleanupStep(p)
    \/ \E r \in Deleters, p \in Posts : FindPost(r, p) \/ DeleteStep(r, p)
    \/ \E r \in Editors, p \in Posts :
           \/ UpdateStep(r, p)
           \/ \E kept \in SUBSET post[p].media, new \in {{}, {<<p, r>>}} : FindForUpdate(r, p, kept, new)
    \/ \E fs \in mediaJobs : MediaCleanup(fs)
    \/ Drain

LEMMA QuietNext ==
  ASSUME TypeOK, Next, faults' = 0
  PROVE  faults = 0 /\ QuietStep
  <1>1. Fault => FALSE
    BY Faulty
  <1>2. \A fs : CleanupFiles(fs) => UNCHANGED faults
    BY <1>1 DEF CleanupFiles
  <1>3. QuietStep
    BY <1>1 DEF Next, QuietStep, UploadRejects, CountRejects, JobRejects, AdjustRejects, EnqueueRejects, Crash
  <1>4. UNCHANGED faults
    <2>1. ASSUME NEW p \in Posts, (\E F \in SUBSET CreateFiles : CreatePost(p, {p} \X F)) \/ CreateStep(p) \/ CountStep(p)
          PROVE  UNCHANGED faults
      BY <1>1, <1>2, <2>1 DEF CreatePost, CreateStep, CountStep, UploadFile, CompleteUpload, DiscardUpload, UndoUpload, FailUpload,
                              CountWrite
    <2>2. ASSUME NEW p \in Posts, CleanupStep(p)
          PROVE  UNCHANGED faults
      BY <1>1, <2>2 DEF CleanupStep, ReadPost, AdjustDone, DeleteMedia, RemovePost, AdjustWrite
    <2>3. ASSUME NEW r \in Deleters, NEW p \in Posts, FindPost(r, p) \/ DeleteStep(r, p)
          PROVE  UNCHANGED faults
      BY <2>3 DEF FindPost, DeleteStep, MarkDeleting, LookupJob, DropJob, AddJob
    <2>4. ASSUME NEW r \in Editors, NEW p \in Posts,
                 \/ UpdateStep(r, p)
                 \/ \E kept \in SUBSET post[p].media, new \in {{}, {<<p, r>>}} : FindForUpdate(r, p, kept, new)
          PROVE  UNCHANGED faults
      BY <1>1, <1>2, <2>4 DEF UpdateStep, UploadForUpdate, UpdatePost, RejectUpdate, UndoUpdate, ReplaceMedia, FindForUpdate
    <2>5. ASSUME NEW fs \in mediaJobs, MediaCleanup(fs) PROVE UNCHANGED faults
      BY <1>1, <2>5 DEF MediaCleanup
    <2>6. CASE Drain
      BY <2>6 DEF Drain
    <2> QED
      BY <1>3, <2>1, <2>2, <2>3, <2>4, <2>5, <2>6 DEF QuietStep
  <1> QED
    BY <1>3, <1>4

----------------------------------------------------------------------------
(* How far a post, its creation, its job and its requests are.             *)

Gone(p) == post[p].upload = "removed" \/ post[p].deleting

Created(p) == post[p].upload \in {"ready", "removed"}

\* The upload of a post, and the document.
UploadStage(p) ==
    /\ up[p].pc = "idle" => up[p].todo = {} /\ up[p].done = {}
    /\ up[p].pc = "queued" => up[p].done = {}
    /\ up[p].pc \in {"queued", "upload", "discard", "undo", "fail"} => post[p].upload = "processing"
    /\ up[p].pending # {} => up[p].pc = "count"
    /\ up[p].pc = "count" => Created(p)
    /\ post[p].upload \in {"processing", "failed"} => post[p].media = {}
    /\ post[p].upload \in {"absent", "removed"} => ~post[p].deleting /\ post[p].media = {}

\* A post is cleaned up after it was ready, and it stays until its job removes it.
JobStage(p) ==
    /\ job[p].pc # "none" => Gone(p) /\ Created(p)
    /\ JobRuns(p) => post[p].upload = "ready"
    /\ ~job[p].broken

RequestStage(r, p) ==
    req[r].target = {p} =>
        /\ req[r].visible => Created(p)
        /\ req[r].pc \in {"lookup", "drop", "add"} => req[r].visible /\ Gone(p)
        /\ r \in Editors /\ req[r].pc # "idle" => req[r].visible

QueueStage ==
    /\ \A i \in 1..Len(queue) : up[queue[i]].pc = "queued"
    /\ \A i, j \in 1..Len(queue) : queue[i] = queue[j] => i = j

Stage ==
    /\ \A p \in Posts : UploadStage(p) /\ JobStage(p)
    /\ \A r \in Requests, p \in Posts : RequestStage(r, p)
    /\ QueueStage

StageInv == faults = 0 => Stage

LEMMA StageInit == Init => StageInv
  <1> SUFFICES ASSUME Init PROVE Stage
    BY DEF StageInv
  <1>1. \A p \in Posts : UploadStage(p) /\ JobStage(p)
    BY DEF Init, NoPost, NoCreation, NoJob, UploadStage, JobStage, Gone, Created, JobRuns
  <1>2. \A r \in Requests, p \in Posts : RequestStage(r, p)
    BY DEF Init, NoRequest, RequestStage
  <1>3. QueueStage
    BY DEF Init, QueueStage
  <1> QED
    BY <1>1, <1>2, <1>3 DEF Stage

\* A step about one post keeps the stages when it keeps that post's and those of the requests it changes.
LEMMA StageKept ==
  ASSUME Stage, NEW p \in Posts, UploadStage(p)', JobStage(p)', QueueStage', Created(p) => Created(p)', Gone(p) => Gone(p)',
         \A q \in Posts : q # p => post'[q] = post[q] /\ up'[q] = up[q] /\ job'[q] = job[q],
         \A r \in Requests, q \in Posts : req'[r] = req[r] \/ RequestStage(r, q)'
  PROVE  Stage'
  <1>1. \A q \in Posts : q # p => UploadStage(q)' /\ JobStage(q)'
    BY DEF Stage, UploadStage, JobStage, Gone, Created, JobRuns
  <1>2. \A q \in Posts : (Created(q) => Created(q)') /\ (Gone(q) => Gone(q)')
    BY DEF Gone, Created
  <1>3. \A r \in Requests, q \in Posts : RequestStage(r, q)'
    BY <1>2 DEF Stage, RequestStage
  <1> QED
    BY <1>1, <1>3 DEF Stage

LEMMA CreateStages ==
  ASSUME TypeOK, Stage, faults' = 0, NEW p \in Posts,
         (\E F \in SUBSET CreateFiles : CreatePost(p, {p} \X F)) \/ CreateStep(p) \/ CountStep(p)
  PROVE  Stage'
  <1>0. UploadStage(p) /\ JobStage(p) /\ queue \in Seq(Posts) /\ up[p].pending \subseteq CreateWrite
    BY DEF Stage, TypeOK, Creation
  <1>1. ASSUME UploadStage(p)', JobStage(p)', Created(p) => Created(p)', Gone(p) => Gone(p)', QueueStage', req' = req,
               \A q \in Posts : q # p => post'[q] = post[q] /\ up'[q] = up[q] /\ job'[q] = job[q]
        PROVE  Stage'
    BY <1>1, StageKept
  <1>2. ASSUME up[p].pc # "queued", queue' = queue, \A q \in Posts : q # p => up'[q] = up[q]
        PROVE  QueueStage'
    <2>1. \A i \in 1..Len(queue) : queue[i] \in Posts /\ queue[i] # p
      BY <1>0, <1>2 DEF Stage, QueueStage
    <2> QED
      BY <1>2, <2>1 DEF Stage, QueueStage
  <1>3. ASSUME NEW F \in SUBSET CreateFiles, CreatePost(p, {p} \X F)
        PROVE  Stage'
    <2> DEFINE fs == {p} \X F
    <2>1. /\ post[p].upload = "absent" /\ UNCHANGED <<job, req>>
          /\ \/ /\ fs # {} /\ PostIs(p, "processing", post[p].deleting, post[p].media)
                /\ UpIs(p, "queued", fs, up[p].done, up[p].pending) /\ queue' = Append(queue, p)
             \/ /\ fs = {} /\ PostIs(p, "ready", post[p].deleting, post[p].media) /\ queue' = queue
                /\ \E writes \in Counting : UpIs(p, "count", up[p].todo, up[p].done, writes)
      BY <1>3, CreateView DEF jobs
    <2> HIDE DEF fs
    <2>2. up[p].pc \notin {"queued", "upload", "discard", "undo", "fail", "count"} /\ up[p].pc \in {"idle", "queued", "upload", "discard", "count", "undo", "fail"}
      BY <1>0, <2>1 DEF UploadStage, Created, TypeOK, Creation
    <2>3. UploadStage(p)'
      BY <1>0, <2>1, <2>2 DEF UploadStage, Created, PostIs, UpIs
    <2>4. JobStage(p)'
      BY <1>0, <2>1 DEF JobStage, Created, JobRuns
    <2>5. QueueStage'
      <3>1. CASE queue' = Append(queue, p) /\ UpIs(p, "queued", fs, up[p].done, up[p].pending)
        <4>1. \A i \in 1..Len(queue) : queue[i] \in Posts /\ queue[i] # p
          BY <1>0, <2>2 DEF Stage, QueueStage
        <4>2. /\ Len(queue') = Len(queue) + 1 /\ queue'[Len(queue) + 1] = p /\ Len(queue) \in Nat
              /\ \A i \in 1..Len(queue) : queue'[i] = queue[i]
          BY <1>0, <3>1
        <4> QED
          BY <3>1, <4>1, <4>2 DEF Stage, QueueStage, UpIs
      <3>2. CASE queue' = queue
        BY <1>2, <2>1, <2>2, <3>2 DEF UpIs
      <3> QED
        BY <2>1, <3>1, <3>2
    <2> QED
      BY <1>0, <1>1, <2>1, <2>3, <2>4, <2>5 DEF PostIs, UpIs, Created, Gone, UploadStage
  <1>4. ASSUME NEW f \in Files, UploadFile(p, f) PROVE Stage'
    <2>1. /\ up[p].pc = "upload" /\ UpIs(p, "upload", up[p].todo \ {f}, up[p].done \union {f}, up[p].pending)
          /\ UNCHANGED <<post, queue, job, req>>
      BY <1>4, UploadView DEF jobs
    <2>2. UploadStage(p)' /\ JobStage(p)'
      BY <1>0, <2>1 DEF UploadStage, JobStage, Created, Gone, JobRuns, UpIs
    <2> QED
      BY <1>1, <1>2, <2>1, <2>2 DEF UpIs, Created, Gone
  <1>5. CASE CompleteUpload(p)
    <2>1. /\ up[p].pc = "upload" /\ UNCHANGED <<queue, job, req>>
          /\ \/ /\ NotDeleting(p) /\ PostIs(p, "ready", post[p].deleting, up[p].done)
                /\ \E writes \in Counting : UpIs(p, "count", up[p].todo, up[p].done, writes)
             \/ /\ \E pc \in {"discard", "undo"} : UpIs(p, pc, up[p].todo, up[p].done, up[p].pending)
                /\ UNCHANGED post
      BY <1>5, CompleteView DEF jobs
    <2>2. UploadStage(p)' /\ JobStage(p)'
      BY <1>0, <2>1 DEF UploadStage, JobStage, Created, Gone, JobRuns, UpIs, PostIs, NotDeleting, Exists
    <2>3. (Created(p) => Created(p)') /\ (Gone(p) => Gone(p)')
      BY <1>0, <2>1 DEF UploadStage, Created, Gone, PostIs
    <2> QED
      BY <1>1, <1>2, <2>1, <2>2, <2>3 DEF UpIs, PostIs
  <1>6. CASE DiscardUpload(p) \/ UndoUpload(p)
    <2>1. /\ up[p].pc \in {"discard", "undo"} /\ UNCHANGED <<post, queue, job, req>>
          /\ \E pc \in {"undo", "fail"} : UpIs(p, pc, up[p].todo, up[p].done, up[p].pending)
      BY <1>6, UndoView DEF jobs
    <2>2. UploadStage(p)' /\ JobStage(p)'
      BY <1>0, <2>1 DEF UploadStage, JobStage, Created, Gone, JobRuns, UpIs
    <2> QED
      BY <1>1, <1>2, <2>1, <2>2 DEF UpIs, Created, Gone
  <1>7. CASE FailUpload(p)
    <2>1. /\ up[p].pc = "fail" /\ UNCHANGED <<queue, job, req>> /\ UpIs(p, "idle", {}, {}, up[p].pending)
          /\ PostIs(p, "failed", post[p].deleting, post[p].media) \/ UNCHANGED post
      BY <1>7, FailView DEF jobs
    <2>2. UploadStage(p)' /\ JobStage(p)'
      BY <1>0, <2>1 DEF UploadStage, JobStage, Created, Gone, JobRuns, UpIs, PostIs
    <2>3. (Created(p) => Created(p)') /\ (Gone(p) => Gone(p)')
      BY <1>0, <2>1 DEF UploadStage, Created, Gone, PostIs
    <2> QED
      BY <1>1, <1>2, <2>1, <2>2, <2>3 DEF UpIs, PostIs
  <1>8. ASSUME NEW w \in CreateWrite, CountWrite(p, w) PROVE Stage'
    <2>1. /\ w \in up[p].pending /\ UNCHANGED <<post, queue, job, req>>
          /\ \/ up[p].pc = "count" /\ up[p].pending = {w} /\ UpIs(p, "idle", {}, {}, {})
             \/ up[p].pending # {w} /\ UpIs(p, up[p].pc, up[p].todo, up[p].done, up[p].pending \ {w})
             \/ up[p].pc # "count" /\ UpIs(p, up[p].pc, up[p].todo, up[p].done, up[p].pending \ {w})
      BY <1>8, CountView DEF jobs
    <2>2. up[p].pc = "count"
      BY <1>0, <2>1 DEF UploadStage
    <2>3. UploadStage(p)' /\ JobStage(p)'
      BY <1>0, <2>1, <2>2 DEF UploadStage, JobStage, Created, Gone, JobRuns, UpIs
    <2> QED
      BY <1>1, <1>2, <2>1, <2>2, <2>3 DEF UpIs, Created, Gone
  <1> QED
    BY <1>3, <1>4, <1>5, <1>6, <1>7, <1>8 DEF CreateStep, CountStep

LEMMA DeleteStages ==
  ASSUME TypeOK, Stage, NEW r \in Deleters, NEW p \in Posts, FindPost(r, p) \/ DeleteStep(r, p)
  PROVE  Stage'
  <1>0. UploadStage(p) /\ JobStage(p) /\ RequestStage(r, p) /\ QueueStage /\ r \in Requests /\ r \notin Editors
    BY RequestsAssumption DEF Stage, Requests
  <1>1. CASE FindPost(r, p)
    <2>1. /\ req'[r].pc = "mark" /\ req'[r].target = {p} /\ req'[r].visible = Visible(p)
          /\ (\A q \in Requests : q # r => req'[q] = req[q]) /\ UNCHANGED <<post, up, queue, job>>
      BY <1>0, <1>1, FindView DEF worker, jobs
    <2>2. \A x \in Posts : RequestStage(r, x)'
      BY <1>0, <2>1 DEF RequestStage, Visible, Created
    <2>3. UploadStage(p)' /\ JobStage(p)' /\ QueueStage' /\ (Created(p) => Created(p)') /\ (Gone(p) => Gone(p)')
      BY <1>0, <2>1 DEF UploadStage, JobStage, QueueStage, Created, Gone, JobRuns
    <2> QED
      BY <2>1, <2>2, <2>3, StageKept
  <1>2. CASE MarkDeleting(r, p)
    <2>1. /\ req[r].pc = "mark" /\ req[r].target = {p} /\ UNCHANGED <<up, queue, job>>
          /\ \/ Exists(p) /\ PostIs(p, post[p].upload, TRUE, post[p].media)
             \/ ~Exists(p) /\ UNCHANGED post
          /\ \/ Exists(p) /\ req[r].visible /\ ReqIs(r, "lookup")
             \/ Ends(r)
      BY <1>0, <1>2, MarkView DEF worker, jobs, Serving
    <2>2. \A x \in Posts : RequestStage(r, x)'
      <3>1. CASE Exists(p) /\ req[r].visible /\ ReqIs(r, "lookup")
        BY <1>0, <2>1, <3>1 DEF RequestStage, ReqIs, PostIs, Gone, Created
      <3>2. CASE Ends(r)
        BY <3>2 DEF RequestStage, Ends, NoRequest
      <3> QED
        BY <2>1, <3>1, <3>2
    <2>3. \A q \in Requests : q # r => req'[q] = req[q]
      BY <2>1 DEF ReqIs, Ends
    <2>4. UploadStage(p)' /\ JobStage(p)' /\ QueueStage' /\ (Created(p) => Created(p)') /\ (Gone(p) => Gone(p)')
      BY <1>0, <2>1 DEF UploadStage, JobStage, QueueStage, Created, Gone, JobRuns, PostIs, Exists
    <2>5. \A q \in Posts : q # p => post'[q] = post[q]
      BY <2>1 DEF PostIs
    <2> QED
      BY <2>1, <2>2, <2>3, <2>4, <2>5, StageKept
  <1>3. CASE LookupJob(r, p) \/ DropJob(r, p) \/ AddJob(r, p)
    <2>1. /\ req[r].pc \in {"lookup", "drop", "add"} /\ req[r].target = {p} /\ UNCHANGED <<post, up, queue>>
          /\ (\E pc \in {"drop", "add"} : ReqIs(r, pc)) \/ Ends(r)
          /\ \/ UNCHANGED job
             \/ ~JobRuns(p) /\ JobIs(p, "none", {}, FALSE)
             \/ job[p].pc = "none" /\ JobIs(p, "waiting", {}, FALSE)
      BY <1>0, <1>3, JobRequestView DEF worker
    <2>2. \A x \in Posts : RequestStage(r, x)'
      <3>1. ASSUME NEW pc \in {"drop", "add"}, ReqIs(r, pc) PROVE \A x \in Posts : RequestStage(r, x)'
        BY <1>0, <2>1, <3>1 DEF RequestStage, ReqIs, Gone, Created
      <3>2. CASE Ends(r)
        BY <3>2 DEF RequestStage, Ends, NoRequest
      <3> QED
        BY <2>1, <3>1, <3>2
    <2>3. \A q \in Requests : q # r => req'[q] = req[q]
      BY <2>1 DEF ReqIs, Ends
    <2>4. JobStage(p)'
      BY <1>0, <2>1 DEF JobStage, RequestStage, JobIs, JobRuns, Gone, Created
    <2>5. UploadStage(p)' /\ QueueStage' /\ (Created(p) => Created(p)') /\ (Gone(p) => Gone(p)')
      BY <1>0, <2>1 DEF UploadStage, QueueStage, Created, Gone
    <2>6. \A q \in Posts : q # p => job'[q] = job[q]
      BY <2>1 DEF JobIs
    <2> QED
      BY <2>1, <2>2, <2>3, <2>4, <2>5, <2>6, StageKept
  <1> QED
    BY <1>1, <1>2, <1>3 DEF DeleteStep

LEMMA CleanupStages ==
  ASSUME TypeOK, Stage, faults' = 0, NEW p \in Posts, CleanupStep(p)
  PROVE  Stage'
  <1>0. UploadStage(p) /\ JobStage(p) /\ QueueStage
    BY DEF Stage
  <1>1. ASSUME UNCHANGED <<worker, req>>, UploadStage(p)', JobStage(p)', Created(p) => Created(p)', Gone(p) => Gone(p)',
               \A q \in Posts : q # p => post'[q] = post[q] /\ job'[q] = job[q]
        PROVE  Stage'
    <2>1. QueueStage' /\ up' = up
      BY <1>0, <1>1 DEF worker, QueueStage
    <2> QED
      BY <1>1, <2>1, StageKept
  <1>2. CASE ReadPost(p)
    <2>1. /\ job[p].pc = "waiting" /\ UNCHANGED <<post, worker, up, req>>
          /\ (Exists(p) /\ \E pending : JobIs(p, "adjust", pending, job[p].broken)) \/ JobIs(p, "none", {}, FALSE)
      BY <1>2, ReadView DEF worker
    <2>2. JobStage(p)'
      BY <1>0, <2>1 DEF JobStage, JobIs, JobRuns, Gone, Created, Exists
    <2>3. UploadStage(p)' /\ (Created(p) => Created(p)') /\ (Gone(p) => Gone(p)')
      BY <1>0, <2>1 DEF UploadStage, Created, Gone
    <2> QED
      BY <1>1, <2>1, <2>2, <2>3 DEF JobIs
  <1>3. CASE AdjustDone(p)
    <2>1. job[p].pc = "adjust" /\ JobIs(p, "media", {}, job[p].broken) /\ UNCHANGED <<post, worker, up, req>>
      BY <1>0, <1>3, DoneView DEF worker, JobStage
    <2>2. UploadStage(p)' /\ JobStage(p)'
      BY <1>0, <2>1 DEF UploadStage, JobStage, JobIs, JobRuns, Gone, Created
    <2> QED
      BY <1>1, <2>1, <2>2 DEF JobIs, Created, Gone
  <1>4. CASE DeleteMedia(p)
    <2>1. job[p].pc = "media" /\ JobIs(p, "remove", job[p].pending, job[p].broken) /\ UNCHANGED <<post, worker, up, req>>
      BY <1>4, MediaView DEF worker
    <2>2. UploadStage(p)' /\ JobStage(p)'
      BY <1>0, <2>1 DEF UploadStage, JobStage, JobIs, JobRuns, Gone, Created
    <2> QED
      BY <1>1, <2>1, <2>2 DEF JobIs, Created, Gone
  <1>5. CASE RemovePost(p)
    <2>1. job[p].pc = "remove" /\ JobIs(p, "none", {}, FALSE) /\ PostIs(p, "removed", FALSE, {}) /\ UNCHANGED <<worker, up, req>>
      BY <1>5, RemoveView DEF worker
    <2>2. UploadStage(p)' /\ JobStage(p)'
      BY <1>0, <2>1 DEF UploadStage, JobStage, JobIs, PostIs, JobRuns, Gone, Created
    <2> QED
      BY <1>1, <2>1, <2>2 DEF JobIs, PostIs, Created, Gone
  <1>6. ASSUME NEW w \in CleanupWrite, AdjustWrite(p, w) PROVE Stage'
    <2>1. /\ job[p].pc = "adjust" /\ UNCHANGED <<worker, up, req>> /\ \E pending : JobIs(p, "adjust", pending, job[p].broken)
          /\ PostIs(p, post[p].upload, post[p].deleting, post[p].media)
      BY <1>6, AdjustView DEF worker
    <2>2. UploadStage(p)' /\ JobStage(p)'
      BY <1>0, <2>1 DEF UploadStage, JobStage, JobIs, PostIs, JobRuns, Gone, Created
    <2> QED
      BY <1>1, <2>1, <2>2 DEF JobIs, PostIs, Created, Gone
  <1> QED
    BY <1>2, <1>3, <1>4, <1>5, <1>6 DEF CleanupStep

LEMMA EditStages ==
  ASSUME TypeOK, Stage, faults' = 0, NEW r \in Editors, NEW p \in Posts,
         \/ UpdateStep(r, p)
         \/ \E kept \in SUBSET post[p].media, new \in {{}, {<<p, r>>}} : FindForUpdate(r, p, kept, new)
  PROVE  Stage'
  <1>0. UploadStage(p) /\ JobStage(p) /\ RequestStage(r, p) /\ QueueStage /\ r \in Requests
    BY DEF Stage, Requests
  <1>1. ASSUME NEW pc \in {"upload", "update", "undo", "replace"}, req[r].pc # "idle", req[r].target = {p}, ReqIs(r, pc),
               post'[p].upload = post[p].upload
        PROVE  \A x \in Posts : RequestStage(r, x)'
    BY <1>0, <1>1 DEF RequestStage, ReqIs, Created
  <1>2. ASSUME Ends(r) PROVE \A x \in Posts : RequestStage(r, x)'
    BY <1>2 DEF RequestStage, Ends, NoRequest
  <1>3. ASSUME UNCHANGED <<post, worker, jobs>>, \A x \in Posts : RequestStage(r, x)', \A q \in Requests : q # r => req'[q] = req[q]
        PROVE  Stage'
    <2>1. UploadStage(p)' /\ JobStage(p)' /\ QueueStage' /\ (Created(p) => Created(p)') /\ (Gone(p) => Gone(p)')
      BY <1>0, <1>3 DEF UploadStage, JobStage, QueueStage, Created, Gone, JobRuns, worker, jobs
    <2> QED
      BY <1>3, <2>1, StageKept DEF worker, jobs
  <1>4. ASSUME NEW kept \in SUBSET post[p].media, NEW new \in {{}, {<<p, r>>}}, FindForUpdate(r, p, kept, new)
        PROVE  Stage'
    <2>1. /\ Visible(p) /\ req'[r].pc \in {"update", "upload"} /\ req'[r].target = {p} /\ req'[r].visible = TRUE
          /\ (\A q \in Requests : q # r => req'[q] = req[q]) /\ UNCHANGED <<post, worker, jobs>>
      BY <1>0, <1>4, EditView
    <2>2. \A x \in Posts : RequestStage(r, x)'
      BY <2>1 DEF RequestStage, Visible, Created
    <2> QED
      BY <1>3, <2>1, <2>2
  <1>5. CASE UploadForUpdate(r, p)
    <2>1. req[r].pc = "upload" /\ req[r].target = {p} /\ ReqIs(r, "update") /\ UNCHANGED <<post, worker, jobs>>
      BY <1>0, <1>5, UploadEditView DEF Serving
    <2> QED
      BY <1>1, <1>3, <2>1 DEF ReqIs
  <1>6. CASE UpdatePost(r, p) \/ RejectUpdate(r, p)
    <2>1. /\ req[r].pc = "update" /\ req[r].target = {p} /\ UNCHANGED <<worker, jobs>>
          /\ \/ Visible(p) /\ PostIs(p, post[p].upload, post[p].deleting, req[r].next) /\ ReqIs(r, "replace")
             \/ UNCHANGED post /\ ReqIs(r, "undo")
      BY <1>0, <1>6, UpdateView DEF Serving
    <2>2. CASE UNCHANGED post /\ ReqIs(r, "undo")
      BY <1>1, <1>3, <2>1, <2>2 DEF ReqIs
    <2>3. CASE Visible(p) /\ PostIs(p, post[p].upload, post[p].deleting, req[r].next) /\ ReqIs(r, "replace")
      <3>1. UploadStage(p)' /\ JobStage(p)' /\ QueueStage' /\ (Created(p) => Created(p)') /\ (Gone(p) => Gone(p)')
        BY <1>0, <2>1, <2>3 DEF UploadStage, JobStage, QueueStage, Created, Gone, JobRuns, worker, jobs, Visible, PostIs
      <3>2. \A x \in Posts : RequestStage(r, x)'
        BY <1>1, <2>1, <2>3 DEF PostIs
      <3> QED
        BY <2>1, <2>3, <3>1, <3>2, StageKept DEF PostIs, ReqIs, worker, jobs
    <2> QED
      BY <2>1, <2>2, <2>3
  <1>7. CASE UndoUpdate(r, p) \/ ReplaceMedia(r, p)
    <2>1. Ends(r) /\ UNCHANGED <<post, worker, jobs>>
      BY <1>0, <1>7, EndEditView
    <2> QED
      BY <1>2, <1>3, <2>1 DEF Ends
  <1> QED
    BY <1>4, <1>5, <1>6, <1>7 DEF UpdateStep

LEMMA DrainStage ==
  ASSUME TypeOK, Stage, Drain
  PROVE  Stage'
  <1>0. PICK p \in Posts : p = Head(queue)
    BY DrainView
  <1>1. /\ queue # <<>> /\ queue' = Tail(queue) /\ UNCHANGED <<post, job, req>>
        /\ UpIs(p, "upload", up[p].todo, up[p].done, up[p].pending)
    BY <1>0, DrainView DEF jobs
  <1>2. queue \in Seq(Posts) /\ Len(queue) \in Nat /\ Len(queue) >= 1 /\ p = queue[1]
    BY <1>0, <1>1 DEF TypeOK
  <1>3. UploadStage(p) /\ JobStage(p) /\ QueueStage
    BY DEF Stage
  <1>4. up[p].pc = "queued"
    BY <1>2, <1>3 DEF QueueStage
  <1>5. UploadStage(p)' /\ JobStage(p)' /\ (Created(p) => Created(p)') /\ (Gone(p) => Gone(p)')
    BY <1>1, <1>3, <1>4 DEF UploadStage, JobStage, Created, Gone, JobRuns, UpIs
  <1>6. QueueStage'
    <2>1. Len(queue') = Len(queue) - 1 /\ \A i \in 1..Len(queue') : queue'[i] = queue[i + 1]
      BY <1>1, <1>2
    <2>2. \A i \in 1..Len(queue') : i + 1 \in 1..Len(queue) /\ queue[i + 1] # p /\ queue[i + 1] \in Posts
      BY <1>2, <1>3, <2>1 DEF QueueStage
    <2> QED
      BY <1>1, <1>2, <1>3, <2>1, <2>2 DEF QueueStage, UpIs
  <1> QED
    BY <1>1, <1>5, <1>6, StageKept DEF UpIs

LEMMA StageStep == TypeOK /\ StageInv /\ [Next]_vars => StageInv'
  <1> SUFFICES ASSUME TypeOK, StageInv, [Next]_vars, faults' = 0 PROVE Stage'
    BY DEF StageInv
  <1>1. CASE UNCHANGED vars
    <2>1. Stage
      BY <1>1 DEF vars, StageInv
    <2> QED
      BY <1>1, <2>1 DEF vars, Stage, UploadStage, JobStage, RequestStage, QueueStage, Gone, Created, JobRuns
  <1>2. CASE Next
    <2>1. Stage /\ QuietStep
      BY <1>2, QuietNext DEF StageInv
    <2>2. ASSUME NEW fs \in mediaJobs, MediaCleanup(fs) PROVE Stage'
      <3>1. UNCHANGED <<post, worker, jobs, req>>
        BY <2>2, FilesView
      <3> QED
        BY <2>1, <3>1 DEF worker, jobs, Stage, UploadStage, JobStage, RequestStage, QueueStage, Gone, Created, JobRuns
    <2> QED
      BY <2>1, <2>2, CreateStages, DeleteStages, CleanupStages, EditStages, DrainStage DEF QuietStep
  <1> QED
    BY <1>1, <1>2

LEMMA Stages == Spec => [](TypeOK /\ StageInv)
  <1>1. Init => TypeOK /\ StageInv
    BY TypeInit, StageInit
  <1>2. TypeOK /\ StageInv /\ [Next]_vars => (TypeOK /\ StageInv)'
    BY TypeStep, StageStep
  <1> QED
    BY <1>1, <1>2, PTL DEF Spec

\* What creations and edits leave alone.
LEMMA CreatedStays ==
  ASSUME TypeOK, Stage, faults' = 0, NEW p \in Posts,
         (\E F \in SUBSET CreateFiles : CreatePost(p, {p} \X F)) \/ CreateStep(p) \/ CountStep(p)
  PROVE  /\ UNCHANGED <<job, took, req>>
         /\ \A q \in Posts : post'[q] = post[q] \/ (~Created(q) /\ post'[q].upload # "absent")
  <1>0. UploadStage(p)
    BY DEF Stage
  <1>1. ASSUME NEW F \in SUBSET CreateFiles, CreatePost(p, {p} \X F)
        PROVE  UNCHANGED <<job, took, req>> /\ \A q \in Posts : post'[q] = post[q] \/ (~Created(q) /\ post'[q].upload # "absent")
    BY <1>1, CreateView DEF jobs, PostIs, Created
  <1>2. CASE CompleteUpload(p)
    BY <1>0, <1>2, CompleteView DEF jobs, PostIs, Created, UploadStage
  <1>3. CASE DiscardUpload(p) \/ UndoUpload(p)
    BY <1>3, UndoView DEF jobs
  <1>4. CASE FailUpload(p)
    <2>1. /\ up[p].pc = "fail" /\ UNCHANGED <<job, took, req>>
          /\ PostIs(p, "failed", post[p].deleting, post[p].media) \/ UNCHANGED post
      BY <1>4, FailView DEF jobs
    <2> QED
      BY <1>0, <2>1 DEF PostIs, Created, UploadStage
  <1>5. ASSUME NEW f \in Files, UploadFile(p, f) PROVE UNCHANGED <<job, took, req, post>>
    BY <1>5 DEF UploadFile, jobs
  <1>6. ASSUME NEW w \in CreateWrite, CountWrite(p, w) PROVE UNCHANGED <<job, took, req, post>>
    BY <1>6 DEF CountWrite, jobs
  <1> QED
    BY <1>1, <1>2, <1>3, <1>4, <1>5, <1>6 DEF CreateStep, CountStep

LEMMA EditStays ==
  ASSUME TypeOK, faults' = 0, NEW r \in Editors, NEW p \in Posts,
         \/ UpdateStep(r, p)
         \/ \E kept \in SUBSET post[p].media, new \in {{}, {<<p, r>>}} : FindForUpdate(r, p, kept, new)
  PROVE  /\ UNCHANGED <<worker, jobs, counters>>
         /\ \A q \in Posts : post'[q].upload = post[q].upload /\ post'[q].deleting = post[q].deleting
  <1>1. r \in Requests
    BY DEF Requests
  <1>2. CASE UpdatePost(r, p) \/ RejectUpdate(r, p)
    BY <1>1, <1>2, UpdateView DEF PostIs
  <1>3. CASE ~(UpdatePost(r, p) \/ RejectUpdate(r, p))
    BY <1>3 DEF UpdateStep, UploadForUpdate, UndoUpdate, ReplaceMedia, FindForUpdate
  <1> QED
    BY <1>2, <1>3

----------------------------------------------------------------------------
(* A post is taken from the owner's count once.                            *)

\* The decrement was made by the job that still runs and has it no longer to do, or the post is removed.
Took(p) ==
    /\ took[p] <= 1
    /\ took[p] = 1 => Created(p) /\ (Exists(p) => JobRuns(p) /\ "counted" \notin job[p].pending)

TookInv == faults = 0 => \A p \in Posts : Took(p)

LEMMA TookKept ==
  ASSUME TypeOK, \A p \in Posts : Took(p), UNCHANGED <<job, took>>,
         \A q \in Posts : post'[q].upload = post[q].upload \/ ~Created(q)
  PROVE  \A p \in Posts : Took(p)'
  <1>1. took \in [Posts -> Nat]
    BY DEF TypeOK
  <1> QED
    BY <1>1 DEF Took, Created, Exists, JobRuns

LEMMA TookOther ==
  ASSUME NEW p \in Posts, \A q \in Posts : Took(q), Took(p)',
         \A q \in Posts : q # p => post'[q] = post[q] /\ job'[q] = job[q] /\ took'[q] = took[q]
  PROVE  \A q \in Posts : Took(q)'
  BY DEF Took, Created, Exists, JobRuns

LEMMA TookStep == TypeOK /\ StageInv /\ TookInv /\ [Next]_vars => TookInv'
  <1> SUFFICES ASSUME TypeOK, StageInv, TookInv, [Next]_vars, faults' = 0 PROVE \A p \in Posts : Took(p)'
    BY DEF TookInv
  <1>1. CASE UNCHANGED vars
    BY <1>1, TookKept DEF vars, TookInv
  <1>2. CASE Next
    <2>0. Stage /\ QuietStep /\ (\A p \in Posts : Took(p)) /\ took \in [Posts -> Nat]
      BY <1>2, QuietNext DEF StageInv, TookInv, TypeOK
    <2>1. ASSUME NEW p \in Posts, (\E F \in SUBSET CreateFiles : CreatePost(p, {p} \X F)) \/ CreateStep(p) \/ CountStep(p)
          PROVE  \A q \in Posts : Took(q)'
      BY <2>0, <2>1, CreatedStays, TookKept
    <2>2. ASSUME NEW p \in Posts, CleanupStep(p)
          PROVE  \A q \in Posts : Took(q)'
      <3>0. JobStage(p) /\ Took(p) /\ took[p] \in Nat
        BY <2>0 DEF Stage
      <3>1. CASE ReadPost(p)
        <4>1. /\ job[p].pc = "waiting" /\ UNCHANGED <<post, took>>
              /\ (Exists(p) /\ \E pending : JobIs(p, "adjust", pending, job[p].broken)) \/ (~Exists(p) /\ JobIs(p, "none", {}, FALSE))
          BY <3>1, ReadView
        <4>2. Took(p)'
          BY <3>0, <4>1 DEF Took, Created, Exists, JobRuns, JobIs
        <4> QED
          BY <2>0, <4>1, <4>2, TookOther DEF JobIs
      <3>2. CASE AdjustDone(p) \/ DeleteMedia(p)
        <4>1. JobRuns(p) /\ UNCHANGED <<post, took>>
              /\ (JobIs(p, "media", {}, job[p].broken) \/ JobIs(p, "remove", job[p].pending, job[p].broken))
          BY <3>0, <3>2, DoneView, MediaView DEF JobStage, JobRuns
        <4>2. Took(p)'
          BY <3>0, <4>1 DEF Took, Created, Exists, JobRuns, JobIs
        <4> QED
          BY <2>0, <4>1, <4>2, TookOther DEF JobIs
      <3>3. CASE RemovePost(p)
        <4>1. job[p].pc = "remove" /\ JobIs(p, "none", {}, FALSE) /\ PostIs(p, "removed", FALSE, {}) /\ UNCHANGED took
          BY <3>3, RemoveView
        <4>2. Took(p)'
          BY <3>0, <4>1 DEF Took, Created, Exists, PostIs
        <4> QED
          BY <2>0, <4>1, <4>2, TookOther DEF JobIs, PostIs
      <3>4. ASSUME NEW w \in CleanupWrite, AdjustWrite(p, w)
            PROVE  \A q \in Posts : Took(q)'
        <4>1. /\ job[p].pc = "adjust" /\ w \in job[p].pending /\ PostIs(p, post[p].upload, post[p].deleting, post[p].media)
              /\ JobIs(p, "adjust", (job[p].pending \ {w}) \union (IF w = "logs" /\ p \in logs THEN {"contributions"} ELSE {}),
                       job[p].broken)
              /\ took'[p] = (IF w = "counted" THEN took[p] + 1 ELSE took[p]) /\ \A q \in Posts : q # p => took'[q] = took[q]
          BY <3>4, AdjustView
        <4>2. Created(p) /\ Exists(p)
          BY <3>0, <4>1 DEF JobStage, JobRuns, Created, Exists
        <4>3. Took(p)'
          BY <3>0, <4>1, <4>2 DEF Took, Created, Exists, JobIs, PostIs, JobRuns
        <4> QED
          BY <2>0, <4>1, <4>3, TookOther DEF JobIs, PostIs
      <3> QED
        BY <2>2, <3>1, <3>2, <3>3, <3>4 DEF CleanupStep
    <2>3. ASSUME NEW r \in Deleters, NEW p \in Posts, FindPost(r, p) \/ DeleteStep(r, p)
          PROVE  \A q \in Posts : Took(q)'
      <3>0. r \in Requests /\ JobStage(p) /\ RequestStage(r, p) /\ Took(p) /\ took[p] \in Nat
        BY <2>0 DEF Requests, Stage
      <3>1. CASE FindPost(r, p)
        BY <2>0, <3>1, TookKept DEF FindPost, jobs
      <3>2. CASE MarkDeleting(r, p)
        <4>1. UNCHANGED <<job, took>> /\ \A q \in Posts : post'[q].upload = post[q].upload
          BY <3>0, <3>2, MarkView DEF jobs, PostIs
        <4> QED
          BY <2>0, <4>1, TookKept
      <3>3. CASE LookupJob(r, p) \/ DropJob(r, p) \/ AddJob(r, p)
        <4>1. /\ UNCHANGED <<post, took>>
              /\ \/ UNCHANGED job
                 \/ ~JobRuns(p) /\ JobIs(p, "none", {}, FALSE)
                 \/ job[p].pc = "none" /\ JobIs(p, "waiting", {}, FALSE)
          BY <3>0, <3>3, JobRequestView
        <4>2. CASE UNCHANGED job
          BY <2>0, <4>1, <4>2, TookKept
        <4>3. CASE ~JobRuns(p) /\ (JobIs(p, "none", {}, FALSE) \/ JobIs(p, "waiting", {}, FALSE))
          <5>1. Took(p)'
            BY <3>0, <4>1, <4>3 DEF Took, Created, Exists
          <5> QED
            BY <2>0, <4>1, <4>3, <5>1, TookOther DEF JobIs
        <4> QED
          BY <4>1, <4>2, <4>3 DEF JobRuns
      <3> QED
        BY <2>3, <3>1, <3>2, <3>3 DEF DeleteStep
    <2>4. ASSUME NEW r \in Editors, NEW p \in Posts,
                 \/ UpdateStep(r, p)
                 \/ \E kept \in SUBSET post[p].media, new \in {{}, {<<p, r>>}} : FindForUpdate(r, p, kept, new)
          PROVE  \A q \in Posts : Took(q)'
      BY <2>0, <2>4, EditStays, TookKept DEF jobs
    <2>5. ASSUME NEW fs \in mediaJobs, MediaCleanup(fs) PROVE \A q \in Posts : Took(q)'
      BY <2>0, <2>5, FilesView, TookKept DEF jobs
    <2>6. CASE Drain
      BY <2>0, <2>6, DrainView, TookKept DEF jobs
    <2> QED
      BY <2>0, <2>1, <2>2, <2>3, <2>4, <2>5, <2>6 DEF QuietStep
  <1> QED
    BY <1>1, <1>2

LEMMA TookInit == Init => TookInv
  BY DEF Init, TookInv, Took

LEMMA Tooks == Spec => []TookInv
  <1>1. TypeOK /\ StageInv /\ TookInv /\ [Next]_vars => TookInv'
    BY TookStep
  <1> QED
    BY <1>1, TookInit, Stages, PTL DEF Spec

\* However many requests delete a post, its cleanup takes it from the owner's count once, unless something fails
\* (CountedOffOnce): a job that has made the decrement runs until the post is removed, so that no second job is added.
THEOREM CountedOnce == Spec => []CountedOffOnce
  <1>1. TookInv => CountedOffOnce
    BY DEF TookInv, Took, CountedOffOnce
  <1> QED
    BY <1>1, Tooks, PTL

----------------------------------------------------------------------------
(* The counters cover what the posts justify.                              *)

ToCount == {p \in Posts : "counted" \in up[p].pending}
ToContribute == {p \in Posts : "contributions" \in up[p].pending}
ToLog == {p \in Posts : "log" \in up[p].pending}
ToTake == {p \in Posts : "contributions" \in job[p].pending}
Countable == {p \in Posts : post[p].upload = "ready" /\ took[p] = 0}

\* What is still to be written, and what a decrement is still due for.
PostsCovered == counted + Cardinality(ToCount) >= Cardinality(Countable)
LogsCovered == contributions + Cardinality(ToContribute) >= Cardinality(logs) + Cardinality(ToLog) + Cardinality(ToTake)

CoverInv == faults = 0 => PostsCovered /\ LogsCovered

LEMMA Sizes ==
  ASSUME NEW S \in SUBSET Posts
  PROVE  /\ IsFiniteSet(S) /\ Cardinality(S) \in Nat
         /\ \A T \in SUBSET Posts : S \subseteq T => Cardinality(S) <= Cardinality(T)
         /\ \A T \in SUBSET Posts, p \in Posts : S \subseteq T \union {p} => Cardinality(S) <= Cardinality(T) + 1
         /\ \A T \in SUBSET Posts, p \in Posts : p \in T /\ p \notin S /\ S \subseteq T => Cardinality(S) + 1 <= Cardinality(T)
  <1>1. \A T \in SUBSET Posts : IsFiniteSet(T) /\ Cardinality(T) \in Nat
    BY PostsAssumption, FS_Subset, FS_CardinalityType
  <1>2. \A T \in SUBSET Posts : S \subseteq T => Cardinality(S) <= Cardinality(T)
    BY <1>1, FS_Subset
  <1>3. ASSUME NEW T \in SUBSET Posts, NEW p \in Posts, S \subseteq T \union {p}
        PROVE  Cardinality(S) <= Cardinality(T) + 1
    <2>1. IsFiniteSet(T \union {p}) /\ Cardinality(T \union {p}) \in {Cardinality(T), Cardinality(T) + 1}
      BY <1>1, FS_AddElement
    <2>2. Cardinality(S) <= Cardinality(T \union {p})
      BY <1>3, <2>1, FS_Subset
    <2> QED
      BY <1>1, <2>1, <2>2
  <1>4. ASSUME NEW T \in SUBSET Posts, NEW p \in Posts, p \in T, p \notin S, S \subseteq T
        PROVE  Cardinality(S) + 1 <= Cardinality(T)
    <2>1. IsFiniteSet(S \union {p}) /\ Cardinality(S \union {p}) = Cardinality(S) + 1
      BY <1>1, <1>4, FS_AddElement
    <2>2. S \union {p} \subseteq T
      BY <1>4
    <2>3. Cardinality(S \union {p}) <= Cardinality(T)
      BY <1>1, <2>2, FS_Subset
    <2> QED
      BY <2>1, <2>3
  <1> QED
    BY <1>1, <1>2, <1>3, <1>4

LEMMA SizesNow ==
  ASSUME TypeOK
  PROVE  /\ ToCount \in SUBSET Posts /\ ToContribute \in SUBSET Posts /\ ToLog \in SUBSET Posts /\ ToTake \in SUBSET Posts
         /\ Countable \in SUBSET Posts /\ logs \in SUBSET Posts
         /\ Cardinality(ToCount) \in Nat /\ Cardinality(ToContribute) \in Nat /\ Cardinality(ToLog) \in Nat
         /\ Cardinality(ToTake) \in Nat /\ Cardinality(Countable) \in Nat /\ Cardinality(logs) \in Nat
         /\ counted \in Nat /\ contributions \in Nat
  <1>1. /\ ToCount \in SUBSET Posts /\ ToContribute \in SUBSET Posts /\ ToLog \in SUBSET Posts /\ ToTake \in SUBSET Posts
        /\ Countable \in SUBSET Posts /\ logs \in SUBSET Posts /\ counted \in Nat /\ contributions \in Nat
    BY DEF ToCount, ToContribute, ToLog, ToTake, Countable, TypeOK
  <1> QED
    BY <1>1, Sizes

LEMMA SizesThen ==
  ASSUME TypeOK'
  PROVE  /\ ToCount' \in SUBSET Posts /\ ToContribute' \in SUBSET Posts /\ ToLog' \in SUBSET Posts /\ ToTake' \in SUBSET Posts
         /\ Countable' \in SUBSET Posts /\ logs' \in SUBSET Posts
         /\ Cardinality(ToCount') \in Nat /\ Cardinality(ToContribute') \in Nat /\ Cardinality(ToLog') \in Nat
         /\ Cardinality(ToTake') \in Nat /\ Cardinality(Countable') \in Nat /\ Cardinality(logs') \in Nat
         /\ counted' \in Nat /\ contributions' \in Nat
  <1>1. /\ ToCount' \in SUBSET Posts /\ ToContribute' \in SUBSET Posts /\ ToLog' \in SUBSET Posts /\ ToTake' \in SUBSET Posts
        /\ Countable' \in SUBSET Posts /\ logs' \in SUBSET Posts /\ counted' \in Nat /\ contributions' \in Nat
    BY DEF ToCount, ToContribute, ToLog, ToTake, Countable, TypeOK
  <1> QED
    BY <1>1, Sizes

\* Steps that write no counter and make no post ready.
LEMMA CoverKept ==
  ASSUME TypeOK, TypeOK', PostsCovered, LogsCovered, UNCHANGED counters,
         \A q \in Posts : /\ up'[q].pending = up[q].pending
                          /\ "contributions" \in job'[q].pending => "contributions" \in job[q].pending
                          /\ post'[q].upload = "ready" => post[q].upload = "ready"
                          /\ took'[q] = took[q]
  PROVE  PostsCovered' /\ LogsCovered'
  <1>1. ToCount' = ToCount /\ ToContribute' = ToContribute /\ ToLog' = ToLog
    BY DEF ToCount, ToContribute, ToLog
  <1>2. ToTake' \subseteq ToTake /\ Countable' \subseteq Countable
    BY DEF ToTake, Countable
  <1>3. Cardinality(ToTake') <= Cardinality(ToTake) /\ Cardinality(Countable') <= Cardinality(Countable)
    BY <1>2, Sizes, SizesNow, SizesThen
  <1> QED
    BY <1>1, <1>3, SizesNow, SizesThen DEF PostsCovered, LogsCovered, counters

\* A post that becomes ready has its writes before it.
LEMMA CoverReady ==
  ASSUME TypeOK, TypeOK', PostsCovered, LogsCovered, UNCHANGED <<counters, job, took>>, NEW p \in Posts, NEW writes \in Counting,
         up[p].pending = {}, up'[p].pending = writes,
         \A q \in Posts : q # p => up'[q] = up[q] /\ post'[q] = post[q]
  PROVE  PostsCovered' /\ LogsCovered'
  <1>1. "counted" \in writes /\ ("log" \in writes <=> "contributions" \in writes)
    BY DEF Counting, CreateWrite
  <1>2. ToTake' = ToTake
    BY DEF ToTake
  <1>3. p \in ToCount' /\ p \notin ToCount /\ ToCount \subseteq ToCount' /\ Countable' \subseteq Countable \union {p}
    BY <1>1 DEF ToCount, Countable
  <1>4. Cardinality(ToCount) + 1 <= Cardinality(ToCount') /\ Cardinality(Countable') <= Cardinality(Countable) + 1
    BY <1>3, Sizes, SizesNow, SizesThen
  <1>5. PostsCovered'
    BY <1>4, SizesNow, SizesThen DEF PostsCovered, counters
  <1>6. CASE "log" \in writes
    <2>1. /\ p \in ToContribute' /\ p \notin ToContribute /\ ToContribute \subseteq ToContribute'
          /\ ToLog' \subseteq ToLog \union {p}
      BY <1>1, <1>6 DEF ToContribute, ToLog
    <2>2. Cardinality(ToContribute) + 1 <= Cardinality(ToContribute') /\ Cardinality(ToLog') <= Cardinality(ToLog) + 1
      BY <2>1, Sizes, SizesNow, SizesThen
    <2> QED
      BY <1>2, <1>5, <2>2, SizesNow, SizesThen DEF LogsCovered, counters
  <1>7. CASE "log" \notin writes
    <2>1. ToContribute' = ToContribute /\ ToLog' = ToLog
      BY <1>1, <1>7 DEF ToContribute, ToLog
    <2> QED
      BY <1>2, <1>5, <2>1, SizesNow, SizesThen DEF LogsCovered, counters
  <1> QED
    BY <1>6, <1>7

\* One write of completePostCreation.
LEMMA CoverWrite ==
  ASSUME TypeOK, TypeOK', PostsCovered, LogsCovered, NEW p \in Posts, NEW w \in CreateWrite, CountWrite(p, w)
  PROVE  PostsCovered' /\ LogsCovered'
  <1>1. /\ w \in up[p].pending /\ UNCHANGED <<post, job, took>>
        /\ counted' = IF w = "counted" THEN counted + 1 ELSE counted
        /\ logs' = IF w = "log" THEN logs \union {p} ELSE logs
        /\ contributions' = IF w = "contributions" THEN contributions + 1 ELSE contributions
        /\ up'[p].pending = up[p].pending \ {w} /\ \A q \in Posts : q # p => up'[q] = up[q]
    BY CountView DEF jobs, UpIs
  <1>2. Countable' = Countable /\ ToTake' = ToTake
    BY <1>1 DEF Countable, ToTake
  <1>3. CASE w = "counted"
    <2>1. ToContribute' = ToContribute /\ ToLog' = ToLog /\ ToCount \subseteq ToCount' \union {p}
      BY <1>1, <1>3 DEF ToContribute, ToLog, ToCount
    <2>2. Cardinality(ToCount) <= Cardinality(ToCount') + 1
      BY <2>1, Sizes, SizesNow, SizesThen
    <2> QED
      BY <1>1, <1>2, <1>3, <2>1, <2>2, SizesNow, SizesThen DEF PostsCovered, LogsCovered
  <1>4. CASE w = "log"
    <2>1. ToContribute' = ToContribute /\ ToCount' = ToCount
      BY <1>1, <1>4 DEF ToContribute, ToCount
    <2>2. p \in ToLog /\ p \notin ToLog' /\ ToLog' \subseteq ToLog /\ logs' \subseteq logs \union {p}
      BY <1>1, <1>4 DEF ToLog
    <2>3. Cardinality(ToLog') + 1 <= Cardinality(ToLog) /\ Cardinality(logs') <= Cardinality(logs) + 1
      BY <2>2, Sizes, SizesNow, SizesThen
    <2> QED
      BY <1>1, <1>2, <1>4, <2>1, <2>3, SizesNow, SizesThen DEF PostsCovered, LogsCovered
  <1>5. CASE w = "contributions"
    <2>1. ToCount' = ToCount /\ ToLog' = ToLog /\ ToContribute \subseteq ToContribute' \union {p}
      BY <1>1, <1>5 DEF ToContribute, ToLog, ToCount
    <2>2. Cardinality(ToContribute) <= Cardinality(ToContribute') + 1
      BY <2>1, Sizes, SizesNow, SizesThen
    <2> QED
      BY <1>1, <1>2, <1>5, <2>1, <2>2, SizesNow, SizesThen DEF PostsCovered, LogsCovered
  <1> QED
    BY <1>3, <1>4, <1>5 DEF CreateWrite

\* One write of cleanupPost: the post is one that counts, or its log is one that is there.
LEMMA CoverAdjust ==
  ASSUME TypeOK, TypeOK', Stage, \A q \in Posts : Took(q), PostsCovered, LogsCovered, NEW p \in Posts, NEW w \in CleanupWrite,
         AdjustWrite(p, w)
  PROVE  PostsCovered' /\ LogsCovered'
  <1>1. /\ job[p].pc = "adjust" /\ w \in job[p].pending /\ UNCHANGED up
        /\ JobIs(p, "adjust", (job[p].pending \ {w}) \union (IF w = "logs" /\ p \in logs THEN {"contributions"} ELSE {}),
                 job[p].broken)
        /\ PostIs(p, post[p].upload, post[p].deleting, post[p].media)
        /\ counted' = IF w = "counted" THEN Decrement(counted) ELSE counted
        /\ logs' = IF w = "logs" THEN logs \ {p} ELSE logs
        /\ contributions' = IF w = "contributions" THEN Decrement(contributions) ELSE contributions
        /\ took'[p] = (IF w = "counted" THEN took[p] + 1 ELSE took[p]) /\ \A q \in Posts : q # p => took'[q] = took[q]
    BY AdjustView DEF worker
  <1>2. ToCount' = ToCount /\ ToContribute' = ToContribute /\ ToLog' = ToLog
    BY <1>1 DEF ToCount, ToContribute, ToLog
  <1>3. post[p].upload = "ready" /\ Took(p) /\ took[p] \in Nat
    BY <1>1 DEF Stage, JobStage, JobRuns, TypeOK
  <1>4. CASE w = "counted"
    <2>1. took[p] = 0
      BY <1>1, <1>3, <1>4 DEF Took, Exists
    <2>2. p \in Countable /\ p \notin Countable' /\ Countable' \subseteq Countable /\ ToTake' = ToTake
      BY <1>1, <1>3, <1>4, <2>1 DEF Countable, PostIs, ToTake, JobIs
    <2>3. Cardinality(Countable') + 1 <= Cardinality(Countable)
      BY <2>2, Sizes, SizesNow, SizesThen
    <2> QED
      BY <1>1, <1>2, <1>4, <2>2, <2>3, SizesNow, SizesThen DEF PostsCovered, LogsCovered, Decrement
  <1>5. CASE w # "counted"
    <2>1. Countable' = Countable
      BY <1>1, <1>5 DEF Countable, PostIs
    <2>2. PostsCovered'
      BY <1>1, <1>2, <1>5, <2>1 DEF PostsCovered
    <2>3. CASE w = "logs" /\ p \in logs
      <3>1. p \notin logs' /\ logs' \subseteq logs /\ ToTake' \subseteq ToTake \union {p}
        BY <1>1, <2>3 DEF ToTake, JobIs
      <3>2. Cardinality(logs') + 1 <= Cardinality(logs) /\ Cardinality(ToTake') <= Cardinality(ToTake) + 1
        BY <2>3, <3>1, Sizes, SizesNow, SizesThen
      <3> QED
        BY <1>1, <1>2, <2>2, <2>3, <3>2, SizesNow, SizesThen DEF LogsCovered
    <2>4. CASE w = "contributions"
      <3>1. p \in ToTake /\ p \notin ToTake' /\ ToTake' \subseteq ToTake
        BY <1>1, <2>4 DEF ToTake, JobIs
      <3>2. Cardinality(ToTake') + 1 <= Cardinality(ToTake)
        BY <3>1, Sizes, SizesNow, SizesThen
      <3> QED
        BY <1>1, <1>2, <2>2, <2>4, <3>2, SizesNow, SizesThen DEF LogsCovered, Decrement
    <2>5. CASE w # "contributions" /\ ~(w = "logs" /\ p \in logs)
      <3>1. logs' = logs /\ ToTake' = ToTake
        BY <1>1, <2>5 DEF ToTake, JobIs
      <3> QED
        BY <1>1, <1>2, <2>2, <2>5, <3>1, SizesNow DEF LogsCovered
    <2> QED
      BY <2>3, <2>4, <2>5
  <1> QED
    BY <1>4, <1>5

LEMMA CoverStep == TypeOK /\ TypeOK' /\ StageInv /\ TookInv /\ CoverInv /\ [Next]_vars => CoverInv'
  <1> SUFFICES ASSUME TypeOK, TypeOK', StageInv, TookInv, CoverInv, [Next]_vars, faults' = 0
               PROVE  PostsCovered' /\ LogsCovered'
    BY DEF CoverInv
  <1>1. CASE UNCHANGED vars
    BY <1>1, CoverKept DEF vars, CoverInv, counters
  <1>2. CASE Next
    <2>0. Stage /\ QuietStep /\ (\A p \in Posts : Took(p)) /\ PostsCovered /\ LogsCovered
      BY <1>2, QuietNext DEF StageInv, TookInv, CoverInv
    <2>1. ASSUME NEW p \in Posts, NEW F \in SUBSET CreateFiles, CreatePost(p, {p} \X F)
          PROVE  PostsCovered' /\ LogsCovered'
      <3> DEFINE fs == {p} \X F
      <3>1. /\ post[p].upload = "absent" /\ UNCHANGED <<counters, job, took>>
            /\ \/ PostIs(p, "processing", post[p].deleting, post[p].media) /\ UpIs(p, "queued", fs, up[p].done, up[p].pending)
               \/ /\ PostIs(p, "ready", post[p].deleting, post[p].media)
                  /\ \E writes \in Counting : UpIs(p, "count", up[p].todo, up[p].done, writes)
        BY <2>1, CreateView DEF jobs
      <3> HIDE DEF fs
      <3>2. up[p].pending = {}
        BY <2>0, <3>1 DEF Stage, UploadStage, Created
      <3>3. CASE PostIs(p, "processing", post[p].deleting, post[p].media) /\ UpIs(p, "queued", fs, up[p].done, up[p].pending)
        BY <2>0, <3>1, <3>3, CoverKept DEF PostIs, UpIs
      <3>4. ASSUME PostIs(p, "ready", post[p].deleting, post[p].media), NEW writes \in Counting,
                   UpIs(p, "count", up[p].todo, up[p].done, writes)
            PROVE  PostsCovered' /\ LogsCovered'
        BY <2>0, <3>1, <3>2, <3>4, CoverReady DEF PostIs, UpIs
      <3> QED
        BY <3>1, <3>3, <3>4
    <2>2. ASSUME NEW p \in Posts, CreateStep(p) PROVE PostsCovered' /\ LogsCovered'
      <3>0. UploadStage(p)
        BY <2>0 DEF Stage
      <3>1. CASE CompleteUpload(p)
        <4>1. /\ up[p].pc = "upload" /\ UNCHANGED <<counters, job, took>>
              /\ \/ /\ PostIs(p, "ready", post[p].deleting, up[p].done)
                    /\ \E writes \in Counting : UpIs(p, "count", up[p].todo, up[p].done, writes)
                 \/ (\E pc : UpIs(p, pc, up[p].todo, up[p].done, up[p].pending)) /\ UNCHANGED post
          BY <3>1, CompleteView DEF jobs
        <4>2. up[p].pending = {}
          BY <3>0, <4>1 DEF UploadStage
        <4>3. CASE (\E pc : UpIs(p, pc, up[p].todo, up[p].done, up[p].pending)) /\ UNCHANGED post
          BY <2>0, <4>1, <4>3, CoverKept DEF UpIs
        <4>4. ASSUME PostIs(p, "ready", post[p].deleting, up[p].done), NEW writes \in Counting,
                     UpIs(p, "count", up[p].todo, up[p].done, writes)
              PROVE  PostsCovered' /\ LogsCovered'
          BY <2>0, <4>1, <4>2, <4>4, CoverReady DEF PostIs, UpIs
        <4> QED
          BY <4>1, <4>3, <4>4
      <3>2. ASSUME UNCHANGED <<post, counters, jobs>>, \E pc, todo, done : UpIs(p, pc, todo, done, up[p].pending)
            PROVE  PostsCovered' /\ LogsCovered'
        BY <2>0, <3>2, CoverKept DEF UpIs, jobs
      <3>3. CASE DiscardUpload(p) \/ UndoUpload(p)
        BY <3>2, <3>3, UndoView
      <3>4. CASE FailUpload(p)
        <4>1. /\ UNCHANGED <<counters, jobs>> /\ UpIs(p, "idle", {}, {}, up[p].pending) /\ up[p].pc = "fail"
              /\ PostIs(p, "failed", post[p].deleting, post[p].media) \/ UNCHANGED post
          BY <3>4, FailView
        <4>2. \A q \in Posts : post'[q] = post[q] \/ post'[q].upload = "failed"
          BY <4>1 DEF PostIs
        <4> QED
          BY <2>0, <4>1, <4>2, CoverKept DEF UpIs, jobs
      <3>5. ASSUME NEW f \in Files, UploadFile(p, f) PROVE PostsCovered' /\ LogsCovered'
        BY <3>2, <3>5, UploadView
      <3> QED
        BY <2>2, <3>1, <3>3, <3>4, <3>5 DEF CreateStep
    <2>3. ASSUME NEW p \in Posts, CountStep(p) PROVE PostsCovered' /\ LogsCovered'
      BY <2>0, <2>3, CoverWrite DEF CountStep
    <2>4. ASSUME NEW p \in Posts, CleanupStep(p) PROVE PostsCovered' /\ LogsCovered'
      <3>0. JobStage(p)
        BY <2>0 DEF Stage
      <3>1. ASSUME UNCHANGED <<counters, worker, took>>, \E pc, pending, broken : JobIs(p, pc, pending, broken),
                   "contributions" \notin job'[p].pending \/ job'[p].pending = job[p].pending,
                   \A q \in Posts : post'[q] = post[q] \/ post'[q].upload = "removed"
            PROVE  PostsCovered' /\ LogsCovered'
        BY <2>0, <3>1, CoverKept DEF JobIs, worker
      <3>2. CASE ReadPost(p)
        <4>1. \/ JobIs(p, "adjust", {"logs"} \union (IF post[p].adjusted THEN {} ELSE {"counted", "adjusted"}), job[p].broken)
              \/ JobIs(p, "none", {}, FALSE)
          BY <3>2, ReadView
        <4>2. "contributions" \notin job'[p].pending
          BY <4>1 DEF JobIs
        <4>3. UNCHANGED <<post, counters, worker, took>>
          BY <3>2, ReadView
        <4> QED
          BY <3>1, <4>1, <4>2, <4>3
      <3>3. CASE AdjustDone(p)
        <4>1. JobIs(p, "media", {}, job[p].broken) /\ UNCHANGED <<post, counters, worker, took>>
          BY <3>0, <3>3, DoneView DEF JobStage
        <4>2. "contributions" \notin job'[p].pending
          BY <4>1 DEF JobIs
        <4> QED
          BY <3>1, <4>1, <4>2
      <3>4. CASE DeleteMedia(p)
        <4>1. JobIs(p, "remove", job[p].pending, job[p].broken) /\ UNCHANGED <<post, counters, worker, took>>
          BY <3>4, MediaView
        <4>2. job'[p].pending = job[p].pending
          BY <4>1 DEF JobIs
        <4> QED
          BY <3>1, <4>1, <4>2
      <3>5. CASE RemovePost(p)
        <4>1. JobIs(p, "none", {}, FALSE) /\ PostIs(p, "removed", FALSE, {}) /\ UNCHANGED <<counters, worker, took>>
          BY <3>5, RemoveView
        <4>2. "contributions" \notin job'[p].pending /\ \A q \in Posts : post'[q] = post[q] \/ post'[q].upload = "removed"
          BY <4>1 DEF JobIs, PostIs
        <4> QED
          BY <3>1, <4>1, <4>2
      <3>6. ASSUME NEW w \in CleanupWrite, AdjustWrite(p, w) PROVE PostsCovered' /\ LogsCovered'
        BY <2>0, <3>6, CoverAdjust
      <3> QED
        BY <2>4, <3>2, <3>3, <3>4, <3>5, <3>6 DEF CleanupStep
    <2>5. ASSUME UNCHANGED <<counters, took>>, \A q \in Posts : up'[q].pending = up[q].pending,
                 \A q \in Posts : job'[q] = job[q] \/ "contributions" \notin job'[q].pending,
                 \A q \in Posts : post'[q].upload = post[q].upload
          PROVE  PostsCovered' /\ LogsCovered'
      BY <2>0, <2>5, CoverKept
    <2>6. ASSUME NEW r \in Deleters, NEW p \in Posts, FindPost(r, p) \/ DeleteStep(r, p)
          PROVE  PostsCovered' /\ LogsCovered'
      <3>0. r \in Requests
        BY DEF Requests
      <3>1. CASE FindPost(r, p)
        BY <2>5, <3>1 DEF FindPost, worker, jobs
      <3>2. CASE MarkDeleting(r, p)
        <4>1. UNCHANGED <<counters, worker, jobs>> /\ \A q \in Posts : post'[q].upload = post[q].upload
          BY <3>0, <3>2, MarkView DEF PostIs
        <4> QED
          BY <2>5, <4>1 DEF worker, jobs
      <3>3. CASE LookupJob(r, p) \/ DropJob(r, p) \/ AddJob(r, p)
        <4>1. /\ UNCHANGED <<post, counters, worker, took>>
              /\ \/ UNCHANGED job
                 \/ JobIs(p, "none", {}, FALSE)
                 \/ JobIs(p, "waiting", {}, FALSE)
          BY <3>0, <3>3, JobRequestView
        <4> QED
          BY <2>5, <4>1 DEF worker, JobIs
      <3> QED
        BY <2>6, <3>1, <3>2, <3>3 DEF DeleteStep
    <2>7. ASSUME NEW r \in Editors, NEW p \in Posts,
                 \/ UpdateStep(r, p)
                 \/ \E kept \in SUBSET post[p].media, new \in {{}, {<<p, r>>}} : FindForUpdate(r, p, kept, new)
          PROVE  PostsCovered' /\ LogsCovered'
      BY <2>5, <2>7, EditStays DEF worker, jobs
    <2>8. ASSUME NEW fs \in mediaJobs, MediaCleanup(fs) PROVE PostsCovered' /\ LogsCovered'
      BY <2>5, <2>8, FilesView DEF worker, jobs
    <2>9. CASE Drain
      <3>1. UNCHANGED <<post, counters, job, took>> /\ \A q \in Posts : up'[q].pending = up[q].pending
        BY <2>9, DrainView DEF jobs, UpIs
      <3> QED
        BY <2>5, <3>1
    <2> QED
      BY <2>0, <2>1, <2>2, <2>3, <2>4, <2>6, <2>7, <2>8, <2>9 DEF QuietStep
  <1> QED
    BY <1>1, <1>2

LEMMA CoverInit == Init => CoverInv
  <1> SUFFICES ASSUME Init PROVE PostsCovered /\ LogsCovered
    BY DEF CoverInv
  <1>1. ToCount = {} /\ ToContribute = {} /\ ToLog = {} /\ ToTake = {} /\ Countable = {} /\ logs = {}
    BY DEF Init, NoPost, NoCreation, NoJob, ToCount, ToContribute, ToLog, ToTake, Countable
  <1>2. counted = 0 /\ contributions = 0 /\ Cardinality({}) = 0
    BY FS_EmptySet DEF Init
  <1> QED
    BY <1>1, <1>2 DEF PostsCovered, LogsCovered

\* Once nothing is under way, the owner's counters are at least what the posts justify (CountersCover): a post that
\* counts is counted or its write is still to come, and a decrement is made for a post or a log that counted.
THEOREM CountersAreCovered == Spec => []CountersCover
  <1>1. Init => CoverInv
    BY CoverInit
  <1>2. TypeOK /\ TypeOK' /\ StageInv /\ TookInv /\ CoverInv /\ [Next]_vars => CoverInv'
    BY CoverStep
  <1>3. TypeOK /\ TookInv /\ CoverInv => CountersCover
    <2> SUFFICES ASSUME TypeOK, TookInv, CoverInv, Settled, faults = 0
                 PROVE  counted >= Cardinality({p \in Posts : Visible(p)}) /\ contributions >= Cardinality(logs)
      BY DEF CountersCover
    <2>1. \A p \in Posts : up[p].pending = {} /\ job[p].pc = "none" /\ Took(p) /\ took[p] \in Nat
      BY DEF Settled, NoCreation, TookInv, TypeOK
    <2>2. ToCount = {} /\ ToContribute = {} /\ ToLog = {}
      BY <2>1 DEF ToCount, ToContribute, ToLog
    <2>3. {p \in Posts : Visible(p)} \subseteq Countable
      BY <2>1 DEF Visible, Countable, Took, Exists, JobRuns
    <2>4. Cardinality({p \in Posts : Visible(p)}) <= Cardinality(Countable) /\ Cardinality({p \in Posts : Visible(p)}) \in Nat
      BY <2>3, Sizes, SizesNow
    <2>5. Cardinality({}) = 0
      BY FS_EmptySet
    <2> QED
      BY <2>2, <2>4, <2>5, SizesNow DEF CoverInv, PostsCovered, LogsCovered
  <1> QED
    BY <1>1, <1>2, <1>3, Stages, Tooks, PTL DEF Spec

----------------------------------------------------------------------------
(* Files: what posts, uploads, edits and media-cleanup jobs hold.          *)

Of(p) == {f \in Files : f[1] = p}

\* The files that waiting media-cleanup jobs are about to delete.
Due == UNION mediaJobs

UploadTags(p) == post[p].media \subseteq Of(p) /\ up[p].todo \subseteq Of(p) /\ up[p].done \subseteq Of(p)

EditTags(r, p) ==
    req[r].target = {p} => req[r].seen \subseteq Of(p) /\ req[r].next \subseteq Of(p) /\ req[r].new \subseteq Of(p)

Tags ==
    /\ \A p \in Posts : UploadTags(p)
    /\ \A r \in Editors, p \in Posts : EditTags(r, p)

TagInv == faults = 0 => Tags

LEMMA TagsKept ==
  ASSUME Tags, NEW p \in Posts, UploadTags(p)',
         \A q \in Posts : q # p => post'[q].media = post[q].media /\ up'[q] = up[q],
         \A r \in Editors, q \in Posts : req'[r] = req[r] \/ EditTags(r, q)'
  PROVE  Tags'
  <1>1. \A q \in Posts : UploadTags(q)'
    BY DEF Tags, UploadTags, Of
  <1>2. \A r \in Editors, q \in Posts : EditTags(r, q)'
    BY DEF Tags, EditTags, Of
  <1> QED
    BY <1>1, <1>2 DEF Tags

LEMMA TagsSame ==
  ASSUME Tags, \A q \in Posts : post'[q].media = post[q].media \/ post'[q].media = {}, UNCHANGED <<up, req>>
  PROVE  Tags'
  BY DEF Tags, UploadTags, EditTags, Of

LEMMA TagStep == TypeOK /\ StageInv /\ TagInv /\ [Next]_vars => TagInv'
  <1> SUFFICES ASSUME TypeOK, StageInv, TagInv, [Next]_vars, faults' = 0 PROVE Tags'
    BY DEF TagInv
  <1>1. CASE UNCHANGED vars
    BY <1>1, TagsSame DEF vars, TagInv
  <1>2. CASE Next
    <2>0. Stage /\ QuietStep /\ Tags
      BY <1>2, QuietNext DEF StageInv, TagInv
    <2>1. ASSUME NEW p \in Posts, NEW F \in SUBSET CreateFiles, CreatePost(p, {p} \X F)
          PROVE  Tags'
      <3> DEFINE fs == {p} \X F
      <3>0. fs \subseteq Of(p)
        BY DEF Of, Files
      <3>1. /\ \/ PostIs(p, "processing", post[p].deleting, post[p].media) /\ UpIs(p, "queued", fs, up[p].done, up[p].pending)
               \/ /\ PostIs(p, "ready", post[p].deleting, post[p].media)
                  /\ \E writes \in Counting : UpIs(p, "count", up[p].todo, up[p].done, writes)
            /\ UNCHANGED req
        BY <2>1, CreateView
      <3> HIDE DEF fs
      <3>2. UploadTags(p)'
        BY <2>0, <3>0, <3>1 DEF Tags, UploadTags, UpIs, PostIs, Of
      <3> QED
        BY <2>0, <3>1, <3>2, TagsKept DEF UpIs, PostIs
    <2>2. ASSUME NEW p \in Posts, CreateStep(p) \/ CountStep(p) PROVE Tags'
      <3>0. UploadTags(p) /\ UploadStage(p)
        BY <2>0 DEF Tags, Stage
      <3>1. ASSUME UNCHANGED <<post, req>>, NEW pc, NEW todo, NEW done, NEW pending, UpIs(p, pc, todo, done, pending),
                   todo \subseteq Of(p), done \subseteq Of(p)
            PROVE  Tags'
        <4>1. UploadTags(p)'
          BY <3>0, <3>1 DEF UploadTags, UpIs, Of
        <4> QED
          BY <2>0, <3>1, <4>1, TagsKept DEF UpIs
      <3>2. CASE CompleteUpload(p)
        <4>1. /\ UNCHANGED req /\ \E pc, pending : UpIs(p, pc, up[p].todo, up[p].done, pending)
              /\ PostIs(p, "ready", post[p].deleting, up[p].done) \/ UNCHANGED post
          BY <3>2, CompleteView
        <4>2. UploadTags(p)'
          BY <3>0, <4>1 DEF UploadTags, UpIs, PostIs, Of
        <4> QED
          BY <2>0, <4>1, <4>2, TagsKept DEF UpIs, PostIs
      <3>3. CASE DiscardUpload(p) \/ UndoUpload(p)
        BY <3>0, <3>1, <3>3, UndoView DEF UploadTags
      <3>4. CASE FailUpload(p)
        <4>1. /\ UNCHANGED req /\ UpIs(p, "idle", {}, {}, up[p].pending)
              /\ PostIs(p, "failed", post[p].deleting, post[p].media) \/ UNCHANGED post
          BY <3>4, FailView
        <4>2. UploadTags(p)'
          BY <3>0, <4>1 DEF UploadTags, UpIs, PostIs, Of
        <4> QED
          BY <2>0, <4>1, <4>2, TagsKept DEF UpIs, PostIs
      <3>5. ASSUME NEW f \in Files, UploadFile(p, f) PROVE Tags'
        <4>1. f \in up[p].todo /\ UpIs(p, "upload", up[p].todo \ {f}, up[p].done \union {f}, up[p].pending) /\ UNCHANGED <<post, req>>
          BY <3>5, UploadView
        <4> QED
          BY <3>0, <3>1, <4>1 DEF UploadTags
      <3>6. ASSUME NEW w \in CreateWrite, CountWrite(p, w) PROVE Tags'
        <4>1. /\ UNCHANGED <<post, req>>
              /\ \/ UpIs(p, "idle", {}, {}, {})
                 \/ UpIs(p, up[p].pc, up[p].todo, up[p].done, up[p].pending \ {w})
          BY <3>6, CountView
        <4> QED
          BY <3>0, <3>1, <4>1 DEF UploadTags
      <3> QED
        BY <2>2, <3>2, <3>3, <3>4, <3>5, <3>6 DEF CreateStep, CountStep
    <2>3. ASSUME NEW p \in Posts, CleanupStep(p) PROVE Tags'
      <3>1. UNCHANGED <<up, req>>
        BY <2>3 DEF CleanupStep, ReadPost, AdjustDone, DeleteMedia, RemovePost, AdjustWrite, worker
      <3>2. CASE RemovePost(p)
        BY <2>0, <3>1, <3>2, RemoveView, TagsSame DEF PostIs
      <3>3. ASSUME NEW w \in CleanupWrite, AdjustWrite(p, w) PROVE \A q \in Posts : post'[q].media = post[q].media
        BY <3>3, AdjustView DEF PostIs
      <3>4. ASSUME ReadPost(p) \/ AdjustDone(p) \/ DeleteMedia(p) PROVE UNCHANGED post
        BY <3>4 DEF ReadPost, AdjustDone, DeleteMedia
      <3> QED
        BY <2>0, <2>3, <3>1, <3>2, <3>3, <3>4, TagsSame DEF CleanupStep
    <2>4. ASSUME NEW r \in Deleters, NEW p \in Posts, FindPost(r, p) \/ DeleteStep(r, p)
          PROVE  Tags'
      <3>0. r \in Requests /\ r \notin Editors /\ Editors \subseteq Requests
        BY RequestsAssumption DEF Requests
      <3>1. UNCHANGED up /\ \A q \in Requests : q # r => req'[q] = req[q]
        BY <2>4, <3>0, FindView, MarkView, JobRequestView DEF DeleteStep, worker, ReqIs, Ends
      <3>2. \A q \in Posts : post'[q].media = post[q].media
        BY <2>4, <3>0, FindView, MarkView, JobRequestView DEF DeleteStep, PostIs
      <3>3. UploadTags(p)'
        BY <2>0, <3>1, <3>2 DEF Tags, UploadTags, Of
      <3>4. \A e \in Editors : req'[e] = req[e]
        BY <3>0, <3>1
      <3> QED
        BY <2>0, <3>1, <3>2, <3>3, <3>4, TagsKept
    <2>5. ASSUME NEW r \in Editors, NEW p \in Posts, UpdateStep(r, p) PROVE Tags'
      <3>0. r \in Requests /\ UploadTags(p) /\ EditTags(r, p) /\ req[r].target = {p} /\ UNCHANGED up
        BY <2>0, <2>5, EditStays DEF Requests, Tags, UpdateStep, UploadForUpdate, UpdatePost, RejectUpdate, UndoUpdate,
                                     ReplaceMedia, Serving, worker
      <3>1. ASSUME (\E pc : ReqIs(r, pc)) \/ Ends(r) PROVE \A q \in Posts : EditTags(r, q)'
        BY <3>0, <3>1 DEF EditTags, ReqIs, Ends, NoRequest, Of
      <3>2. CASE UploadForUpdate(r, p) \/ UndoUpdate(r, p) \/ ReplaceMedia(r, p)
        <4>1. UNCHANGED post /\ (ReqIs(r, "update") \/ Ends(r))
          BY <3>0, <3>2, UploadEditView, EndEditView
        <4>2. UploadTags(p)'
          BY <3>0, <4>1 DEF UploadTags, Of
        <4> QED
          BY <2>0, <3>0, <3>1, <4>1, <4>2, TagsKept DEF ReqIs, Ends, Requests
      <3>3. CASE UpdatePost(r, p) \/ RejectUpdate(r, p)
        <4>1. /\ PostIs(p, post[p].upload, post[p].deleting, req[r].next) \/ UNCHANGED post
              /\ \E pc : ReqIs(r, pc)
          BY <3>0, <3>3, UpdateView
        <4>2. UploadTags(p)'
          BY <3>0, <4>1 DEF UploadTags, EditTags, PostIs, Of
        <4> QED
          BY <2>0, <3>0, <3>1, <4>1, <4>2, TagsKept DEF ReqIs, PostIs, Requests
      <3> QED
        BY <2>5, <3>2, <3>3 DEF UpdateStep
    <2>6. ASSUME NEW r \in Editors, NEW p \in Posts, NEW kept \in SUBSET post[p].media, NEW new \in {{}, {<<p, r>>}},
                 FindForUpdate(r, p, kept, new)
          PROVE  Tags'
      <3>0. r \in Requests /\ new \subseteq Of(p) /\ UploadTags(p)
        BY <2>0 DEF Requests, Of, Files, Tags
      <3>1. /\ req'[r].target = {p} /\ req'[r].seen = post[p].media /\ req'[r].next = kept \union new /\ req'[r].new = new
            /\ (\A q \in Requests : q # r => req'[q] = req[q]) /\ UNCHANGED <<post, up>>
        BY <2>6, <3>0, EditView DEF worker
      <3>2. UploadTags(p)' /\ \A q \in Posts : EditTags(r, q)'
        BY <3>0, <3>1 DEF UploadTags, EditTags, Of
      <3> QED
        BY <2>0, <3>1, <3>2, TagsKept DEF Requests
    <2>7. ASSUME NEW fs \in mediaJobs, MediaCleanup(fs) PROVE Tags'
      BY <2>0, <2>7, FilesView, TagsSame DEF worker
    <2>8. CASE Drain
      <3>1. PICK p \in Posts : UpIs(p, "upload", up[p].todo, up[p].done, up[p].pending) /\ UNCHANGED <<post, req>>
        BY <2>8, DrainView
      <3>2. UploadTags(p)'
        BY <2>0, <3>1 DEF Tags, UploadTags, UpIs, Of
      <3> QED
        BY <2>0, <3>1, <3>2, TagsKept DEF UpIs
    <2> QED
      BY <2>0, <2>1, <2>2, <2>3, <2>4, <2>5, <2>6, <2>7, <2>8 DEF QuietStep
  <1> QED
    BY <1>1, <1>2

LEMMA TagInit == Init => TagInv
  <1> SUFFICES ASSUME Init PROVE Tags
    BY DEF TagInv
  <1>1. \A p \in Posts : UploadTags(p)
    BY DEF Init, UploadTags, NoPost, NoCreation
  <1>2. \A r \in Editors, p \in Posts : EditTags(r, p)
    BY DEF Init, EditTags, NoRequest, Requests
  <1> QED
    BY <1>1, <1>2 DEF Tags

LEMMA Tagged == Spec => []TagInv
  <1>1. TypeOK /\ StageInv /\ TagInv /\ [Next]_vars => TagInv'
    BY TagStep
  <1> QED
    BY <1>1, TagInit, Stages, PTL DEF Spec

\* A request is between the read of the post and the end of its writes.
Edits(e, p) == req[e].pc # "idle" /\ req[e].target = {p}

\* No two edits of one post at a time.
OneEditOfAPost == \A p \in Posts : \A d, e \in Editors : Edits(d, p) /\ Edits(e, p) => d = e

\* The media of a visible post are stored and stay; so are the files of an upload that goes on; a post that its
\* job is about to remove has none left.
Shown(p) ==
    /\ Visible(p) => post[p].media \subseteq stored /\ post[p].media \intersect Due = {}
    /\ post[p].upload \in {"absent", "processing"} /\ ~post[p].deleting /\ up[p].pc \notin {"undo", "fail"}
         => up[p].done \subseteq stored /\ Of(p) \intersect Due = {}
    /\ job[p].pc = "remove" => post[p].media \intersect stored = {}

\* An edit replaces the media it has read, and the files it deletes are of no use to its post.
Edited(e, p) ==
    Edits(e, p) =>
        /\ req[e].new \subseteq req[e].next
        /\ req[e].pc \in {"upload", "update"} /\ Visible(p) =>
             /\ req[e].seen = post[p].media /\ req[e].next \subseteq req[e].seen \union req[e].new
             /\ req[e].new \intersect Due = {}
        /\ req[e].pc = "update" /\ Visible(p) => req[e].new \subseteq stored
        /\ req[e].pc \in {"upload", "update", "undo"} => req[e].new \intersect post[p].media = {}
        /\ req[e].pc = "replace" => RemovedMedia(e) \intersect post[p].media = {}

\* Somebody knows of the file.
Kept(f) ==
    \/ f \in post[f[1]].media
    \/ f \in Due
    \/ up[f[1]].pc \in {"upload", "discard", "undo"} /\ f \in up[f[1]].done
    \/ \E e \in Editors : req[e].pc \in {"update", "undo"} /\ f \in req[e].new
    \/ \E e \in Editors : req[e].pc = "replace" /\ f \in RemovedMedia(e)

Filing ==
    /\ \A p \in Posts : Shown(p)
    /\ \A e \in Editors, p \in Posts : Edited(e, p)
    /\ \A f \in Files : f \in stored => Kept(f)

FileInv == faults = 0 => Filing

LEMMA DueAdds ==
  ASSUME NEW fs, Enqueues(fs)
  PROVE  Due' = Due \union fs /\ stored' = stored
  BY DEF Enqueues, Due

LEMMA DueDeletes ==
  ASSUME NEW fs \in mediaJobs, mediaJobs' = mediaJobs \ {fs}
  PROVE  Due' \subseteq Due /\ Due \subseteq Due' \union fs /\ fs \subseteq Due
  BY DEF Due

\* Steps that change no file, no media and no edit, and make nothing visible.
LEMMA FilingSame ==
  ASSUME Filing, UNCHANGED files, \A e \in Editors : req'[e] = req[e],
         \A q \in Posts : /\ post'[q].upload = post[q].upload /\ post'[q].media = post[q].media
                          /\ post'[q].deleting = post[q].deleting \/ post'[q].deleting = TRUE
                          /\ job'[q].pc = "remove" => job[q].pc = "remove"
                          /\ up'[q].done \subseteq up[q].done
                          /\ up[q].pc \in {"upload", "discard", "undo", "fail"} => up'[q] = up[q]
  PROVE  Filing'
  <1>1. stored' = stored /\ Due' = Due
    BY DEF files, Due
  <1>2. \A q \in Posts : Visible(q)' => Visible(q)
    BY DEF Visible
  <1>3. \A q \in Posts : Shown(q)'
    BY <1>1, <1>2 DEF Filing, Shown
  <1>4. \A e \in Editors, q \in Posts : Edited(e, q)'
    BY <1>1, <1>2 DEF Filing, Edited, Edits, RemovedMedia
  <1>5. \A f \in Files : f \in stored' => Kept(f)'
    BY <1>1 DEF Filing, Kept, Files, RemovedMedia
  <1> QED
    BY <1>3, <1>4, <1>5 DEF Filing

\* A step about one post only has to see to that post, its edits and its files.
LEMMA Elsewhere ==
  ASSUME Tags, Filing, NEW p \in Posts,
         \A q \in Posts : q # p => post'[q] = post[q] /\ up'[q] = up[q] /\ job'[q] = job[q],
         \A f \in Files : f[1] # p => (f \in stored' <=> f \in stored) /\ (f \in Due' <=> f \in Due),
         \A e \in Editors : \/ req'[e] = req[e]
                            \/ /\ req[e].pc = "idle" \/ req[e].target = {p}
                               /\ req'[e].pc = "idle" \/ req'[e].target = {p},
         Shown(p)', \A e \in Editors : Edited(e, p)',
         \A f \in Of(p) : f \in stored' => Kept(f)'
  PROVE  Filing'
  <1>1. ASSUME NEW q \in Posts, q # p PROVE Shown(q)'
    <2>1. \A f \in Of(q) : f \in Files /\ f[1] # p
      BY <1>1 DEF Of
    <2>2. Shown(q) /\ post[q].media \subseteq Of(q) /\ up[q].done \subseteq Of(q)
      BY DEF Filing, Tags, UploadTags
    <2> QED
      BY <1>1, <2>1, <2>2 DEF Shown, Visible, Of
  <1>2. ASSUME NEW q \in Posts, q # p, NEW e \in Editors PROVE Edited(e, q)'
    <2>1. \A f \in Of(q) : f \in Files /\ f[1] # p
      BY <1>2 DEF Of
    <2>2. CASE req'[e] = req[e]
      <3>1. Edited(e, q) /\ (Edits(e, q) => req[e].new \subseteq Of(q))
        BY DEF Filing, Tags, EditTags, Edits
      <3> QED
        BY <1>2, <2>1, <2>2, <3>1 DEF Edited, Edits, Visible, RemovedMedia
    <2>3. CASE req'[e].pc = "idle" \/ req'[e].target = {p}
      BY <1>2, <2>3 DEF Edited, Edits
    <2> QED
      BY <2>2, <2>3
  <1>3. ASSUME NEW f \in Files, f \in stored' PROVE Kept(f)'
    <2>1. CASE f[1] = p
      BY <1>3, <2>1 DEF Of
    <2>2. CASE f[1] # p
      <3>1. f[1] \in Posts /\ f \notin Of(p) /\ f \in stored /\ Kept(f)
        BY <1>3, <2>2 DEF Files, Of, Filing
      <3>2. ASSUME NEW e \in Editors, req[e].pc # "idle", f \in req[e].new \union req[e].seen
            PROVE  req'[e] = req[e]
        BY <3>1, <3>2 DEF Tags, EditTags
      <3> QED
        BY <2>2, <3>1, <3>2 DEF Kept, RemovedMedia
    <2> QED
      BY <2>1, <2>2
  <1> QED
    BY <1>1, <1>2, <1>3 DEF Filing

LEMMA CreateFiling ==
  ASSUME TypeOK, Stage, Tags, Filing, faults' = 0, NEW p \in Posts,
         (\E F \in SUBSET CreateFiles : CreatePost(p, {p} \X F)) \/ CreateStep(p) \/ CountStep(p)
  PROVE  Filing'
  <1>0. /\ UploadStage(p) /\ JobStage(p) /\ UploadTags(p) /\ Shown(p) /\ \A f \in Files : f \in stored => Kept(f)
        /\ \A e \in Editors : Edits(e, p) => Created(p)
    BY DEF Stage, RequestStage, Edits, Tags, Filing, Requests
  <1>1. ASSUME ~Created(p), UNCHANGED <<req, job>>, Shown(p)', \A q \in Posts : q # p => post'[q] = post[q] /\ up'[q] = up[q],
               \A f \in Files : f[1] # p => (f \in stored' <=> f \in stored) /\ (f \in Due' <=> f \in Due),
               \A f \in Of(p) : f \in stored' => Kept(f)'
        PROVE  Filing'
    <2>1. \A e \in Editors : Edited(e, p)'
      BY <1>0, <1>1 DEF Edited, Edits
    <2> QED
      BY <1>1, <2>1, Elsewhere
  <1>2. ASSUME UNCHANGED <<post, files, jobs, req>>, NEW pc, NEW todo, NEW done, NEW pending, UpIs(p, pc, todo, done, pending),
               done \subseteq up[p].done, up[p].pc \notin {"upload", "discard", "undo", "fail"}
        PROVE  Filing'
    BY <1>2, FilingSame DEF UpIs, jobs
  <1>3. ASSUME NEW F \in SUBSET CreateFiles, CreatePost(p, {p} \X F)
        PROVE  Filing'
    <2> DEFINE fs == {p} \X F
    <2>1. /\ post[p].upload = "absent" /\ UNCHANGED <<files, job, req>>
          /\ \/ PostIs(p, "processing", post[p].deleting, post[p].media) /\ UpIs(p, "queued", fs, up[p].done, up[p].pending)
             \/ /\ PostIs(p, "ready", post[p].deleting, post[p].media)
                /\ \E writes \in Counting : UpIs(p, "count", up[p].todo, up[p].done, writes)
      BY <1>3, CreateView DEF jobs
    <2> HIDE DEF fs
    <2>2. /\ ~Created(p) /\ post[p].media = {} /\ ~post[p].deleting /\ job[p].pc = "none" /\ stored' = stored /\ Due' = Due
          /\ up[p].pc \notin {"upload", "discard", "undo"} /\ up[p].done \subseteq stored /\ Of(p) \intersect Due = {}
      BY <1>0, <2>1 DEF UploadStage, JobStage, Shown, Created, files, Due
    <2>3. Shown(p)'
      BY <2>1, <2>2 DEF Shown, Visible, PostIs, UpIs, Of
    <2>4. \A f \in Of(p) : f \in stored' => Kept(f)'
      BY <1>0, <2>1, <2>2 DEF Kept, Of, RemovedMedia
    <2> QED
      BY <1>1, <2>1, <2>2, <2>3, <2>4 DEF PostIs, UpIs
  <1>4. ASSUME NEW f \in Files, UploadFile(p, f) PROVE Filing'
    <2>1. /\ up[p].pc = "upload" /\ f \in up[p].todo /\ stored' = stored \union {f}
          /\ UpIs(p, "upload", up[p].todo \ {f}, up[p].done \union {f}, up[p].pending)
          /\ UNCHANGED <<post, job, mediaJobs, req>>
      BY <1>4, UploadView DEF jobs
    <2>2. /\ post[p].upload = "processing" /\ ~Created(p) /\ f[1] = p /\ f \in Files /\ Due' = Due
          /\ job[p].pc = "none"
      BY <1>0, <2>1 DEF UploadStage, JobStage, UploadTags, Created, Of, Due
    <2>3. Shown(p)'
      BY <1>0, <2>1, <2>2 DEF Shown, Visible, UpIs, Of
    <2>4. \A g \in Of(p) : g \in stored' => Kept(g)'
      BY <1>0, <2>1, <2>2 DEF Kept, UpIs, Of, RemovedMedia
    <2> QED
      BY <1>1, <2>1, <2>2, <2>3, <2>4 DEF UpIs
  <1>5. CASE CompleteUpload(p)
    <2>1. /\ up[p].pc = "upload" /\ UNCHANGED <<files, job, req>>
          /\ \/ /\ NotDeleting(p) /\ PostIs(p, "ready", post[p].deleting, up[p].done)
                /\ \E writes \in Counting : UpIs(p, "count", up[p].todo, up[p].done, writes)
             \/ /\ UpIs(p, "undo", up[p].todo, up[p].done, up[p].pending) /\ UNCHANGED post
             \/ /\ ~NotDeleting(p) /\ UpIs(p, "discard", up[p].todo, up[p].done, up[p].pending) /\ UNCHANGED post
      BY <1>5, CompleteView DEF jobs
    <2>2. /\ post[p].upload = "processing" /\ ~Created(p) /\ post[p].media = {} /\ stored' = stored /\ Due' = Due
          /\ job[p].pc = "none" /\ up[p].done \subseteq Of(p)
      BY <1>0, <2>1 DEF UploadStage, JobStage, UploadTags, Created, files, Due
    <2>3. NotDeleting(p) => up[p].done \subseteq stored /\ up[p].done \intersect Due = {}
      BY <1>0, <2>1, <2>2 DEF NotDeleting, Shown
    <2>4. Shown(p)'
      BY <2>1, <2>2, <2>3 DEF Shown, Visible, PostIs, UpIs, NotDeleting, Exists
    <2>5. \A f \in Of(p) : f \in stored' => Kept(f)'
      BY <1>0, <2>1, <2>2 DEF Kept, PostIs, UpIs, Of, RemovedMedia
    <2> QED
      BY <1>1, <2>1, <2>2, <2>4, <2>5 DEF PostIs, UpIs
  <1>6. CASE DiscardUpload(p) \/ UndoUpload(p)
    <2>1. /\ up[p].pc \in {"discard", "undo"} /\ Due' = Due \union up[p].done /\ stored' = stored /\ UNCHANGED <<post, job, req>>
          /\ \E pc \in {"undo", "fail"} : UpIs(p, pc, up[p].todo, up[p].done, up[p].pending)
      BY <1>6, UndoView, DueAdds DEF jobs
    <2>2. /\ post[p].upload = "processing" /\ ~Created(p) /\ job[p].pc = "none" /\ up[p].done \subseteq Of(p)
      BY <1>0, <2>1 DEF UploadStage, JobStage, UploadTags, Created
    <2>3. Shown(p)'
      BY <2>1, <2>2 DEF Shown, Visible, UpIs
    <2>4. \A f \in Of(p) : f \in stored' => Kept(f)'
      BY <1>0, <2>1, <2>2 DEF Kept, UpIs, Of, RemovedMedia
    <2> QED
      BY <1>1, <2>1, <2>2, <2>3, <2>4 DEF UpIs, Of
  <1>7. CASE FailUpload(p)
    <2>1. /\ up[p].pc = "fail" /\ UNCHANGED <<files, job, req>> /\ UpIs(p, "idle", {}, {}, up[p].pending)
          /\ \/ PostIs(p, "failed", post[p].deleting, post[p].media)
             \/ UNCHANGED post /\ ~NotDeleting(p)
      BY <1>7, FailView DEF jobs
    <2>2. /\ post[p].upload = "processing" /\ post[p].media = {} /\ ~Created(p) /\ job[p].pc = "none"
          /\ stored' = stored /\ Due' = Due
      BY <1>0, <2>1 DEF UploadStage, JobStage, Created, files, Due
    <2>3. Shown(p)'
      BY <2>1, <2>2 DEF Shown, Visible, PostIs, UpIs, NotDeleting, Exists
    <2>4. \A f \in Of(p) : f \in stored' => Kept(f)'
      BY <1>0, <2>1, <2>2 DEF Kept, PostIs, UpIs, Of, RemovedMedia
    <2> QED
      BY <1>1, <2>1, <2>2, <2>3, <2>4 DEF PostIs, UpIs
  <1>8. ASSUME NEW w \in CreateWrite, CountWrite(p, w) PROVE Filing'
    <2>1. /\ w \in up[p].pending /\ UNCHANGED <<post, files, jobs, req>>
          /\ \/ UpIs(p, "idle", {}, {}, {})
             \/ UpIs(p, up[p].pc, up[p].todo, up[p].done, up[p].pending \ {w})
      BY <1>8, CountView
    <2>2. up[p].pc = "count"
      BY <1>0, <2>1 DEF UploadStage
    <2> QED
      BY <1>2, <2>1, <2>2
  <1> QED
    BY <1>3, <1>4, <1>5, <1>6, <1>7, <1>8 DEF CreateStep, CountStep

LEMMA DeleteFiling ==
  ASSUME TypeOK, Filing, NEW r \in Deleters, NEW p \in Posts, FindPost(r, p) \/ DeleteStep(r, p)
  PROVE  Filing'
  <1>0. r \in Requests /\ r \notin Editors /\ Editors \subseteq Requests
    BY RequestsAssumption DEF Requests
  <1>1. \A e \in Editors : req'[e] = req[e]
    <2>1. \A q \in Requests : q # r => req'[q] = req[q]
      BY <1>0, FindView, MarkView, JobRequestView DEF DeleteStep, ReqIs, Ends
    <2> QED
      BY <1>0, <2>1
  <1>2. UNCHANGED <<worker, files>>
    BY <1>0, FindView, MarkView, JobRequestView DEF DeleteStep
  <1>3. \A q \in Posts : /\ post'[q].upload = post[q].upload /\ post'[q].media = post[q].media
                         /\ post'[q].deleting = post[q].deleting \/ post'[q].deleting = TRUE
    BY <1>0, FindView, MarkView, JobRequestView DEF DeleteStep, PostIs
  <1>4. \A q \in Posts : job'[q].pc = "remove" => job[q].pc = "remove"
    BY <1>0, FindView, MarkView, JobRequestView DEF DeleteStep, JobIs, jobs
  <1> QED
    BY <1>1, <1>2, <1>3, <1>4, FilingSame DEF worker

LEMMA CleanupFiling ==
  ASSUME TypeOK, Stage, Tags, Filing, faults' = 0, NEW p \in Posts, CleanupStep(p)
  PROVE  Filing'
  <1>0. /\ UploadStage(p) /\ JobStage(p) /\ UploadTags(p) /\ Shown(p) /\ \A f \in Files : f \in stored => Kept(f)
        /\ \A e \in Editors : Edited(e, p)
    BY DEF Stage, Tags, Filing
  <1>1. ASSUME UNCHANGED <<worker, files, req>>, \E pc, pending, broken : pc # "remove" /\ JobIs(p, pc, pending, broken),
               UNCHANGED post \/ PostIs(p, post[p].upload, post[p].deleting, post[p].media)
        PROVE  Filing'
    <2>1. \A q \in Posts : job'[q].pc = "remove" => job[q].pc = "remove"
      BY <1>1 DEF JobIs
    <2>2. \A q \in Posts : post'[q].upload = post[q].upload /\ post'[q].media = post[q].media /\ post'[q].deleting = post[q].deleting
      BY <1>1 DEF PostIs
    <2> QED
      BY <1>1, <2>1, <2>2, FilingSame DEF worker
  <1>2. CASE ReadPost(p)
    BY <1>1, <1>2, ReadView
  <1>3. CASE AdjustDone(p)
    BY <1>0, <1>1, <1>3, DoneView DEF JobStage
  <1>4. ASSUME NEW w \in CleanupWrite, AdjustWrite(p, w) PROVE Filing'
    BY <1>1, <1>4, AdjustView
  <1>5. CASE DeleteMedia(p)
    <2>1. /\ job[p].pc = "media" /\ JobIs(p, "remove", job[p].pending, job[p].broken) /\ stored' = stored \ post[p].media
          /\ UNCHANGED <<post, up, mediaJobs, req>>
      BY <1>5, MediaView DEF worker
    <2>2. post[p].upload = "ready" /\ post[p].deleting /\ Due' = Due /\ post[p].media \subseteq Of(p)
      BY <1>0, <2>1 DEF JobStage, JobRuns, Gone, UploadTags, Due
    <2>3. Shown(p)'
      BY <2>1, <2>2 DEF Shown, Visible, JobIs
    <2>4. \A e \in Editors : Edited(e, p)'
      BY <1>0, <2>1, <2>2 DEF Edited, Edits, Visible, RemovedMedia
    <2>5. \A f \in Of(p) : f \in stored' => Kept(f)'
      BY <1>0, <2>1, <2>2 DEF Kept, Of, RemovedMedia
    <2>6. \A f \in Files : f[1] # p => (f \in stored' <=> f \in stored)
      BY <2>1, <2>2 DEF Of
    <2> QED
      BY <2>1, <2>2, <2>3, <2>4, <2>5, <2>6, Elsewhere DEF JobIs
  <1>6. CASE RemovePost(p)
    <2>1. /\ job[p].pc = "remove" /\ JobIs(p, "none", {}, FALSE) /\ PostIs(p, "removed", FALSE, {})
          /\ UNCHANGED <<up, stored, mediaJobs, req>>
      BY <1>6, RemoveView DEF worker, files
    <2>2. post[p].upload = "ready" /\ Due' = Due /\ post[p].media \intersect stored = {}
      BY <1>0, <2>1 DEF JobStage, JobRuns, Shown, Due
    <2>3. Shown(p)'
      BY <2>1, <2>2 DEF Shown, Visible, JobIs, PostIs
    <2>4. \A e \in Editors : Edited(e, p)'
      BY <1>0, <2>1, <2>2 DEF Edited, Edits, Visible, PostIs, RemovedMedia
    <2>5. \A f \in Of(p) : f \in stored' => Kept(f)'
      BY <1>0, <2>1, <2>2 DEF Kept, Of, RemovedMedia
    <2> QED
      BY <2>1, <2>2, <2>3, <2>4, <2>5, Elsewhere DEF JobIs, PostIs
  <1> QED
    BY <1>2, <1>3, <1>4, <1>5, <1>6 DEF CleanupStep

LEMMA EditFiling ==
  ASSUME TypeOK, Stage, Tags, Filing, OneEditOfAPost, faults' = 0, NEW r \in Editors, NEW p \in Posts,
         \/ UpdateStep(r, p)
         \/ \E kept \in SUBSET post[p].media, new \in {{}, {<<p, r>>}} : FindForUpdate(r, p, kept, new)
  PROVE  Filing'
  <1>0. /\ UploadStage(p) /\ JobStage(p) /\ UploadTags(p) /\ Shown(p) /\ \A f \in Files : f \in stored => Kept(f)
        /\ Edited(r, p) /\ RequestStage(r, p) /\ EditTags(r, p) /\ r \in Requests /\ Editors \subseteq Requests
        /\ \A e \in Editors : Edited(e, p)
    BY DEF Stage, Tags, Filing, Requests
  <1>1. ASSUME Edits(r, p), UNCHANGED <<worker, job>>, Shown(p)', Edited(r, p)', ReqIs(r, "update") \/ ReqIs(r, "undo") \/ ReqIs(r, "replace") \/ Ends(r),
               \A q \in Posts : q # p => post'[q] = post[q],
               \A f \in Files : f[1] # p => (f \in stored' <=> f \in stored) /\ (f \in Due' <=> f \in Due),
               \A f \in Of(p) : f \in stored' => Kept(f)'
        PROVE  Filing'
    <2>1. \A e \in Editors : e # r => req'[e] = req[e] /\ ~Edits(e, p)
      BY <1>0, <1>1 DEF OneEditOfAPost, ReqIs, Ends
    <2>2. \A e \in Editors : Edited(e, p)'
      BY <1>1, <2>1 DEF Edited, Edits
    <2>3. req[r].target = {p} /\ (req'[r].pc = "idle" \/ req'[r].target = {p})
      BY <1>1 DEF Edits, ReqIs, Ends, NoRequest
    <2> QED
      BY <1>1, <2>1, <2>2, <2>3, Elsewhere DEF worker
  <1>2. ASSUME NEW kept \in SUBSET post[p].media, NEW new \in {{}, {<<p, r>>}}, FindForUpdate(r, p, kept, new)
        PROVE  Filing'
    <2>0. /\ req'[r].pc = (IF new = {} THEN "update" ELSE "upload") /\ req'[r].target = {p}
          /\ req'[r].seen = post[p].media /\ req'[r].next = kept \union new /\ req'[r].new = new
          /\ \A q \in Requests : q # r => req'[q] = req[q]
      BY <1>0, <1>2 DEF TypeOK, FindForUpdate
    <2>1. /\ req[r].pc = "idle" /\ Visible(p) /\ (\A f \in new : Fresh(f))
          /\ UNCHANGED <<post, up, stored, mediaJobs, job>>
      BY <1>2 DEF FindForUpdate, worker, files, jobs
    <2>2. Due' = Due /\ new \intersect Due = {} /\ new \intersect post[p].media = {}
      BY <2>1 DEF Due, Fresh
    <2>3. Edited(r, p)'
      BY <2>0, <2>1, <2>2 DEF Edited, Edits, Visible
    <2>4. \A e \in Editors : Edited(e, p)'
      <3>1. ASSUME NEW e \in Editors, e # r PROVE Edited(e, p)'
        <4>1. req'[e] = req[e]
          BY <1>0, <2>0, <3>1
        <4> QED
          BY <1>0, <2>1, <2>2, <4>1 DEF Edited, Edits, Visible, RemovedMedia
      <3> QED
        BY <2>3, <3>1
    <2>5. Shown(p)'
      BY <1>0, <2>1, <2>2 DEF Shown, Visible
    <2>6. \A f \in Of(p) : f \in stored' => Kept(f)'
      <3>1. \A e \in Editors : req[e].pc # "idle" => req'[e] = req[e]
        BY <1>0, <2>0, <2>1
      <3> QED
        BY <1>0, <2>1, <2>2, <3>1 DEF Kept, Of, RemovedMedia
    <2>7. \A e \in Editors : req'[e] = req[e] \/ (req[e].pc = "idle" /\ req'[e].target = {p})
      BY <1>0, <2>0, <2>1
    <2> QED
      BY <2>1, <2>2, <2>4, <2>5, <2>6, <2>7, Elsewhere
  <1>3. CASE UploadForUpdate(r, p)
    <2>1. /\ req[r].pc = "upload" /\ Edits(r, p) /\ stored' = stored \union req[r].new /\ ReqIs(r, "update")
          /\ UNCHANGED <<post, worker, up, mediaJobs, job>>
      BY <1>0, <1>3, UploadEditView DEF Serving, Edits, jobs, worker
    <2>2. Due' = Due /\ req[r].new \subseteq Of(p) /\ req[r].new \intersect post[p].media = {}
      BY <1>0, <2>1 DEF Due, EditTags, Edits, Edited
    <2>3. Shown(p)'
      BY <1>0, <2>1, <2>2 DEF Shown, Visible
    <2>4. Edited(r, p)'
      BY <1>0, <2>1, <2>2 DEF Edited, Edits, Visible, ReqIs
    <2>5. \A f \in Of(p) : f \in stored' => Kept(f)'
      <3>1. \A e \in Editors : req[e].pc \in {"update", "undo", "replace"} => req'[e] = req[e]
        BY <1>0, <2>1 DEF ReqIs
      <3> QED
        BY <1>0, <2>1, <2>2, <3>1 DEF Kept, Of, RemovedMedia, ReqIs
    <2> QED
      BY <1>1, <2>1, <2>2, <2>3, <2>4, <2>5 DEF Of
  <1>4. CASE UpdatePost(r, p) \/ RejectUpdate(r, p)
    <2>1. /\ req[r].pc = "update" /\ Edits(r, p) /\ UNCHANGED <<worker, up, stored, mediaJobs, job>>
          /\ \/ Visible(p) /\ PostIs(p, post[p].upload, post[p].deleting, req[r].next) /\ ReqIs(r, "replace")
             \/ UNCHANGED post /\ ReqIs(r, "undo")
      BY <1>0, <1>4, UpdateView DEF Serving, Edits, files, jobs, worker
    <2>2. Due' = Due /\ req[r].new \subseteq req[r].next
      BY <1>0, <2>1 DEF Due, Edited
    <2>3. \A e \in Editors : e # r => req'[e] = req[e]
      BY <1>0, <2>1 DEF ReqIs
    <2>4. CASE UNCHANGED post /\ ReqIs(r, "undo")
      <3>1. Shown(p)'
        BY <1>0, <2>1, <2>2, <2>4 DEF Shown, Visible
      <3>2. Edited(r, p)'
        BY <1>0, <2>1, <2>2, <2>4 DEF Edited, Edits, ReqIs
      <3>3. \A f \in Of(p) : f \in stored' => Kept(f)'
        BY <1>0, <2>1, <2>2, <2>3, <2>4 DEF Kept, Of, RemovedMedia, ReqIs
      <3> QED
        BY <1>1, <2>1, <2>2, <2>4, <3>1, <3>2, <3>3
    <2>5. CASE Visible(p) /\ PostIs(p, post[p].upload, post[p].deleting, req[r].next) /\ ReqIs(r, "replace")
      <3>1. /\ post[p].upload = "ready" /\ job[p].pc = "none" /\ req[r].seen = post[p].media
            /\ req[r].next \subseteq req[r].seen \union req[r].new /\ req[r].new \subseteq stored /\ req[r].new \intersect Due = {}
            /\ post[p].media \subseteq stored /\ post[p].media \intersect Due = {}
        BY <1>0, <2>1, <2>5 DEF Visible, JobStage, Gone, Edited, Shown
      <3>2. Shown(p)'
        BY <2>1, <2>2, <2>5, <3>1 DEF Shown, PostIs
      <3>3. Edited(r, p)'
        BY <2>1, <2>2, <2>5, <3>1 DEF Edited, Edits, ReqIs, PostIs, RemovedMedia
      <3>4. \A f \in Of(p) : f \in stored' => Kept(f)'
        <4>1. ASSUME NEW f \in Of(p), f \in stored' PROVE Kept(f)'
          <5>1. f \in Files /\ f \in stored /\ Kept(f) /\ f[1] = p
            BY <1>0, <2>1, <4>1 DEF Of
          <5>2. CASE f \in post[p].media
            BY <2>5, <3>1, <5>1, <5>2 DEF Kept, PostIs, ReqIs, RemovedMedia
          <5>3. CASE f \in req[r].new
            BY <2>2, <2>5, <5>1, <5>3 DEF Kept, PostIs
          <5>4. CASE f \notin post[p].media /\ f \notin req[r].new
            BY <2>1, <2>2, <2>3, <5>1, <5>4 DEF Kept, RemovedMedia
          <5> QED
            BY <5>2, <5>3, <5>4
        <4> QED
          BY <4>1
      <3> QED
        BY <1>1, <2>1, <2>2, <2>5, <3>2, <3>3, <3>4 DEF PostIs
    <2> QED
      BY <2>1, <2>4, <2>5
  <1>5. CASE UndoUpdate(r, p) \/ ReplaceMedia(r, p)
    <2>1. PICK fs : /\ (req[r].pc = "undo" /\ fs = req[r].new) \/ (req[r].pc = "replace" /\ fs = RemovedMedia(r))
                    /\ Edits(r, p) /\ Enqueues(fs) /\ Ends(r) /\ UNCHANGED <<post, worker, up, job>>
      BY <1>0, <1>5, EndEditView DEF Serving, Edits, jobs, worker
    <2>2. Due' = Due \union fs /\ stored' = stored
      BY <2>1, DueAdds
    <2>3. fs \subseteq Of(p) /\ fs \intersect post[p].media = {} /\ Created(p)
      BY <1>0, <2>1 DEF EditTags, Edits, Edited, RequestStage, RemovedMedia
    <2>4. Shown(p)'
      BY <1>0, <2>1, <2>2, <2>3 DEF Shown, Visible, Created
    <2>5. Edited(r, p)'
      BY <2>1 DEF Edited, Edits, Ends, NoRequest
    <2>6. \A e \in Editors : e # r => req'[e] = req[e]
      BY <1>0, <2>1 DEF Ends
    <2>7. \A f \in Of(p) : f \in stored' => Kept(f)'
      BY <1>0, <2>1, <2>2, <2>6 DEF Kept, Of, RemovedMedia
    <2> QED
      BY <1>1, <2>1, <2>2, <2>3, <2>4, <2>5, <2>7 DEF Of
  <1> QED
    BY <1>2, <1>3, <1>4, <1>5 DEF UpdateStep

\* A media-cleanup job deletes files no visible post, upload or edit holds.
LEMMA MediaFiling ==
  ASSUME TypeOK, Stage, Tags, Filing, faults' = 0, NEW fs \in mediaJobs, MediaCleanup(fs)
  PROVE  Filing'
  <1>1. stored' = stored \ fs /\ mediaJobs' = mediaJobs \ {fs} /\ UNCHANGED <<post, up, job, req>>
    BY FilesView DEF worker, jobs
  <1>2. Due' \subseteq Due /\ Due \subseteq Due' \union fs /\ fs \subseteq Due
    BY <1>1, DueDeletes
  <1>3. \A q \in Posts : Shown(q)'
    BY <1>1, <1>2 DEF Filing, Shown, Visible, Tags, UploadTags
  <1>4. \A e \in Editors, q \in Posts : Edited(e, q)'
    BY <1>1, <1>2 DEF Filing, Edited, Edits, Visible, RemovedMedia
  <1>5. \A f \in Files : f \in stored' => Kept(f)'
    BY <1>1, <1>2 DEF Filing, Kept, RemovedMedia
  <1> QED
    BY <1>3, <1>4, <1>5 DEF Filing

LEMMA DrainFiling ==
  ASSUME TypeOK, Stage, Filing, Drain
  PROVE  Filing'
  <1>1. PICK p \in Posts : /\ p = Head(queue) /\ queue # <<>> /\ UpIs(p, "upload", up[p].todo, up[p].done, up[p].pending)
                           /\ UNCHANGED <<post, files, job, req>>
    BY DrainView DEF jobs
  <1>2. up[p].pc = "queued"
    <2>1. Len(queue) >= 1 /\ Len(queue) \in Nat /\ p = queue[1]
      BY <1>1 DEF TypeOK
    <2> QED
      BY <2>1 DEF Stage, QueueStage
  <1> QED
    BY <1>1, <1>2, FilingSame DEF UpIs

LEMMA FileStep == TypeOK /\ StageInv /\ TagInv /\ FileInv /\ OneEditOfAPost /\ [Next]_vars => FileInv'
  <1> SUFFICES ASSUME TypeOK, StageInv, TagInv, FileInv, OneEditOfAPost, [Next]_vars, faults' = 0 PROVE Filing'
    BY DEF FileInv
  <1>1. CASE UNCHANGED vars
    <2>1. Filing /\ Editors \subseteq Requests
      BY <1>1 DEF vars, FileInv, Requests
    <2> QED
      BY <1>1, <2>1, FilingSame DEF vars, files
  <1>2. CASE Next
    <2>1. Stage /\ QuietStep /\ Tags /\ Filing
      BY <1>2, QuietNext DEF StageInv, TagInv, FileInv
    <2> QED
      BY <2>1, CreateFiling, DeleteFiling, CleanupFiling, EditFiling, MediaFiling, DrainFiling DEF QuietStep
  <1> QED
    BY <1>1, <1>2

LEMMA FileInit == Init => FileInv
  <1> SUFFICES ASSUME Init PROVE Filing
    BY DEF FileInv
  <1>1. stored = {} /\ Due = {} /\ \A e \in Editors : req[e].pc = "idle"
    BY DEF Init, Due, NoRequest, Requests
  <1>2. \A p \in Posts : post[p].media = {} /\ up[p].done = {}
    BY DEF Init, NoPost, NoCreation
  <1> QED
    BY <1>1, <1>2 DEF Filing, Shown, Edited, Edits

LEMMA Filed == Spec /\ []OneEditOfAPost => []FileInv
  <1>1. TypeOK /\ StageInv /\ TagInv /\ FileInv /\ OneEditOfAPost /\ [Next]_vars => FileInv'
    BY FileStep
  <1> QED
    BY <1>1, FileInit, Stages, Tagged, PTL DEF Spec

\* While no two edits of a post overlap, a post that can be read shows files that are stored and that no waiting
\* media-cleanup job is about to delete (MediaIsKept): what a failed upload, an edit or a cleanup deletes, no post refers to.
THEOREM MediaStays == Spec /\ []OneEditOfAPost => []MediaIsKept
  <1>1. FileInv => MediaIsKept
    BY DEF FileInv, Filing, Shown, MediaIsKept, Due
  <1> QED
    BY <1>1, Filed, PTL

\* While no two edits of a post overlap, every stored file belongs to a post that exists once nothing is under way
\* (NoOrphanFiles): until then its upload, its edit or a media-cleanup job has it.
THEOREM NoFileIsLeft == Spec /\ []OneEditOfAPost => []NoOrphanFiles
  <1>1. TypeOK /\ StageInv /\ FileInv => NoOrphanFiles
    <2> SUFFICES ASSUME TypeOK, StageInv, FileInv, Settled, faults = 0, NEW f \in stored
                 PROVE  \E q \in Posts : Exists(q) /\ f \in post[q].media
      BY DEF NoOrphanFiles
    <2>1. f \in Files /\ f[1] \in Posts /\ Kept(f) /\ UploadStage(f[1]) /\ post[f[1]].upload \in Upload
      BY DEF TypeOK, Files, FileInv, Filing, StageInv, Stage, PostDoc
    <2>2. Due = {} /\ (\A p \in Posts : up[p].pc = "idle") /\ \A e \in Editors : req[e].pc = "idle"
      BY DEF Settled, Due, NoCreation, Requests
    <2>3. f \in post[f[1]].media
      BY <2>1, <2>2 DEF Kept
    <2> QED
      BY <2>1, <2>3 DEF UploadStage, Upload, Exists
  <1> QED
    BY <1>1, Stages, Filed, PTL
=============================================================================
