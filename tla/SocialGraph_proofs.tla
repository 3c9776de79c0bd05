------------------------- MODULE SocialGraph_proofs --------------------------
(***************************************************************************)
(* For any number of users, requests and crashes: a block ends the follows *)
(* between two users, an account that is gone is in none, and the counters *)
(* tell how many follows there are.                                        *)
(***************************************************************************)
EXTENDS SocialGraph, FiniteSetTheorems, WellFoundedInduction, TLAPS

Collections ==
    /\ account \in [Users -> {"active", "inactive", "gone"}]
    /\ follows \in SUBSET Pairs /\ blocks \in SUBSET Pairs /\ late \in SUBSET Pairs
    /\ followers \in [Users -> Int] /\ following \in [Users -> Int]
    /\ extra \in [Pairs -> Nat] /\ notes \in [Pairs -> Nat]
    /\ crashes \in 0 .. MaxCrashes
    /\ stranded \in SUBSET Users

ReqsOK == req \in [Requests -> Request]
JobsOK == job \in [Users -> Job]

LEMMA TypeParts == TypeOK <=> Collections /\ ReqsOK /\ JobsOK
  BY DEF TypeOK, Collections, ReqsOK, JobsOK

LEMMA PairEnds == \A p \in Pairs : p[1] \in Users /\ p[2] \in Users /\ Back(p) \in Pairs
  BY DEF Pairs, Back

LEMMA PairExists == (CHOOSE p \in Pairs : TRUE) \in Pairs
  <1>1. PICK u \in Users, v \in Users : u # v
    BY UsersAssumption
  <1>2. <<u, v>> \in Pairs
    BY <1>1 DEF Pairs
  <1> QED
    BY <1>2

LEMMA NoRequestType == \A pc \in ReqPc : NoRequest(pc) \in Request
  BY PairExists DEF NoRequest, Request, Op

LEMMA NoJobType == \A pc \in JobPc : NoJob(pc) \in Job
  BY DEF NoJob, Job

LEMMA TasksType ==
  ASSUME NEW what \in SUBSET {"doc", "out", "in", "note", "cut"}, NEW pairs \in SUBSET Pairs
  PROVE  Tasks(what, pairs) \in SUBSET Task
  BY DEF Tasks, Task

----------------------------------------------------------------------------
(* How a step changes the requests.                                        *)

LEMMA GotoType ==
  ASSUME ReqsOK, NEW r \in Requests, NEW pc \in ReqPc, Goto(r, pc)
  PROVE  ReqsOK'
  BY DEF ReqsOK, Goto, Request

LEMMA FinishType ==
  ASSUME ReqsOK, NEW r \in Requests, Finish(r)
  PROVE  ReqsOK'
  <1>1. NoRequest("done") \in Request
    BY NoRequestType DEF ReqPc
  <1> QED
    BY <1>1 DEF ReqsOK, Finish

LEMMA LaunchType ==
  ASSUME ReqsOK, NEW r \in Requests, NEW tasks \in SUBSET Task, Launch(r, tasks)
  PROVE  ReqsOK'
  <1>1. req[r] \in Request
    BY DEF ReqsOK
  <1>2. [req[r] EXCEPT !.pc = "tasks", !.tasks = tasks] \in Request
    BY <1>1 DEF Request, ReqPc
  <1> QED
    BY <1>2 DEF ReqsOK, Launch

LEMMA ResumeType ==
  ASSUME ReqsOK, NEW r \in Requests, NEW tasks \in SUBSET Task, NEW found \in SUBSET Pairs,
         NEW failed \in BOOLEAN, Resume(r, tasks, found, failed)
  PROVE  ReqsOK'
  <1>1. NoRequest("done") \in Request
    BY NoRequestType DEF ReqPc
  <1>2. Tasks({"out", "in", "note"}, found) \in SUBSET Task
    BY TasksType
  <1>3. req[r] \in Request
    BY DEF ReqsOK
  <1>4. CASE tasks # {}
    <2>1. [req[r] EXCEPT !.tasks = tasks, !.found = found, !.failed = failed] \in Request
      BY <1>3 DEF Request
    <2> QED
      BY <1>4, <2>1 DEF ReqsOK, Resume
  <1>5. CASE tasks = {} /\ found # {}
    <2>1. [req[r] EXCEPT !.tasks = Tasks({"out", "in", "note"}, found), !.found = {}] \in Request
      BY <1>2, <1>3 DEF Request
    <2> QED
      BY <1>5, <2>1 DEF ReqsOK, Resume
  <1>6. CASE tasks = {} /\ found = {}
    <2>1. [req[r] EXCEPT !.tasks = {}, !.pc = "notify"] \in Request
      BY <1>3 DEF Request, ReqPc
    <2> QED
      BY <1>1, <1>6, <2>1 DEF ReqsOK, Resume
  <1> QED
    BY <1>4, <1>5, <1>6

LEMMA InitType == Init => TypeOK
  <1> SUFFICES ASSUME Init PROVE TypeOK
    OBVIOUS
  <1>1. IsFiniteSet(Pairs)
    <2>1. IsFiniteSet(Users \X Users)
      BY UsersAssumption, FS_Product
    <2> QED
      BY <2>1, FS_Subset DEF Pairs
  <1>2. \A u \in Users : /\ Cardinality(follows \intersect To(u)) \in Int
                         /\ Cardinality(follows \intersect From(u)) \in Int
    <2> TAKE u \in Users
    <2>1. IsFiniteSet(follows \intersect To(u)) /\ IsFiniteSet(follows \intersect From(u))
      BY <1>1, FS_Subset DEF To, From
    <2> QED
      BY <2>1, FS_CardinalityType
  <1>3. NoRequest("idle") \in Request /\ NoJob("none") \in Job
    BY NoRequestType, NoJobType DEF ReqPc, JobPc
  <1>4. ReqsOK /\ JobsOK
    BY <1>3 DEF Init, ReqsOK, JobsOK
  <1>5. followers \in [Users -> Int] /\ following \in [Users -> Int]
    BY <1>2 DEF Init
  <1>6. extra \in [Pairs -> Nat] /\ notes \in [Pairs -> Nat] /\ crashes \in 0 .. MaxCrashes
    BY CrashAssumption DEF Init
  <1>7. Collections
    BY <1>5, <1>6 DEF Init, Collections
  <1> QED
    BY <1>4, <1>7, TypeParts

LEMMA RequestType ==
  ASSUME TypeOK, NEW r \in Requests,
         \/ \E op \in Op, p \in Pairs : Send(r, op, p)
         \/ EnsureUsersCanInteract(r) \/ FindTarget(r) \/ FindExisting(r)
         \/ CreateBlock(r) \/ Remove(r) \/ CheckNote(r) \/ SendNote(r)
         \/ MarkInactive(r) \/ EnqueueUserCleanup(r)
  PROVE  TypeOK'
  <1> USE DEF At, Choose, relations, counters
  <1>0. Collections /\ ReqsOK /\ JobsOK
    BY TypeParts
  <1>p. /\ req[r].pair \in Pairs /\ Back(req[r].pair) \in Pairs
        /\ req[r].pair[1] \in Users /\ req[r].pair[2] \in Users
    BY <1>0, PairEnds DEF ReqsOK, Request
  <1>1. CASE \E op \in Op, p \in Pairs : Send(r, op, p)
    <2>1. PICK op \in Op, p \in Pairs : Send(r, op, p)
      BY <1>1
    <2>2. Entry[op] \in ReqPc
      BY DEF Entry, Op, ReqPc
    <2>3. ReqsOK'
      <3>1. req[r] \in Request
        BY <1>0 DEF ReqsOK
      <3>2. [req[r] EXCEPT !.op = op, !.pair = p, !.pc = Entry[op]] \in Request
        BY <2>2, <3>1 DEF Request
      <3> QED
        BY <1>0, <2>1, <3>2 DEF Send, ReqsOK
    <2> QED
      BY <1>0, <2>1, <2>3, TypeParts DEF Send, Collections, JobsOK, TypeOK, ReqsOK
  <1>2. CASE EnsureUsersCanInteract(r) \/ FindTarget(r) \/ CheckNote(r)
    <2>1. ReqsOK'
      BY <1>0, <1>2, GotoType, FinishType DEF EnsureUsersCanInteract, FindTarget, CheckNote, ReqPc
    <2> QED
      BY <1>0, <1>2, <2>1 DEF EnsureUsersCanInteract, FindTarget, CheckNote, Collections, JobsOK, TypeOK, ReqsOK
  <1>3. CASE FindExisting(r)
    <2>1. Tasks({"doc", "out", "in"}, {req[r].pair}) \in SUBSET Task
      BY <1>p, TasksType
    <2>2. ReqsOK'
      BY <1>0, <1>3, <2>1, GotoType, FinishType, LaunchType DEF FindExisting, ReqPc
    <2> QED
      BY <1>0, <1>3, <2>2 DEF FindExisting, Collections, JobsOK, TypeOK, ReqsOK
  <1>4. CASE CreateBlock(r)
    <2>1. CutBothWays(req[r].pair) \in SUBSET Task
      BY <1>p, TasksType DEF CutBothWays
    <2>2. ReqsOK'
      BY <1>0, <1>4, <2>1, FinishType, LaunchType DEF CreateBlock
    <2> QED
      BY <1>0, <1>p, <1>4, <2>2 DEF CreateBlock, Collections, JobsOK, TypeOK, ReqsOK
  <1>5. CASE Remove(r)
    <2>1. Tasks({"out", "in", "note"}, {req[r].pair}) \in SUBSET Task
      BY <1>p, TasksType
    <2>2. ReqsOK'
      BY <1>0, <1>5, <2>1, FinishType, LaunchType DEF Remove
    <2> QED
      BY <1>0, <1>5, <2>2 DEF Remove, Collections, JobsOK, TypeOK, ReqsOK
  <1>6. CASE SendNote(r)
    <2>1. ReqsOK'
      BY <1>0, <1>6, FinishType DEF SendNote
    <2>2. notes' \in [Pairs -> Nat]
      BY <1>0, <1>p, <1>6 DEF SendNote, Collections
    <2> QED
      BY <1>0, <1>6, <2>1, <2>2 DEF SendNote, Collections, JobsOK, TypeOK, ReqsOK
  <1>7. CASE MarkInactive(r)
    <2>1. ReqsOK'
      BY <1>0, <1>7, GotoType, FinishType DEF MarkInactive, ReqPc
    <2>2. account' \in [Users -> {"active", "inactive", "gone"}]
      BY <1>0, <1>7 DEF MarkInactive, Collections
    <2> QED
      BY <1>0, <1>7, <2>1, <2>2 DEF MarkInactive, Collections, JobsOK, TypeOK, ReqsOK
  <1>8. CASE EnqueueUserCleanup(r)
    <2>1. ReqsOK'
      BY <1>0, <1>8, FinishType DEF EnqueueUserCleanup
    <2>2. JobsOK'
      BY <1>0, <1>8, NoJobType DEF EnqueueUserCleanup, JobsOK, JobPc
    <2> QED
      BY <1>0, <1>8, <2>1, <2>2 DEF EnqueueUserCleanup, Collections, JobsOK, TypeOK, ReqsOK
  <1> QED
    BY <1>1, <1>2, <1>3, <1>4, <1>5, <1>6, <1>7, <1>8

LEMMA TaskType ==
  ASSUME TypeOK, NEW r \in Requests, DoTask(r)
  PROVE  TypeOK'
  <1> USE DEF relations, counters
  <1>0. Collections /\ ReqsOK /\ JobsOK
    BY TypeParts
  <1>1. PICK t \in req[r].tasks : CreateFollow(r, t) \/ CutFollow(r, t) \/ AdjustCounter(r, t) \/ RemoveNote(r, t)
    BY DEF DoTask
  <1>2. /\ req[r].tasks \ {t} \in SUBSET Task /\ req[r].found \in SUBSET Pairs /\ req[r].failed \in BOOLEAN
        /\ t.pair \in Pairs /\ t.pair[1] \in Users /\ t.pair[2] \in Users
    BY <1>0, PairEnds DEF ReqsOK, Request, Task
  <1>3. CASE CreateFollow(r, t)
    <2>1. ReqsOK'
      BY <1>0, <1>2, <1>3, ResumeType DEF CreateFollow
    <2>2. extra' \in [Pairs -> Nat]
      BY <1>0, <1>2, <1>3 DEF CreateFollow, Collections
    <2> QED
      BY <1>0, <1>2, <1>3, <2>1, <2>2 DEF DoTask, CreateFollow, Collections, JobsOK, TypeOK, ReqsOK
  <1>4. CASE CutFollow(r, t)
    <2>1. ReqsOK'
      BY <1>0, <1>2, <1>4, ResumeType DEF CutFollow
    <2> QED
      BY <1>0, <1>4, <2>1 DEF DoTask, CutFollow, Collections, JobsOK, TypeOK, ReqsOK
  <1>5. CASE AdjustCounter(r, t)
    <2>1. ReqsOK'
      BY <1>0, <1>2, <1>5, ResumeType DEF AdjustCounter
    <2>2. Delta(r) \in Int
      BY DEF Delta
    <2>3. followers' \in [Users -> Int] /\ following' \in [Users -> Int]
      BY <1>0, <1>2, <1>5, <2>2 DEF AdjustCounter, Count, Collections
    <2> QED
      BY <1>0, <1>5, <2>1, <2>3 DEF DoTask, AdjustCounter, Collections, JobsOK, TypeOK, ReqsOK
  <1>6. CASE RemoveNote(r, t)
    <2>1. ReqsOK'
      BY <1>0, <1>2, <1>6, ResumeType DEF RemoveNote
    <2>2. notes' \in [Pairs -> Nat]
      BY <1>0, <1>2, <1>6 DEF RemoveNote, TakeOne, Collections
    <2> QED
      BY <1>0, <1>6, <2>1, <2>2 DEF DoTask, RemoveNote, Collections, JobsOK, TypeOK, ReqsOK
  <1> QED
    BY <1>1, <1>3, <1>4, <1>5, <1>6

LEMMA JobType ==
  ASSUME TypeOK, NEW u \in Users, JobStep(u)
  PROVE  TypeOK'
  <1> USE DEF relations, counters
  <1>0. Collections /\ ReqsOK /\ JobsOK /\ job[u] \in Job
    BY TypeParts DEF JobsOK
  <1>1. CASE JobStart(u)
    <2>1. [NoJob("read") EXCEPT !.reads = {"following", "followers"}] \in Job
      BY DEF NoJob, Job, JobPc
    <2>2. JobsOK'
      BY <1>0, <1>1, <2>1 DEF JobStart, JobsOK
    <2> QED
      BY <1>0, <1>1, <2>2 DEF JobStart, Collections, ReqsOK, TypeOK, JobsOK
  <1>2. CASE \E what \in {"following", "followers"} : JobRead(u, what)
    <2>1. PICK what \in {"following", "followers"} : JobRead(u, what)
      BY <1>2
    <2> DEFINE found == job[u].found \union (follows \intersect IF what = "following" THEN From(u) ELSE To(u))
    <2>2. found \in SUBSET Pairs
      BY <1>0 DEF Job, Collections
    <2>3. job[u].reads \ {what} \in SUBSET {"following", "followers"}
      BY <1>0 DEF Job
    <2> DEFINE x == [job[u] EXCEPT !.reads = @ \ {what}, !.found = found,
                                   !.pc = IF job[u].reads = {what} THEN "counts" ELSE @,
                                   !.deletes = IF job[u].reads = {what} THEN {"follows"} ELSE @]
    <2>4. x \in Job
      <3> HIDE DEF found
      <3> QED
        BY <1>0, <2>2, <2>3 DEF Job, JobPc
    <2>a. job' = [job EXCEPT ![u] = x]
      BY <1>0, <2>1 DEF JobRead, JobsOK
    <2>5. JobsOK'
      <3> HIDE DEF x
      <3> QED
        BY <1>0, <2>4, <2>a DEF JobsOK
    <2> QED
      BY <1>0, <2>1, <2>5 DEF JobRead, Collections, ReqsOK, TypeOK, JobsOK
  <1>d. ASSUME NEW found \in SUBSET Pairs, NEW deletes \in SUBSET {"follows", "blocks", "notes"},
               JobDone(u, found, deletes)
        PROVE  JobsOK'
    <2>1. [job[u] EXCEPT !.found = found, !.deletes = deletes] \in Job
      BY <1>0 DEF Job
    <2>2. [NoJob("relations") EXCEPT !.deletes = {"blocks", "notes"}] \in Job /\ NoJob("user") \in Job
      BY DEF NoJob, Job, JobPc
    <2> QED
      BY <1>0, <1>d, <2>1, <2>2 DEF JobDone, JobsOK
  <1>3. CASE \E p \in Pairs : JobCount(u, p)
    <2>1. PICK p \in Pairs : JobCount(u, p)
      BY <1>3
    <2>2. JobsOK'
      <3>1. job[u].found \ {p} \in SUBSET Pairs /\ job[u].deletes \in SUBSET {"follows", "blocks", "notes"}
        BY <1>0 DEF Job
      <3> QED
        BY <1>d, <2>1, <3>1 DEF JobCount
    <2>3. \A n \in Int : Floor(n) \in Int
      BY DEF Floor
    <2>4. followers' \in [Users -> Int] /\ following' \in [Users -> Int]
      BY <1>0, <2>1, <2>3, PairEnds DEF JobCount, Collections
    <2> QED
      BY <1>0, <2>1, <2>2, <2>4 DEF JobCount, Collections, ReqsOK, TypeOK, JobsOK
  <1>4. CASE \E what \in {"follows", "blocks", "notes"} : JobDelete(u, what)
    <2>1. PICK what \in {"follows", "blocks", "notes"} : JobDelete(u, what)
      BY <1>4
    <2>2. JobsOK'
      <3>1. job[u].found \in SUBSET Pairs /\ job[u].deletes \ {what} \in SUBSET {"follows", "blocks", "notes"}
        BY <1>0 DEF Job
      <3> QED
        BY <1>d, <2>1, <3>1 DEF JobDelete
    <2>3. notes' \in [Pairs -> Nat]
      BY <1>0, <2>1 DEF JobDelete, Collections
    <2>4. follows' \in SUBSET Pairs /\ blocks' \in SUBSET Pairs
      BY <1>0, <2>1 DEF JobDelete, Purge, Collections
    <2> QED
      BY <1>0, <2>1, <2>2, <2>3, <2>4 DEF JobDelete, Collections, ReqsOK, TypeOK, JobsOK
  <1>5. CASE JobDeleteUser(u)
    <2>1. JobsOK'
      BY <1>0, <1>5, NoJobType DEF JobDeleteUser, JobsOK, JobPc
    <2>2. account' \in [Users -> {"active", "inactive", "gone"}]
      BY <1>0, <1>5 DEF JobDeleteUser, Collections
    <2> QED
      BY <1>0, <1>5, <2>1, <2>2 DEF JobDeleteUser, Collections, ReqsOK, TypeOK, JobsOK
  <1> QED
    BY <1>1, <1>2, <1>3, <1>4, <1>5 DEF JobStep

LEMMA CrashType ==
  ASSUME TypeOK, Crash
  PROVE  TypeOK'
  <1>0. Collections /\ ReqsOK /\ JobsOK
    BY TypeParts
  <1>1. ReqsOK'
    BY <1>0, NoRequestType DEF Crash, ReqsOK, ReqPc
  <1>2. JobsOK'
    BY <1>0, NoJobType DEF Crash, RestartJob, JobsOK, JobPc
  <1>3. stranded' \in SUBSET Users
    BY <1>0, PairEnds DEF Crash, Collections, ReqsOK, Request
  <1>4. crashes' \in 0 .. MaxCrashes
    BY <1>0, CrashAssumption DEF Crash, Collections
  <1> QED
    BY <1>0, <1>1, <1>2, <1>3, <1>4 DEF Crash, Collections, TypeOK, ReqsOK, JobsOK, relations, counters

LEMMA NextType == TypeOK /\ [Next]_vars => TypeOK'
  <1> SUFFICES ASSUME TypeOK, [Next]_vars PROVE TypeOK'
    OBVIOUS
  <1>1. CASE UNCHANGED vars
    BY <1>1 DEF vars, relations, counters, TypeOK
  <1>2. ASSUME NEW r \in Requests, Step(r) PROVE TypeOK'
    BY <1>2, RequestType, TaskType DEF Step
  <1> QED
    BY <1>1, <1>2, RequestType, JobType, CrashType DEF Next

\* Accounts, relations, counters, requests and jobs keep their types; in particular no
\* notification is counted off that is not there (NotificationService.remove).
THEOREM TypeCorrect == Spec => []TypeOK
  BY InitType, NextType, PTL DEF Spec

----------------------------------------------------------------------------
(* An account that is gone is in no follow.                                *)

\* A follow that was created while its two accounts were active.
Timely == follows \ late

\* A job only exists for a deactivated account, and its purge of the follows lasts:
\* a follow created afterwards finds the account deactivated and is late.
GoneInv ==
    /\ \A r \in Requests : At(r, "enqueue") => account[req[r].pair[1]] # "active"
    /\ \A u \in Users :
        /\ job[u].pc # "none" => account[u] # "active"
        /\ \/ account[u] = "gone"
           \/ job[u].pc \in {"relations", "user"}
           \/ job[u].pc = "counts" /\ "follows" \notin job[u].deletes
           => Timely \intersect Touching(u) = {}

LEMMA GoneSuffices == TypeOK /\ GoneInv => GoneLeavesNoFollows
  <1> SUFFICES ASSUME TypeOK, GoneInv, NEW p \in follows \ late
               PROVE  account[p[1]] # "gone" /\ account[p[2]] # "gone"
    BY DEF GoneLeavesNoFollows
  <1>1. p \in Pairs /\ p[1] \in Users /\ p[2] \in Users
    BY PairEnds DEF TypeOK
  <1>2. p \in Timely \intersect Touching(p[1]) /\ p \in Timely \intersect Touching(p[2])
    BY <1>1 DEF Timely, Touching, From, To
  <1> QED
    BY <1>1, <1>2 DEF GoneInv

LEMMA InitGone == Init => GoneInv
  BY DEF Init, GoneInv, NoRequest, NoJob, At

\* A step that neither creates a follow nor touches a job or an account.
LEMMA QuietGone ==
  ASSUME TypeOK, GoneInv, UNCHANGED <<account, job>>, Timely' \subseteq Timely,
         \A r \in Requests : req'[r].pc = "enqueue" => req'[r] = req[r]
  PROVE  GoneInv'
  BY DEF GoneInv, At, Timely

\* What each way to move a request on does to the others and to the enqueue step.
LEMMA Moves ==
  ASSUME TypeOK, NEW r \in Requests,
         \/ \E pc \in {"target", "existing", "create", "note"} : Goto(r, pc)
         \/ Finish(r)
         \/ \E tasks : Launch(r, tasks)
         \/ At(r, "tasks") /\ \E tasks, found, failed : Resume(r, tasks, found, failed)
  PROVE  \A q \in Requests : req'[q].pc = "enqueue" => req'[q] = req[q]
  <1>1. req \in [Requests -> Request]
    BY DEF TypeOK
  <1>2. NoRequest("done").pc = "done"
    BY DEF NoRequest
  <1>3. \A q \in Requests \ {r} : req'[q] = req[q]
    BY <1>1 DEF Goto, Finish, Launch, Resume
  <1>4. CASE \E pc \in {"target", "existing", "create", "note"} : Goto(r, pc)
    BY <1>1, <1>3, <1>4 DEF Goto, Request
  <1>5. CASE Finish(r)
    BY <1>1, <1>2, <1>3, <1>5 DEF Finish
  <1>6. CASE \E tasks : Launch(r, tasks)
    BY <1>1, <1>3, <1>6 DEF Launch, Request
  <1>7. CASE At(r, "tasks") /\ \E tasks, found, failed : Resume(r, tasks, found, failed)
    <2>1. req'[r].pc \in {"tasks", "notify", "done"}
      <3>1. PICK tasks, found, failed : Resume(r, tasks, found, failed)
        BY <1>7
      <3>2. req[r] \in Request /\ req[r].pc = "tasks"
        BY <1>1, <1>7 DEF At
      <3>3. [req[r] EXCEPT !.tasks = tasks, !.found = found, !.failed = failed].pc = "tasks"
        BY <3>2 DEF Request
      <3>4. [req[r] EXCEPT !.tasks = Tasks({"out", "in", "note"}, found), !.found = {}].pc = "tasks"
        BY <3>2 DEF Request
      <3>5. [req[r] EXCEPT !.tasks = {}, !.pc = "notify"].pc = "notify"
        BY <3>2 DEF Request
      <3> QED
        BY <1>1, <1>2, <3>1, <3>3, <3>4, <3>5 DEF Resume
    <2> QED
      BY <1>3, <2>1
  <1> QED
    BY <1>4, <1>5, <1>6, <1>7

LEMMA RequestGone ==
  ASSUME TypeOK, GoneInv, NEW r \in Requests,
         \/ \E op \in Op, p \in Pairs : Send(r, op, p)
         \/ EnsureUsersCanInteract(r) \/ FindTarget(r) \/ FindExisting(r)
         \/ CreateBlock(r) \/ Remove(r) \/ CheckNote(r) \/ SendNote(r)
         \/ MarkInactive(r) \/ EnqueueUserCleanup(r)
  PROVE  GoneInv'
  <1> USE DEF Choose, relations, counters
  <1>1. CASE \E op \in Op, p \in Pairs : Send(r, op, p)
    <2>1. PICK op \in Op, p \in Pairs : Send(r, op, p)
      BY <1>1
    <2>2. Entry[op] # "enqueue"
      BY DEF Entry, Op
    <2>3. \A q \in Requests : req'[q].pc = "enqueue" => req'[q] = req[q]
      <3>1. req \in [Requests -> Request] /\ req[r] \in Request
        BY DEF TypeOK
      <3>2. [req[r] EXCEPT !.op = op, !.pair = p, !.pc = Entry[op]].pc # "enqueue"
        BY <2>2, <3>1 DEF Request
      <3> QED
        BY <2>1, <3>1, <3>2 DEF Send
    <2> QED
      BY <2>1, <2>3, QuietGone DEF Send, Timely
  <1>2. CASE EnsureUsersCanInteract(r) \/ FindTarget(r) \/ FindExisting(r) \/ CheckNote(r) \/ SendNote(r)
    <2>1. UNCHANGED <<account, job>> /\ Timely' = Timely
      BY <1>2 DEF EnsureUsersCanInteract, FindTarget, FindExisting, CheckNote, SendNote, Timely
    <2>2. \A q \in Requests : req'[q].pc = "enqueue" => req'[q] = req[q]
      BY <1>2, Moves DEF EnsureUsersCanInteract, FindTarget, FindExisting, CheckNote, SendNote
    <2> QED
      BY <2>1, <2>2, QuietGone
  <1>3. CASE CreateBlock(r)
    <2>1. UNCHANGED <<account, job>> /\ Timely' = Timely
      BY <1>3 DEF CreateBlock, Timely
    <2>2. \A q \in Requests : req'[q].pc = "enqueue" => req'[q] = req[q]
      BY <1>3, Moves DEF CreateBlock
    <2> QED
      BY <2>1, <2>2, QuietGone
  <1>4. CASE Remove(r)
    <2>1. UNCHANGED <<account, job>> /\ Timely' \subseteq Timely
      BY <1>4 DEF Remove, Timely
    <2>2. \A q \in Requests : req'[q].pc = "enqueue" => req'[q] = req[q]
      BY <1>4, Moves DEF Remove
    <2> QED
      BY <2>1, <2>2, QuietGone
  <1>t. /\ req \in [Requests -> Request] /\ account \in [Users -> {"active", "inactive", "gone"}]
        /\ job \in [Users -> Job]
        /\ req[r].pair \in Pairs /\ req[r].pair[1] \in Users
    BY PairEnds DEF TypeOK, Request
  <1>5. CASE MarkInactive(r)
    <2>1. /\ account'[req[r].pair[1]] # "active" /\ UNCHANGED job /\ Timely' = Timely
          /\ \A u \in Users : account[u] # "active" => account'[u] = account[u]
          /\ \A u \in Users : account'[u] = "gone" => account[u] = "gone"
      BY <1>t, <1>5 DEF MarkInactive, Timely
    <2>2. req'[r].pair = req[r].pair \/ req'[r].pc = "done"
      BY <1>t, <1>5 DEF MarkInactive, Goto, Finish, NoRequest, Request
    <2>3. \A q \in Requests \ {r} : req'[q] = req[q]
      BY <1>t, <1>5 DEF MarkInactive, Goto, Finish
    <2>4. \A q \in Requests : req[q].pair[1] \in Users
      BY <1>t, PairEnds DEF Request
    <2>5. \A q \in Requests : At(q, "enqueue")' => account'[req'[q].pair[1]] # "active"
      BY <2>1, <2>2, <2>3, <2>4 DEF At, GoneInv
    <2> QED
      BY <2>1, <2>5 DEF GoneInv
  <1>6. CASE EnqueueUserCleanup(r)
    <2>1. account[req[r].pair[1]] # "active"
      BY <1>6 DEF EnqueueUserCleanup, GoneInv
    <2>2. job' = [job EXCEPT ![req[r].pair[1]] = NoJob("queued")]
      BY <1>6 DEF EnqueueUserCleanup
    <2>3. \A u \in Users : \/ job'[u].pc = job[u].pc /\ job'[u].deletes = job[u].deletes
                           \/ job'[u].pc = "queued" /\ account[u] # "active"
      <3>1. NoJob("queued").pc = "queued"
        BY DEF NoJob
      <3> QED
        BY <1>t, <2>1, <2>2, <3>1
    <2>4. UNCHANGED account /\ Timely' = Timely
      BY <1>6 DEF EnqueueUserCleanup, Timely
    <2>5. \A q \in Requests : req'[q].pc = "enqueue" => req'[q] = req[q]
      BY <1>6, Moves DEF EnqueueUserCleanup
    <2> QED
      BY <2>3, <2>4, <2>5 DEF GoneInv, At
  <1> QED
    BY <1>1, <1>2, <1>3, <1>4, <1>5, <1>6

LEMMA TaskGone ==
  ASSUME TypeOK, GoneInv, NEW r \in Requests, DoTask(r)
  PROVE  GoneInv'
  <1> USE DEF relations, counters
  <1>1. PICK t \in req[r].tasks : CreateFollow(r, t) \/ CutFollow(r, t) \/ AdjustCounter(r, t) \/ RemoveNote(r, t)
    BY DEF DoTask
  <1>2. UNCHANGED <<account, job>> /\ At(r, "tasks")
    BY DEF DoTask
  <1>3. \A q \in Requests : req'[q].pc = "enqueue" => req'[q] = req[q]
    BY <1>1, <1>2, Moves DEF CreateFollow, CutFollow, AdjustCounter, RemoveNote
  <1>4. CASE CreateFollow(r, t)
    <2>1. Timely' \subseteq Timely \/ /\ Timely' \subseteq Timely \union {t.pair}
                                      /\ Active(t.pair[1]) /\ Active(t.pair[2])
      BY <1>4 DEF CreateFollow, Timely
    <2>2. CASE Timely' \subseteq Timely
      BY <1>2, <1>3, <2>2, QuietGone
    <2>3. CASE /\ Timely' \subseteq Timely \union {t.pair}
               /\ Active(t.pair[1]) /\ Active(t.pair[2])
      <3>1. ASSUME NEW u \in Users, account[u] # "active" PROVE t.pair \notin Touching(u)
        BY <2>3, <3>1 DEF Touching, From, To, Active
      <3>2. \A u \in Users : account[u] # "active" => Timely' \intersect Touching(u) \subseteq Timely \intersect Touching(u)
        BY <2>3, <3>1
      <3> QED
        BY <1>2, <1>3, <3>2 DEF GoneInv, At
    <2> QED
      BY <2>1, <2>2, <2>3
  <1>5. CASE CutFollow(r, t) \/ AdjustCounter(r, t) \/ RemoveNote(r, t)
    <2>1. Timely' \subseteq Timely
      BY <1>5 DEF CutFollow, AdjustCounter, RemoveNote, Timely
    <2> QED
      BY <1>2, <1>3, <2>1, QuietGone
  <1> QED
    BY <1>1, <1>4, <1>5

LEMMA JobGone ==
  ASSUME TypeOK, GoneInv, NEW u \in Users, JobStep(u)
  PROVE  GoneInv'
  <1> USE DEF relations, counters
  <1>t. job \in [Users -> Job] /\ account \in [Users -> {"active", "inactive", "gone"}]
    BY DEF TypeOK
  <1>u. /\ account[u] # "active"
        /\ \A v \in Users \ {u} : job'[v] = job[v]
        /\ UNCHANGED <<req, late>> /\ follows' \subseteq follows /\ Timely' \subseteq Timely
    <2>1. job[u].pc # "none"
      BY DEF JobStep, JobStart, JobRead, JobCount, JobDelete, JobDeleteUser
    <2>2. \A v \in Users \ {u} : job'[v] = job[v]
      BY <1>t DEF JobStep, JobStart, JobRead, JobCount, JobDelete, JobDone, JobDeleteUser
    <2>3. UNCHANGED <<req, late>> /\ follows' \subseteq follows
      BY DEF JobStep, JobStart, JobRead, JobCount, JobDelete, JobDeleteUser, Purge
    <2> QED
      BY <2>1, <2>2, <2>3 DEF GoneInv, Timely
  \* What is left to show for a step that keeps the accounts.
  <1>s. ASSUME UNCHANGED account,
               \/ job'[u].pc \in {"relations", "user"}
               \/ job'[u].pc = "counts" /\ "follows" \notin job'[u].deletes
               => Timely' \intersect Touching(u) = {}
        PROVE  GoneInv'
    BY <1>u, <1>s DEF GoneInv, At
  <1>1. CASE JobStart(u)
    <2>1. job'[u].pc = "read"
      BY <1>t, <1>1 DEF JobStart, NoJob
    <2> QED
      BY <1>1, <1>s, <2>1 DEF JobStart
  <1>2. CASE \E what \in {"following", "followers"} : JobRead(u, what)
    <2>1. PICK what \in {"following", "followers"} : JobRead(u, what)
      BY <1>2
    <2>2. job'[u].pc = "read" \/ (job'[u].pc = "counts" /\ job'[u].deletes = {"follows"})
      <3>1. job[u] \in Job /\ job[u].pc = "read"
        BY <1>t, <2>1 DEF JobRead
      <3> DEFINE x == [job[u] EXCEPT !.reads = @ \ {what},
                !.found = @ \union (follows \intersect IF what = "following" THEN From(u) ELSE To(u)),
                !.pc = IF job[u].reads = {what} THEN "counts" ELSE @,
                !.deletes = IF job[u].reads = {what} THEN {"follows"} ELSE @]
      <3>2. job' = [job EXCEPT ![u] = x]
        BY <1>t, <2>1 DEF JobRead
      <3>3. x.pc = "read" \/ (x.pc = "counts" /\ x.deletes = {"follows"})
        BY <3>1 DEF Job
      <3> HIDE DEF x
      <3> QED
        BY <1>t, <3>2, <3>3
    <2> QED
      BY <1>s, <2>1, <2>2 DEF JobRead
  <1>3. CASE \E p \in Pairs : JobCount(u, p)
    <2>1. PICK p \in Pairs : JobCount(u, p)
      BY <1>3
    <2>2. "follows" \notin job[u].deletes => Timely \intersect Touching(u) = {}
      BY <2>1 DEF JobCount, GoneInv
    <2>3. (job'[u].pc = "counts" /\ job'[u].deletes = job[u].deletes) \/ job[u].deletes = {}
      BY <1>t, <2>1 DEF JobCount, JobDone, Job
    <2> QED
      BY <1>s, <1>u, <2>1, <2>2, <2>3 DEF JobCount
  <1>4. CASE \E what \in {"follows", "blocks", "notes"} : JobDelete(u, what)
    <2>1. PICK what \in {"follows", "blocks", "notes"} : JobDelete(u, what)
      BY <1>4
    <2>2. CASE what = "follows"
      <3>1. Timely' \intersect Touching(u) = {}
        BY <2>1, <2>2 DEF JobDelete, Purge, Timely
      <3> QED
        BY <1>s, <2>1, <3>1 DEF JobDelete
    <2>3. CASE what # "follows"
      <3>1. \/ Timely \intersect Touching(u) = {}
            \/ job[u].pc = "counts" /\ "follows" \in job[u].deletes
            \/ job[u].pc \notin {"counts", "relations", "user"}
        BY DEF GoneInv
      <3>2. CASE Timely \intersect Touching(u) = {}
        BY <1>s, <1>u, <2>1, <3>2 DEF JobDelete
      <3>3. CASE job[u].pc = "counts" /\ "follows" \in job[u].deletes
        <4>1. "follows" \in job[u].deletes \ {what}
          BY <2>3, <3>3
        <4>2. job'[u].pc = "counts" /\ "follows" \in job'[u].deletes
          BY <1>t, <2>1, <3>3, <4>1 DEF JobDelete, JobDone, Job
        <4> QED
          BY <1>s, <2>1, <4>2 DEF JobDelete
      <3>4. CASE job[u].pc \notin {"counts", "relations", "user"}
        BY <2>1, <3>4 DEF JobDelete
      <3> QED
        BY <3>1, <3>2, <3>3, <3>4
    <2> QED
      BY <2>2, <2>3
  <1>5. CASE JobDeleteUser(u)
    <2>1. Timely \intersect Touching(u) = {}
      BY <1>5 DEF JobDeleteUser, GoneInv
    <2>2. job'[u].pc = "none"
      BY <1>t, <1>5 DEF JobDeleteUser, NoJob
    <2>3. /\ \A v \in Users : account'[v] = "active" => account[v] = "active"
          /\ \A v \in Users \ {u} : account'[v] = account[v]
          /\ account'[u] = "gone"
      BY <1>t, <1>5 DEF JobDeleteUser
    <2>4. \A q \in Requests : req[q].pair[1] \in Users
      BY PairEnds DEF TypeOK, Request
    <2> QED
      BY <1>u, <2>1, <2>2, <2>3, <2>4 DEF GoneInv, At
  <1> QED
    BY <1>1, <1>2, <1>3, <1>4, <1>5 DEF JobStep

LEMMA NextGone == TypeOK /\ GoneInv /\ [Next]_vars => GoneInv'
  <1> SUFFICES ASSUME TypeOK, GoneInv, [Next]_vars PROVE GoneInv'
    OBVIOUS
  <1>1. CASE UNCHANGED vars
    BY <1>1, QuietGone DEF vars, relations, counters, Timely
  <1>2. ASSUME NEW r \in Requests, Step(r) PROVE GoneInv'
    BY <1>2, RequestGone, TaskGone DEF Step
  <1>3. CASE Crash
    <2>1. UNCHANGED account /\ Timely' = Timely
      BY <1>3 DEF Crash, relations, Timely
    <2>2. \A q \in Requests : req'[q].pc # "enqueue"
      BY <1>3 DEF Crash, At, NoRequest
    <2>3. \A u \in Users : \/ job'[u].pc = "none" /\ job[u].pc = "none"
                           \/ job'[u].pc = "queued" /\ job[u].pc # "none"
      <3>1. NoJob("queued").pc = "queued"
        BY DEF NoJob
      <3>2. \A u \in Users : job'[u] = RestartJob(u)
        BY <1>3 DEF Crash
      <3> QED
        BY <3>1, <3>2 DEF RestartJob
    <2> QED
      BY <2>1, <2>2, <2>3 DEF GoneInv, At
  <1> QED
    BY <1>1, <1>2, <1>3, RequestGone, JobGone DEF Next

\* An account that is gone is in no follow but a late one, whatever crashes and however
\* follows, unfollows, blocks and the cleanup interleave.
THEOREM GoneIsUnfollowed == Spec => []GoneLeavesNoFollows
  BY InitType, NextType, InitGone, NextGone, GoneSuffices, PTL DEF Spec

----------------------------------------------------------------------------
(* A block ends the follows between two users.                             *)

Cut(p) == [what |-> "cut", pair |-> p]

Pending(p) == \E r \in Requests : At(r, "tasks") /\ Cut(p) \in req[r].tasks

\* As long as the process lives, a follow beside a block is about to be cut by the
\* request that created the block.
BlockInv == crashes = 0 => \A p \in Timely : Blocked(p) => Pending(p)

LEMMA BlockSuffices == BlockInv => BlockEndsFollows
  BY DEF BlockInv, BlockEndsFollows, Quiet, Pending, At, Timely

LEMMA CutIn == \A p, q : Cut(p) \in Tasks({"cut"}, {p, q}) /\ Cut(q) \in Tasks({"cut"}, {p, q})
  BY DEF Cut, Tasks

LEMMA InitBlock == Init => BlockInv
  BY DEF Init, BlockInv, Blocked

\* A step of a request that is not inside a Promise.all and creates neither a follow nor a block.
LEMMA QuietBlock ==
  ASSUME TypeOK, BlockInv, NEW r \in Requests, ~At(r, "tasks"), UNCHANGED crashes,
         Timely' \subseteq Timely, blocks' \subseteq blocks,
         \A q \in Requests \ {r} : req'[q] = req[q]
  PROVE  BlockInv'
  BY DEF BlockInv, Blocked, Pending, At

LEMMA RequestBlock ==
  ASSUME TypeOK, BlockInv, NEW r \in Requests,
         \/ \E op \in Op, p \in Pairs : Send(r, op, p)
         \/ EnsureUsersCanInteract(r) \/ FindTarget(r) \/ FindExisting(r)
         \/ CreateBlock(r) \/ Remove(r) \/ CheckNote(r) \/ SendNote(r)
         \/ MarkInactive(r) \/ EnqueueUserCleanup(r)
  PROVE  BlockInv'
  <1> USE DEF Choose, relations, counters
  <1>t. req \in [Requests -> Request] /\ req[r].pair \in Pairs /\ follows \subseteq Pairs
    BY DEF TypeOK, Request
  <1>o. \A q \in Requests \ {r} : req'[q] = req[q]
    BY <1>t DEF Send, EnsureUsersCanInteract, FindTarget, FindExisting, CreateBlock, Remove, CheckNote,
                SendNote, MarkInactive, EnqueueUserCleanup, Goto, Finish, Launch
  <1>a. ~At(r, "tasks") /\ UNCHANGED <<crashes, late>> /\ follows' \subseteq follows /\ Timely' \subseteq Timely
    BY DEF At, Send, EnsureUsersCanInteract, FindTarget, FindExisting, CreateBlock, Remove, CheckNote,
           SendNote, MarkInactive, EnqueueUserCleanup, Timely
  <1>1. CASE CreateBlock(r)
    <2>1. CASE req[r].pair \in blocks
      <3>1. blocks' = blocks
        BY <1>1, <2>1 DEF CreateBlock
      <3> QED
        BY <1>a, <1>o, <3>1, QuietBlock
    <2>2. CASE req[r].pair \notin blocks
      <3>1. At(r, "tasks")' /\ req'[r].tasks = CutBothWays(req[r].pair)
        BY <1>t, <1>1, <2>2 DEF CreateBlock, Launch, At, Request
      <3>2. \A p : p = req[r].pair \/ p = Back(req[r].pair) => Pending(p)'
        <4>1. \A p : p = req[r].pair \/ p = Back(req[r].pair) => Cut(p) \in req'[r].tasks
          BY <3>1, CutIn DEF CutBothWays
        <4> QED
          BY <3>1, <4>1 DEF Pending, At
      <3>3. ASSUME NEW p \in Timely', Blocked(p)', crashes = 0 PROVE Pending(p)'
        <4>1. p \in Timely /\ p \in Pairs
          BY <1>a, <1>t DEF Timely
        <4>2. Blocked(p) \/ p = req[r].pair \/ Back(p) = req[r].pair
          BY <1>1, <3>3 DEF CreateBlock, Blocked
        <4>3. CASE Blocked(p)
          BY <1>a, <1>o, <3>3, <4>1, <4>3 DEF BlockInv, Pending, At
        <4>4. CASE p = req[r].pair
          BY <3>2, <4>4
        <4>5. CASE Back(p) = req[r].pair
          <5>1. p = Back(req[r].pair)
            BY <4>1, <4>5 DEF Back, Pairs
          <5> QED
            BY <3>2, <5>1
        <4> QED
          BY <4>2, <4>3, <4>4, <4>5
      <3> QED
        BY <1>a, <3>3 DEF BlockInv
    <2> QED
      BY <2>1, <2>2
  <1>2. CASE ~CreateBlock(r)
    <2>1. blocks' \subseteq blocks
      BY <1>2 DEF Send, EnsureUsersCanInteract, FindTarget, FindExisting, Remove, CheckNote,
                  SendNote, MarkInactive, EnqueueUserCleanup
    <2> QED
      BY <1>a, <1>o, <2>1, QuietBlock
  <1> QED
    BY <1>1, <1>2

LEMMA TaskBlock ==
  ASSUME TypeOK, BlockInv, NEW r \in Requests, DoTask(r)
  PROVE  BlockInv'
  <1> USE DEF relations, counters
  <1>1. PICK t \in req[r].tasks : CreateFollow(r, t) \/ CutFollow(r, t) \/ AdjustCounter(r, t) \/ RemoveNote(r, t)
    BY DEF DoTask
  <1>2. UNCHANGED <<crashes, blocks>> /\ At(r, "tasks") /\ req \in [Requests -> Request]
    BY <1>1 DEF DoTask, CreateFollow, CutFollow, AdjustCounter, RemoveNote, TypeOK
  <1>3. \E found, failed : Resume(r, req[r].tasks \ {t}, found, failed)
    BY <1>1 DEF CreateFollow, CutFollow, AdjustCounter, RemoveNote
  \* A cut other than the task that was done is still to be done.
  <1>4. ASSUME NEW p, Pending(p), Cut(p) # t PROVE Pending(p)'
    <2>1. PICK q \in Requests : At(q, "tasks") /\ Cut(p) \in req[q].tasks
      BY <1>4 DEF Pending
    <2>2. PICK found, failed : Resume(r, req[r].tasks \ {t}, found, failed)
      BY <1>3
    <2>3. CASE q # r
      <3>1. req'[q] = req[q]
        BY <1>2, <2>2, <2>3 DEF Resume
      <3> QED
        BY <2>1, <3>1 DEF Pending, At
    <2>4. CASE q = r
      <3>1. Cut(p) \in req[r].tasks \ {t}
        BY <1>4, <2>1, <2>4
      <3>2. req'[r] = [req[r] EXCEPT !.tasks = req[r].tasks \ {t}, !.found = found, !.failed = failed]
        BY <1>2, <2>2, <3>1 DEF Resume
      <3>3. req[r] \in Request /\ req[r].pc = "tasks"
        BY <1>2 DEF At
      <3>4. req'[r].pc = "tasks" /\ req'[r].tasks = req[r].tasks \ {t}
        BY <3>2, <3>3 DEF Request
      <3> QED
        BY <3>1, <3>4 DEF Pending, At
    <2> QED
      BY <2>3, <2>4
  <1>5. SUFFICES ASSUME crashes = 0, NEW p \in Timely', Blocked(p) PROVE Pending(p)'
    BY <1>2 DEF BlockInv, Blocked
  <1>6. p \in Timely
    BY <1>1, <1>5 DEF CreateFollow, CutFollow, AdjustCounter, RemoveNote, Timely
  <1>7. Cut(p) # t
    <2>1. Cut(p).what = "cut" /\ Cut(p).pair = p
      BY DEF Cut
    <2>2. t.what # "cut" \/ t.pair # p
      BY <1>1, <1>5 DEF CreateFollow, CutFollow, AdjustCounter, RemoveNote, Timely
    <2> QED
      BY <2>1, <2>2
  <1> QED
    BY <1>4, <1>5, <1>6, <1>7 DEF BlockInv

LEMMA NextBlock == TypeOK /\ BlockInv /\ [Next]_vars => BlockInv'
  <1> SUFFICES ASSUME TypeOK, BlockInv, [Next]_vars PROVE BlockInv'
    OBVIOUS
  <1> USE DEF relations, counters
  <1>1. CASE UNCHANGED vars
    BY <1>1 DEF vars, BlockInv, Timely, Blocked, Pending, At
  <1>2. ASSUME NEW r \in Requests, Step(r) PROVE BlockInv'
    BY <1>2, RequestBlock, TaskBlock DEF Step
  <1>3. ASSUME NEW u \in Users, JobStep(u) PROVE BlockInv'
    <2>1. UNCHANGED <<req, late, crashes>> /\ follows' \subseteq follows /\ blocks' \subseteq blocks
      BY <1>3 DEF JobStep, JobStart, JobRead, JobCount, JobDelete, JobDeleteUser, Purge
    <2> QED
      BY <2>1 DEF BlockInv, Timely, Blocked, Pending, At
  <1>4. CASE Crash
    BY <1>4 DEF Crash, BlockInv, TypeOK
  <1> QED
    BY <1>1, <1>2, <1>3, <1>4, RequestBlock DEF Next

\* A block leaves no follow between two users but a late one, however the requests
\* interleave, if the process does not die.
THEOREM BlockedIsUnfollowed == Spec => []BlockEndsFollows
  BY InitType, NextType, InitBlock, NextBlock, BlockSuffices, PTL DEF Spec

----------------------------------------------------------------------------
(* The counters.                                                           *)

\* The duplicates of the pairs in Z, one by one.
Twice(E, Z) == {x \in Z \X Nat : x[2] > 0 /\ x[2] <= E[x[1]]}

\* One more pair.
LEMMA TwiceMore ==
  ASSUME NEW E \in [Pairs -> Nat], IsFiniteSet(Twice(E, Pairs)), NEW S \in SUBSET Pairs, NEW p \in S
  PROVE  Cardinality(Twice(E, S)) = E[p] + Cardinality(Twice(E, S \ {p}))
  <1> DEFINE A == Twice(E, S \ {p})
             B == {p} \X (1 .. E[p])
  <1>1. IsFiniteSet(A) /\ Cardinality(A) \in Nat
    <2>1. A \in SUBSET Twice(E, Pairs)
      BY DEF Twice
    <2> QED
      BY <2>1, FS_Subset, FS_CardinalityType
  <1>2. IsFiniteSet(B) /\ Cardinality(B) = E[p]
    <2>1. E[p] \in Nat
      OBVIOUS
    <2>2. IsFiniteSet(1 .. E[p]) /\ Cardinality(1 .. E[p]) = E[p]
      BY <2>1, FS_Interval
    <2>3. IsFiniteSet({p}) /\ Cardinality({p}) = 1
      BY FS_Singleton
    <2>4. IsFiniteSet(B) /\ Cardinality(B) = 1 * E[p]
      BY <2>2, <2>3, FS_Product
    <2> QED
      BY <2>1, <2>4
  <1>3. Twice(E, S) = A \union B
    <2>1. \A x : x \in Twice(E, S) => x \in A \union B
      BY DEF Twice
    <2>2. \A x : x \in A \union B => x \in Twice(E, S)
      BY DEF Twice
    <2> QED
      BY <2>1, <2>2
  <1>4. A \intersect B = {}
    BY DEF Twice
  <1> HIDE DEF A, B
  <1>5. Cardinality(A \union B) = Cardinality(A) + Cardinality(B) - Cardinality({})
    BY <1>1, <1>2, <1>4, FS_Union
  <1> QED
    BY <1>1, <1>2, <1>3, <1>5, FS_EmptySet DEF A

\* What the recursion adds up to.
LEMMA TwiceInAll ==
  ASSUME TypeOK, IsFiniteSet(Pairs), IsFiniteSet(Twice(extra, Pairs)), NEW Z \in SUBSET Pairs
  PROVE  Duplicates(Z) = Cardinality(Twice(extra, Z))
  <1> DEFINE count == [S \in SUBSET Z |-> Cardinality(Twice(extra, S))]
             Sums(g) == [S \in SUBSET Z |-> IF S = {} THEN 0 ELSE LET p == CHOOSE p \in S : TRUE IN extra[p] + g[S \ {p}]]
             sum == CHOOSE g : g = Sums(g)
  <1>1. Duplicates(Z) = sum[Z]
    BY DEF Duplicates
  <1>2. extra \in [Pairs -> Nat]
    BY DEF TypeOK
  <1>3. Cardinality(Twice(extra, {})) = 0
    <2>1. Twice(extra, {}) = {}
      BY DEF Twice
    <2> QED
      BY <2>1, FS_EmptySet
  <1>4. ASSUME NEW S \in SUBSET Z, S # {}
        PROVE  Cardinality(Twice(extra, S)) = LET p == CHOOSE p \in S : TRUE IN extra[p] + Cardinality(Twice(extra, S \ {p}))
    <2> DEFINE p == CHOOSE p \in S : TRUE
    <2>1. p \in S
      BY <1>4
    <2>2. S \in SUBSET Pairs
      OBVIOUS
    <2> HIDE DEF p
    <2>3. Cardinality(Twice(extra, S)) = extra[p] + Cardinality(Twice(extra, S \ {p}))
      BY <1>2, <2>1, <2>2, TwiceMore
    <2> QED
      BY <2>3 DEF p
  <1>5. count = Sums(count)
    <2>1. \A S \in SUBSET Z : count[S] = Sums(count)[S]
      <3> SUFFICES ASSUME NEW S \in SUBSET Z PROVE count[S] = Sums(count)[S]
        OBVIOUS
      <3>1. CASE S = {}
        BY <1>3, <3>1
      <3>2. CASE S # {}
        <4> DEFINE p == CHOOSE p \in S : TRUE
        <4>1. Cardinality(Twice(extra, S)) = extra[p] + Cardinality(Twice(extra, S \ {p}))
          BY <1>4, <3>2
        <4>2. Sums(count)[S] = extra[p] + count[S \ {p}]
          BY <3>2
        <4>3. count[S \ {p}] = Cardinality(Twice(extra, S \ {p}))
          OBVIOUS
        <4> QED
          BY <4>1, <4>2, <4>3
      <3> QED
        BY <3>1, <3>2
    <2> QED
      BY <2>1
  <1>6. sum = Sums(sum)
    <2> HIDE DEF count, Sums
    <2> QED
      BY <1>5
  <1>7. ASSUME NEW S \in SUBSET Z, sum[S] # count[S]
        PROVE  \E T \in SUBSET Z : sum[T] # count[T] /\ Cardinality(T) < Cardinality(S)
    <2> DEFINE p == CHOOSE p \in S : TRUE
    <2>1. sum[S] = Sums(sum)[S]
      <3> HIDE DEF Sums, sum
      <3> QED
        BY <1>6
    <2>2. S # {}
      <3>1. S = {} => Sums(sum)[S] = 0 /\ count[S] = 0
        <4> HIDE DEF sum
        <4> QED
          BY <1>3
      <3> QED
        BY <1>7, <2>1, <3>1
    <2>3. p \in S
      BY <2>2
    <2>4. Sums(sum)[S] = extra[p] + sum[S \ {p}]
      <3> HIDE DEF sum
      <3> QED
        BY <2>2
    <2>5. count[S] = extra[p] + count[S \ {p}]
      BY <1>4, <2>2
    <2>6. S \ {p} \in SUBSET Z /\ sum[S \ {p}] # count[S \ {p}]
      <3> HIDE DEF sum, count, Sums
      <3> QED
        BY <1>7, <2>1, <2>4, <2>5
    <2>7. IsFiniteSet(S) /\ Cardinality(S) \in Nat
      BY FS_Subset, FS_CardinalityType
    <2>8. Cardinality(S \ {p}) = Cardinality(S) - 1
      BY <2>3, <2>7, FS_RemoveElement
    <2> HIDE DEF sum, count
    <2> QED
      BY <2>6, <2>7, <2>8
  <1> HIDE DEF sum, count, Sums
  <1>8. \A S \in SUBSET Z : sum[S] = count[S]
    <2> DEFINE Sizes == {Cardinality(S) : S \in {T \in SUBSET Z : sum[T] # count[T]}}
               R == OpToRel(<, Nat)
    <2>1. Sizes \subseteq Nat
      BY FS_Subset, FS_CardinalityType
    <2>2. IsWellFoundedOn(R, Nat)
      BY NatLessThanWellFounded, Zenon
    <2>3. \A n \in Sizes : \E m \in Sizes : m < n
      BY <1>7
    <2>4. \A n, m \in Sizes : m < n => <<m, n>> \in R
      BY <2>1, Zenon DEF OpToRel
    <2> HIDE DEF Sizes, R
    <2>5. Sizes = {}
      <3>1. SUFFICES ASSUME Sizes # {} PROVE FALSE
        OBVIOUS
      <3>2. PICK n \in Sizes : \A m \in Sizes : ~(<<m, n>> \in R)
        BY <2>1, <2>2, <3>1, WFMin
      <3> QED
        BY <2>3, <2>4, <3>2
    <2> QED
      BY <2>5 DEF Sizes
  <1> QED
    BY <1>1, <1>8 DEF count

Of(what, p) == [what |-> what, pair |-> p]

\* A follow that is about to be made (what = "doc") or counted.
Adds(q, what, Z) == q.pc = "tasks" /\ q.op = "follow" /\ Of(what, q.pair) \in q.tasks /\ q.pair \in Z
Due(Q, what, Z) == {r \in Requests : Adds(Q[r], what, Z)}

\* Follows that are deleted and are about to be counted off.
Owes(q, what, Z) == {p \in Z : q.pc = "tasks" /\ q.op # "follow" /\ (Of(what, p) \in q.tasks \/ p \in q.found)}
Owed(Q, what, Z) == {x \in Requests \X Z : x[2] \in Owes(Q[x[1]], what, Z)}

Kept(F, Z) == F \intersect Z

\* A counter, with what is about to be added to it, is the number of the follows there are, of
\* the duplicates, of the follows that are about to be made and of those that are about to be
\* counted off.
Even(n, Q, what, Z, F, E) ==
    n + Cardinality(Due(Q, what, Z)) =
        Cardinality(Kept(F, Z)) + Cardinality(Twice(E, Z)) + Cardinality(Due(Q, "doc", Z)) + Cardinality(Owed(Q, what, Z))

Busy(Q) == {r \in Requests : Q[r].pc # "idle"}

Ind(b) == IF b THEN 1 ELSE 0
In(x, S) == IF x \in S THEN 1 ELSE 0

\* T is S but for a, and R is Q but for r.
SameBut(S, T, a) == \A x : x # a => (x \in T <=> x \in S)
Others(Q, R, r) == \A s \in Requests : s # r => R[s] = Q[s]

\* p has d duplicates more.
Raised(E, p, d) == [E EXCEPT ![p] = @ + d]

\* Only a may come or go.
LEMMA OneMoves ==
  ASSUME NEW S, NEW T, NEW a, IsFiniteSet(S), SameBut(S, T, a)
  PROVE  IsFiniteSet(T) /\ Cardinality(S) \in Nat /\ Cardinality(T) \in Nat
         /\ Cardinality(T) = Cardinality(S) + In(a, T) - In(a, S)
  <1>1. Cardinality(S) \in Nat
    BY FS_CardinalityType
  <1>2. CASE a \in T /\ a \notin S
    <2>1. T = S \union {a}
      BY <1>2 DEF SameBut
    <2> QED
      BY <1>1, <1>2, <2>1, FS_AddElement DEF Ind, In
  <1>3. CASE a \notin T /\ a \in S
    <2>1. T = S \ {a}
      BY <1>3 DEF SameBut
    <2>2. IsFiniteSet(T) /\ Cardinality(T) = Cardinality(S) - 1
      BY <1>3, <2>1, FS_RemoveElement
    <2>3. Cardinality(T) \in Nat
      BY <2>2, FS_CardinalityType
    <2> QED
      BY <1>1, <1>3, <2>2, <2>3 DEF Ind, In
  <1>4. CASE a \in T <=> a \in S
    <2>1. T = S
      BY <1>4 DEF SameBut
    <2> QED
      BY <1>1, <2>1 DEF Ind, In
  <1> QED
    BY <1>2, <1>3, <1>4

LEMMA PairsAreFinite == IsFiniteSet(Pairs)
  <1>1. IsFiniteSet(Users \X Users)
    BY UsersAssumption, FS_Product
  <1> QED
    BY <1>1, FS_Subset DEF Pairs

LEMMA DueMoves ==
  ASSUME NEW Q, NEW R, NEW r \in Requests, Others(Q, R, r), IsFiniteSet(Busy(Q)), NEW what, NEW Z
  PROVE  /\ Cardinality(Due(Q, what, Z)) \in Nat /\ Cardinality(Due(R, what, Z)) \in Nat
         /\ Cardinality(Due(R, what, Z)) = Cardinality(Due(Q, what, Z)) + Ind(Adds(R[r], what, Z)) - Ind(Adds(Q[r], what, Z))
  <1>1. IsFiniteSet(Due(Q, what, Z))
    <2>1. Due(Q, what, Z) \in SUBSET Busy(Q)
      BY DEF Due, Adds, Busy
    <2> QED
      BY <2>1, FS_Subset
  <1>2. SameBut(Due(Q, what, Z), Due(R, what, Z), r)
    BY DEF Due, Others, SameBut
  <1>3. (r \in Due(R, what, Z) <=> Adds(R[r], what, Z)) /\ (r \in Due(Q, what, Z) <=> Adds(Q[r], what, Z))
    BY DEF Due
  <1>4. In(r, Due(R, what, Z)) = Ind(Adds(R[r], what, Z)) /\ In(r, Due(Q, what, Z)) = Ind(Adds(Q[r], what, Z))
    BY <1>3 DEF Ind, In
  <1> QED
    BY <1>1, <1>2, <1>4, OneMoves

LEMMA OwedMoves ==
  ASSUME NEW Q, NEW R, NEW r \in Requests, Others(Q, R, r), IsFiniteSet(Busy(Q)), NEW what,
         NEW Z \in SUBSET Pairs, NEW p, SameBut(Owes(Q[r], what, Z), Owes(R[r], what, Z), p)
  PROVE  /\ Cardinality(Owed(Q, what, Z)) \in Nat /\ Cardinality(Owed(R, what, Z)) \in Nat
         /\ Cardinality(Owed(R, what, Z)) =
                Cardinality(Owed(Q, what, Z)) + In(p, Owes(R[r], what, Z)) - In(p, Owes(Q[r], what, Z))
  <1>1. IsFiniteSet(Owed(Q, what, Z))
    <2>1. Owed(Q, what, Z) \in SUBSET (Busy(Q) \X Pairs)
      BY DEF Owed, Owes, Busy
    <2>2. IsFiniteSet(Busy(Q) \X Pairs)
      BY PairsAreFinite, FS_Product
    <2> QED
      BY <2>1, <2>2, FS_Subset
  <1> DEFINE a == <<r, p>>
  <1>2. a[1] = r /\ a[2] = p
    OBVIOUS
  <1>3. \A x : x \in Owed(R, what, Z) \/ x \in Owed(Q, what, Z) => x = <<x[1], x[2]>> /\ x \in Requests \X Z
    BY DEF Owed
  <1>4. SameBut(Owed(Q, what, Z), Owed(R, what, Z), a)
    <2> SUFFICES ASSUME NEW x \in Requests \X Z, x # a
                 PROVE  x[2] \in Owes(R[x[1]], what, Z) <=> x[2] \in Owes(Q[x[1]], what, Z)
      BY DEF Owed, SameBut
    <2>1. CASE x[1] = r
      <3>1. x[2] # p
        BY <2>1
      <3> QED
        BY <2>1, <3>1 DEF SameBut
    <2>2. CASE x[1] # r
      BY <2>2 DEF Others
    <2> QED
      BY <2>1, <2>2
  <1>5. (a \in Owed(R, what, Z) <=> p \in Owes(R[r], what, Z)) /\ (a \in Owed(Q, what, Z) <=> p \in Owes(Q[r], what, Z))
    BY <1>2 DEF Owed, Owes
  <1> HIDE DEF a
  <1>6. In(a, Owed(R, what, Z)) = In(p, Owes(R[r], what, Z)) /\ In(a, Owed(Q, what, Z)) = In(p, Owes(Q[r], what, Z))
    BY <1>5 DEF Ind, In
  <1> QED
    BY <1>1, <1>4, <1>6, OneMoves

LEMMA KeptMoves ==
  ASSUME NEW F \in SUBSET Pairs, NEW G, NEW p, SameBut(F, G, p), NEW Z
  PROVE  /\ Cardinality(Kept(F, Z)) \in Nat /\ Cardinality(Kept(G, Z)) \in Nat
         /\ Cardinality(Kept(G, Z)) = Cardinality(Kept(F, Z)) + In(p, Kept(G, Z)) - In(p, Kept(F, Z))
  <1>1. IsFiniteSet(Kept(F, Z))
    BY PairsAreFinite, FS_Subset DEF Kept
  <1>2. SameBut(Kept(F, Z), Kept(G, Z), p)
    BY DEF SameBut, Kept
  <1> QED
    BY <1>1, <1>2, OneMoves

LEMMA TwiceMoves ==
  ASSUME NEW E \in [Pairs -> Nat], NEW p \in Pairs, NEW d \in {0, 1},
         IsFiniteSet(Twice(E, Pairs)), NEW Z \in SUBSET Pairs
  PROVE  /\ Cardinality(Twice(E, Z)) \in Nat /\ Cardinality(Twice(Raised(E, p, d), Z)) \in Nat
         /\ IsFiniteSet(Twice(Raised(E, p, d), Z))
         /\ Cardinality(Twice(Raised(E, p, d), Z)) = Cardinality(Twice(E, Z)) + (IF p \in Z THEN d ELSE 0)
  <1>1. IsFiniteSet(Twice(E, Z))
    <2>1. Twice(E, Z) \in SUBSET Twice(E, Pairs)
      BY DEF Twice
    <2> QED
      BY <2>1, FS_Subset
  <1> DEFINE a == <<p, E[p] + 1>>
             D == Raised(E, p, d)
  <1>2. a[1] = p /\ a[2] = E[p] + 1 /\ E[p] \in Nat
    OBVIOUS
  <1>3. D[p] = E[p] + d /\ \A x \in Pairs : x # p => D[x] = E[x]
    BY DEF Raised
  <1> HIDE DEF D
  <1>4. SameBut(Twice(E, Z), Twice(D, Z), a)
    <2> SUFFICES ASSUME NEW x \in Z \X Nat, x # a PROVE x[2] <= D[x[1]] <=> x[2] <= E[x[1]]
      BY DEF Twice, SameBut
    <2>1. x[1] \in Pairs /\ x[2] \in Nat /\ x = <<x[1], x[2]>>
      OBVIOUS
    <2>2. CASE x[1] = p
      <3>1. x[2] # E[p] + 1
        BY <2>1, <2>2
      <3> HIDE DEF a
      <3> QED
        BY <1>2, <1>3, <2>1, <2>2, <3>1
    <2>3. CASE x[1] # p
      BY <1>3, <2>1, <2>3
    <2> QED
      BY <2>2, <2>3
  <1>5. a \in Twice(D, Z) <=> p \in Z /\ d = 1
    BY <1>2, <1>3 DEF Twice
  <1>6. a \notin Twice(E, Z)
    BY <1>2 DEF Twice
  <1> HIDE DEF a
  <1>7. In(a, Twice(D, Z)) = (IF p \in Z THEN d ELSE 0) /\ In(a, Twice(E, Z)) = 0
    BY <1>5, <1>6 DEF Ind, In
  <1>8. /\ IsFiniteSet(Twice(D, Z)) /\ Cardinality(Twice(E, Z)) \in Nat /\ Cardinality(Twice(D, Z)) \in Nat
        /\ Cardinality(Twice(D, Z)) = Cardinality(Twice(E, Z)) + In(a, Twice(D, Z)) - In(a, Twice(E, Z))
    BY <1>1, <1>4, OneMoves
  <1> QED
    BY <1>7, <1>8 DEF D

\* What one request and one pair bring out of balance they bring back.
LEMMA Rebalance ==
  ASSUME TypeOK, NEW r \in Requests, IsFiniteSet(Busy(req)), IsFiniteSet(Twice(extra, Pairs)),
         NEW R, Others(req, R, r),
         NEW what, NEW Z \in SUBSET Pairs, NEW p \in Pairs, NEW n \in Int, NEW m \in Int,
         Even(n, req, what, Z, follows, extra),
         NEW F, SameBut(follows, F, p),
         NEW d \in {0, 1},
         SameBut(Owes(req[r], what, Z), Owes(R[r], what, Z), p),
         m - n + Ind(Adds(R[r], what, Z)) - Ind(Adds(req[r], what, Z)) =
             In(p, Kept(F, Z)) - In(p, Kept(follows, Z)) + (IF p \in Z THEN d ELSE 0)
             + Ind(Adds(R[r], "doc", Z)) - Ind(Adds(req[r], "doc", Z))
             + In(p, Owes(R[r], what, Z)) - In(p, Owes(req[r], what, Z))
  PROVE  Even(m, R, what, Z, F, Raised(extra, p, d))
  <1>1. follows \in SUBSET Pairs /\ extra \in [Pairs -> Nat]
    BY DEF TypeOK
  <1>2. /\ Cardinality(Due(req, what, Z)) \in Nat /\ Cardinality(Due(R, what, Z)) \in Nat
        /\ Cardinality(Due(R, what, Z)) =
               Cardinality(Due(req, what, Z)) + Ind(Adds(R[r], what, Z)) - Ind(Adds(req[r], what, Z))
    BY DueMoves
  <1>3. /\ Cardinality(Due(req, "doc", Z)) \in Nat /\ Cardinality(Due(R, "doc", Z)) \in Nat
        /\ Cardinality(Due(R, "doc", Z)) =
               Cardinality(Due(req, "doc", Z)) + Ind(Adds(R[r], "doc", Z)) - Ind(Adds(req[r], "doc", Z))
    BY DueMoves
  <1>4. /\ Cardinality(Owed(req, what, Z)) \in Nat /\ Cardinality(Owed(R, what, Z)) \in Nat
        /\ Cardinality(Owed(R, what, Z)) =
               Cardinality(Owed(req, what, Z)) + In(p, Owes(R[r], what, Z)) - In(p, Owes(req[r], what, Z))
    <2>1. Cardinality(Owed(req, what, Z)) \in Nat
      BY OwedMoves
    <2>2. Cardinality(Owed(R, what, Z)) \in Nat
      BY OwedMoves
    <2>3. Cardinality(Owed(R, what, Z)) =
               Cardinality(Owed(req, what, Z)) + In(p, Owes(R[r], what, Z)) - In(p, Owes(req[r], what, Z))
      BY OwedMoves
    <2> QED
      BY <2>1, <2>2, <2>3
  <1>5. /\ Cardinality(Kept(follows, Z)) \in Nat /\ Cardinality(Kept(F, Z)) \in Nat
        /\ Cardinality(Kept(F, Z)) =
               Cardinality(Kept(follows, Z)) + In(p, Kept(F, Z)) - In(p, Kept(follows, Z))
    BY <1>1, KeptMoves
  <1>6. /\ Cardinality(Twice(extra, Z)) \in Nat /\ Cardinality(Twice(Raised(extra, p, d), Z)) \in Nat
        /\ Cardinality(Twice(Raised(extra, p, d), Z)) = Cardinality(Twice(extra, Z)) + (IF p \in Z THEN d ELSE 0)
    BY <1>1, TwiceMoves
  <1>7. (\A b : Ind(b) \in {0, 1}) /\ \A x, S : In(x, S) \in {0, 1}
    BY DEF Ind, In
  <1> DEFINE A1 == Ind(Adds(req[r], what, Z))
             A2 == Ind(Adds(R[r], what, Z))
             D1 == Ind(Adds(req[r], "doc", Z))
             D2 == Ind(Adds(R[r], "doc", Z))
             O1 == In(p, Owes(req[r], what, Z))
             O2 == In(p, Owes(R[r], what, Z))
             F1 == In(p, Kept(follows, Z))
             F2 == In(p, Kept(F, Z))
             T2 == IF p \in Z THEN d ELSE 0
  <1>8. /\ A1 \in Int /\ A2 \in Int /\ D1 \in Int /\ D2 \in Int /\ O1 \in Int /\ O2 \in Int /\ F1 \in Int /\ F2 \in Int /\ T2 \in Int
        /\ m - n + A2 - A1 = F2 - F1 + T2 + D2 - D1 + O2 - O1
    BY <1>7
  <1>9. /\ Cardinality(Due(R, what, Z)) = Cardinality(Due(req, what, Z)) + A2 - A1
        /\ Cardinality(Due(R, "doc", Z)) = Cardinality(Due(req, "doc", Z)) + D2 - D1
        /\ Cardinality(Owed(R, what, Z)) = Cardinality(Owed(req, what, Z)) + O2 - O1
        /\ Cardinality(Kept(F, Z)) = Cardinality(Kept(follows, Z)) + F2 - F1
        /\ Cardinality(Twice(Raised(extra, p, d), Z)) = Cardinality(Twice(extra, Z)) + T2
    BY <1>2, <1>3, <1>4, <1>5, <1>6
  <1> HIDE DEF A1, A2, D1, D2, O1, O2, F1, F2, T2
  <1> QED
    BY <1>2, <1>3, <1>4, <1>5, <1>6, <1>8, <1>9 DEF Even

\* A follow that is being made is the one of p.
About(q, p) == q.pc = "tasks" /\ q.op = "follow" => q.pair = p

\* What a request has still to do about p, on one side of the equation or the other.
Weight(q, what, p) == Ind(Adds(q, "doc", {p})) + In(p, Owes(q, what, {p})) - Ind(Adds(q, what, {p}))

LEMMA AddsAt ==
  ASSUME NEW q, NEW what, NEW p, NEW Z, About(q, p)
  PROVE  Ind(Adds(q, what, Z)) = (IF p \in Z THEN Ind(Adds(q, what, {p})) ELSE 0)
  <1>1. CASE p \in Z
    <2>1. Adds(q, what, Z) <=> Adds(q, what, {p})
      BY <1>1 DEF Adds, About
    <2> QED
      BY <1>1, <2>1 DEF Ind
  <1>2. CASE p \notin Z
    <2>1. ~Adds(q, what, Z)
      BY <1>2 DEF Adds, About
    <2> QED
      BY <1>2, <2>1 DEF Ind
  <1> QED
    BY <1>1, <1>2

LEMMA OwesAt ==
  ASSUME NEW q, NEW what, NEW p, NEW Z
  PROVE  In(p, Owes(q, what, Z)) = (IF p \in Z THEN In(p, Owes(q, what, {p})) ELSE 0)
  <1>1. CASE p \in Z
    <2>1. p \in Owes(q, what, Z) <=> p \in Owes(q, what, {p})
      BY <1>1 DEF Owes
    <2> QED
      BY <1>1, <2>1 DEF In
  <1>2. CASE p \notin Z
    <2>1. p \notin Owes(q, what, Z)
      BY <1>2 DEF Owes
    <2> QED
      BY <1>2, <2>1 DEF In
  <1> QED
    BY <1>1, <1>2

LEMMA KeptAt ==
  ASSUME NEW F, NEW p, NEW Z
  PROVE  In(p, Kept(F, Z)) = (IF p \in Z THEN In(p, F) ELSE 0)
  BY DEF In, Kept

LEMMA OwesSame ==
  ASSUME NEW q, NEW t, NEW what, NEW p, NEW Z \in SUBSET Pairs, SameBut(Owes(q, what, Pairs), Owes(t, what, Pairs), p)
  PROVE  SameBut(Owes(q, what, Z), Owes(t, what, Z), p)
  <1>1. \A x : (x \in Owes(q, what, Z) <=> x \in Z /\ x \in Owes(q, what, Pairs))
               /\ (x \in Owes(t, what, Z) <=> x \in Z /\ x \in Owes(t, what, Pairs))
    BY DEF Owes
  <1> QED
    BY <1>1 DEF SameBut

LEMMA SideStays ==
  ASSUME TypeOK, NEW r \in Requests, IsFiniteSet(Busy(req)), IsFiniteSet(Twice(extra, Pairs)),
         NEW R, Others(req, R, r),
         NEW what, NEW Z \in SUBSET Pairs, NEW p \in Pairs, NEW n \in Int, NEW m \in Int,
         Even(n, req, what, Z, follows, extra),
         NEW F, SameBut(follows, F, p), NEW d \in {0, 1},
         SameBut(Owes(req[r], what, Pairs), Owes(R[r], what, Pairs), p),
         About(req[r], p), About(R[r], p),
         m = n + (IF p \in Z THEN In(p, F) - In(p, follows) + d + Weight(R[r], what, p) - Weight(req[r], what, p) ELSE 0)
  PROVE  Even(m, R, what, Z, F, Raised(extra, p, d))
  <1>1. SameBut(Owes(req[r], what, Z), Owes(R[r], what, Z), p)
    BY OwesSame
  <1>2. m - n + Ind(Adds(R[r], what, Z)) - Ind(Adds(req[r], what, Z)) =
             In(p, Kept(F, Z)) - In(p, Kept(follows, Z)) + (IF p \in Z THEN d ELSE 0)
             + Ind(Adds(R[r], "doc", Z)) - Ind(Adds(req[r], "doc", Z))
             + In(p, Owes(R[r], what, Z)) - In(p, Owes(req[r], what, Z))
    <2>1. /\ Ind(Adds(R[r], what, Z)) = (IF p \in Z THEN Ind(Adds(R[r], what, {p})) ELSE 0)
          /\ Ind(Adds(req[r], what, Z)) = (IF p \in Z THEN Ind(Adds(req[r], what, {p})) ELSE 0)
          /\ Ind(Adds(R[r], "doc", Z)) = (IF p \in Z THEN Ind(Adds(R[r], "doc", {p})) ELSE 0)
          /\ Ind(Adds(req[r], "doc", Z)) = (IF p \in Z THEN Ind(Adds(req[r], "doc", {p})) ELSE 0)
      BY AddsAt
    <2>2. /\ In(p, Owes(R[r], what, Z)) = (IF p \in Z THEN In(p, Owes(R[r], what, {p})) ELSE 0)
          /\ In(p, Owes(req[r], what, Z)) = (IF p \in Z THEN In(p, Owes(req[r], what, {p})) ELSE 0)
      BY OwesAt
    <2>3. /\ In(p, Kept(F, Z)) = (IF p \in Z THEN In(p, F) ELSE 0)
          /\ In(p, Kept(follows, Z)) = (IF p \in Z THEN In(p, follows) ELSE 0)
      BY KeptAt
    <2>4. /\ Ind(Adds(R[r], what, {p})) \in Int /\ Ind(Adds(req[r], what, {p})) \in Int
          /\ Ind(Adds(R[r], "doc", {p})) \in Int /\ Ind(Adds(req[r], "doc", {p})) \in Int
          /\ In(p, Owes(R[r], what, {p})) \in Int /\ In(p, Owes(req[r], what, {p})) \in Int
          /\ In(p, F) \in Int /\ In(p, follows) \in Int
      BY DEF Ind, In
    <2>5. Weight(R[r], what, p) = Ind(Adds(R[r], "doc", {p})) + In(p, Owes(R[r], what, {p})) - Ind(Adds(R[r], what, {p}))
      BY DEF Weight
    <2>6. Weight(req[r], what, p) = Ind(Adds(req[r], "doc", {p})) + In(p, Owes(req[r], what, {p})) - Ind(Adds(req[r], what, {p}))
      BY DEF Weight
    <2>7. CASE p \in Z
      BY <2>1, <2>2, <2>3, <2>4, <2>5, <2>6, <2>7
    <2>8. CASE p \notin Z
      BY <2>1, <2>2, <2>3, <2>8
    <2> QED
      BY <2>7, <2>8
  <1> QED
    BY <1>1, <1>2, Rebalance

Side(what, u) == IF what = "out" THEN From(u) ELSE To(u)
Tally(what, out, in) == IF what = "out" THEN out ELSE in
AllActive == \A u \in Users : Active(u)

\* The tasks a request can have.
Shaped(q) ==
    /\ q.pc = "create" => q.op # "follow"
    /\ q.pc # "enqueue"
    /\ q.pc # "tasks" => q.found = {}
    /\ q.pc = "tasks" /\ q.op = "follow" => q.tasks \subseteq Tasks({"doc", "out", "in"}, {q.pair}) /\ q.found = {}
    /\ q.pc = "tasks" /\ q.op # "follow" =>
           \/ q.tasks \subseteq Tasks({"out", "in", "note"}, Pairs) /\ q.found = {}
           \/ q.tasks \subseteq Tasks({"cut"}, Pairs) /\ \A p \in q.found : Of("cut", p) \notin q.tasks

Balanced(Q, out, in, F, E) ==
    \A what \in {"out", "in"}, u \in Users : Even(Tally(what, out, in)[u], Q, what, Side(what, u), F, E)

Settled(Q, J, E) ==
    /\ IsFiniteSet(Busy(Q)) /\ IsFiniteSet(Twice(E, Pairs))
    /\ \A r \in Requests : Shaped(Q[r])
    /\ \A u \in Users : J[u].pc = "none"

\* As long as the process has not died and no account was deactivated, the counters are in balance.
CountInv ==
    crashes = 0 /\ AllActive => Settled(req, job, extra) /\ Balanced(req, following, followers, follows, extra)

LEMMA SidesAreIn == \A what, u : Side(what, u) \in SUBSET Pairs
  BY DEF Side, From, To

\* What a task or a hand-over of the tasks has to respect.
LEMMA CountStays ==
  ASSUME TypeOK, TypeOK', NEW r \in Requests, Settled(req, job, extra), Balanced(req, following, followers, follows, extra),
         Others(req, req', r), Shaped(req'[r]), job' = job,
         NEW p \in Pairs, NEW d \in {0, 1}, SameBut(follows, follows', p), extra' = Raised(extra, p, d),
         About(req[r], p), About(req'[r], p),
         \A what \in {"out", "in"} : SameBut(Owes(req[r], what, Pairs), Owes(req'[r], what, Pairs), p),
         \A what \in {"out", "in"}, u \in Users :
             Tally(what, following', followers')[u] = Tally(what, following, followers)[u] +
                 (IF p \in Side(what, u)
                  THEN In(p, follows') - In(p, follows) + d + Weight(req'[r], what, p) - Weight(req[r], what, p) ELSE 0)
  PROVE  Settled(req', job', extra') /\ Balanced(req', following', followers', follows', extra')
  <1>1. IsFiniteSet(Busy(req)) /\ IsFiniteSet(Twice(extra, Pairs))
    BY DEF Settled
  <1>2. IsFiniteSet(Busy(req'))
    <2>1. IsFiniteSet(Busy(req) \union {r})
      BY <1>1, FS_AddElement
    <2>2. Busy(req') \in SUBSET (Busy(req) \union {r})
      BY DEF Busy, Others
    <2> QED
      BY <2>1, <2>2, FS_Subset
  <1>3. IsFiniteSet(Twice(extra', Pairs))
    <2>1. extra \in [Pairs -> Nat] /\ Pairs \in SUBSET Pairs
      BY DEF TypeOK
    <2> QED
      BY <1>1, <2>1, TwiceMoves
  <1>4. \A s \in Requests : Shaped(req'[s])
    BY DEF Settled, Others
  <1>5. Settled(req', job', extra')
    BY <1>2, <1>3, <1>4 DEF Settled
  <1>6. ASSUME NEW what \in {"out", "in"}, NEW u \in Users
        PROVE  Even(Tally(what, following', followers')[u], req', what, Side(what, u), follows', extra')
    <2>1. Side(what, u) \in SUBSET Pairs
      BY SidesAreIn
    <2>2. Tally(what, following', followers')[u] \in Int
      BY DEF TypeOK, Tally
    <2>3. Tally(what, following, followers)[u] \in Int
      BY DEF TypeOK, Tally
    <2>4. Even(Tally(what, following, followers)[u], req, what, Side(what, u), follows, extra)
      BY DEF Balanced
    <2>5. SameBut(Owes(req[r], what, Pairs), Owes(req'[r], what, Pairs), p)
      OBVIOUS
    <2>6. Tally(what, following', followers')[u] = Tally(what, following, followers)[u] +
                 (IF p \in Side(what, u)
                  THEN In(p, follows') - In(p, follows) + d + Weight(req'[r], what, p) - Weight(req[r], what, p) ELSE 0)
      OBVIOUS
    <2>7. Even(Tally(what, following', followers')[u], req', what, Side(what, u), follows', Raised(extra, p, d))
      BY <1>1, <2>1, <2>2, <2>3, <2>4, <2>5, <2>6, SideStays
    <2> QED
      BY <2>7
  <1> QED
    BY <1>5, <1>6 DEF Balanced

\* A request that runs no task owes nothing.
LEMMA NothingDue ==
  ASSUME NEW q, q.pc # "tasks", NEW what, NEW p
  PROVE  Owes(q, what, Pairs) = {} /\ Weight(q, what, p) = 0 /\ About(q, p)
  <1>1. Owes(q, what, Pairs) = {} /\ Owes(q, what, {p}) = {} /\ ~Adds(q, what, {p}) /\ ~Adds(q, "doc", {p})
    BY DEF Owes, Adds
  <1>2. Ind(Adds(q, "doc", {p})) = 0 /\ Ind(Adds(q, what, {p})) = 0 /\ In(p, Owes(q, what, {p})) = 0
    BY <1>1 DEF Ind, In
  <1> QED
    BY <1>1, <1>2 DEF Weight, About

\* A follow that starts adds as much as it makes, and a block counts off nothing before it cuts.
LEMMA NothingDueYet ==
  ASSUME NEW q, NEW p, q.pc = "tasks", q.found = {}, NEW what \in {"out", "in"},
         \/ q.op = "follow" /\ q.pair = p /\ q.tasks = Tasks({"doc", "out", "in"}, {p})
         \/ q.op # "follow" /\ q.tasks \subseteq Tasks({"cut"}, Pairs)
  PROVE  Owes(q, what, Pairs) = {} /\ Weight(q, what, p) = 0 /\ About(q, p)
  <1>1. CASE q.op = "follow" /\ q.pair = p /\ q.tasks = Tasks({"doc", "out", "in"}, {p})
    <2>1. Owes(q, what, Pairs) = {} /\ Owes(q, what, {p}) = {}
      BY <1>1 DEF Owes
    <2>2. Of(what, p) \in q.tasks /\ Of("doc", p) \in q.tasks
      BY <1>1 DEF Of, Tasks
    <2>3. Adds(q, what, {p}) /\ Adds(q, "doc", {p})
      BY <1>1, <2>2 DEF Adds
    <2>4. Ind(Adds(q, "doc", {p})) = 1 /\ Ind(Adds(q, what, {p})) = 1 /\ In(p, Owes(q, what, {p})) = 0
      BY <2>1, <2>3 DEF Ind, In
    <2> QED
      BY <1>1, <2>1, <2>4 DEF Weight, About
  <1>2. CASE q.op # "follow" /\ q.tasks \subseteq Tasks({"cut"}, Pairs)
    <2>1. \A x : Of(what, x) \notin q.tasks
      BY <1>2 DEF Of, Tasks
    <2>2. Owes(q, what, Pairs) = {} /\ Owes(q, what, {p}) = {} /\ ~Adds(q, what, {p}) /\ ~Adds(q, "doc", {p})
      BY <1>2, <2>1 DEF Owes, Adds
    <2>3. Ind(Adds(q, "doc", {p})) = 0 /\ Ind(Adds(q, what, {p})) = 0 /\ In(p, Owes(q, what, {p})) = 0
      BY <2>2 DEF Ind, In
    <2> QED
      BY <1>2, <2>2, <2>3 DEF Weight, About
  <1> QED
    BY <1>1, <1>2

\* Follows and counters stay, and what is to be done about them.
LEMMA NothingCounts ==
  ASSUME TypeOK, TypeOK', NEW r \in Requests, Settled(req, job, extra), Balanced(req, following, followers, follows, extra),
         Others(req, req', r), Shaped(req'[r]), UNCHANGED <<job, follows, following, followers, extra>>,
         NEW p \in Pairs, req[r].pc # "tasks",
         \A what \in {"out", "in"} : Owes(req'[r], what, Pairs) = {} /\ Weight(req'[r], what, p) = 0 /\ About(req'[r], p)
  PROVE  Settled(req', job', extra') /\ Balanced(req', following', followers', follows', extra')
  <1>1. \A what \in {"out", "in"} : Owes(req[r], what, Pairs) = {} /\ Weight(req[r], what, p) = 0 /\ About(req[r], p)
    BY NothingDue
  <1>2. extra' = Raised(extra, p, 0)
    BY DEF TypeOK, Raised
  <1>3. SameBut(follows, follows', p)
    BY DEF SameBut
  <1>4. \A what \in {"out", "in"} : SameBut(Owes(req[r], what, Pairs), Owes(req'[r], what, Pairs), p)
    BY <1>1 DEF SameBut
  <1>5. ASSUME NEW what \in {"out", "in"}, NEW u \in Users
        PROVE  Tally(what, following', followers')[u] = Tally(what, following, followers)[u] +
                 (IF p \in Side(what, u)
                  THEN In(p, follows') - In(p, follows) + 0 + Weight(req'[r], what, p) - Weight(req[r], what, p) ELSE 0)
    <2>1. Tally(what, following', followers')[u] = Tally(what, following, followers)[u]
      BY DEF Tally
    <2>2. Tally(what, following, followers)[u] \in Int
      BY DEF TypeOK, Tally
    <2>3. In(p, follows') = In(p, follows) /\ In(p, follows) \in Int
      BY DEF In
    <2>4. Weight(req'[r], what, p) = 0 /\ Weight(req[r], what, p) = 0
      BY <1>1
    <2> QED
      BY <2>1, <2>2, <2>3, <2>4
  <1>6. About(req[r], p) /\ About(req'[r], p) /\ job' = job
    BY <1>1
  <1> QED
    BY <1>2, <1>3, <1>4, <1>5, <1>6, CountStays

\* The request that takes the step was not in the middle of its tasks.
LEMMA HandOver ==
  ASSUME TypeOK, TypeOK', NEW r \in Requests, Settled(req, job, extra), Balanced(req, following, followers, follows, extra),
         UNCHANGED <<job, follows, following, followers, extra>>, req[r].pc # "tasks",
         NEW q \in Request, req' = [req EXCEPT ![r] = q], Shaped(q),
         \/ q.pc # "tasks"
         \/ q.op = "follow" /\ q.tasks = Tasks({"doc", "out", "in"}, {q.pair})
         \/ q.op # "follow" /\ q.tasks \subseteq Tasks({"cut"}, Pairs) /\ q.found = {}
  PROVE  Settled(req', job', extra') /\ Balanced(req', following', followers', follows', extra')
  <1>1. req'[r] = q /\ Others(req, req', r)
    BY DEF TypeOK, Others
  <1>2. q.pair \in Pairs
    BY DEF Request
  <1>3. \A what \in {"out", "in"} : Owes(q, what, Pairs) = {} /\ Weight(q, what, q.pair) = 0 /\ About(q, q.pair)
    <2>1. CASE q.pc # "tasks"
      BY <2>1, NothingDue
    <2>2. CASE q.pc = "tasks"
      <3>1. q.found = {}
        BY <2>2 DEF Shaped
      <3> QED
        BY <2>2, <3>1, <1>2, NothingDueYet
    <2> QED
      BY <2>1, <2>2
  <1> QED
    BY <1>1, <1>2, <1>3, NothingCounts

LEMMA GotoCount ==
  ASSUME TypeOK, TypeOK', NEW r \in Requests, Settled(req, job, extra), Balanced(req, following, followers, follows, extra),
         UNCHANGED <<job, follows, following, followers, extra>>, req[r].pc # "tasks",
         NEW pc \in ReqPc \ {"tasks", "enqueue"}, Goto(r, pc), pc = "create" => req[r].op # "follow"
  PROVE  Settled(req', job', extra') /\ Balanced(req', following', followers', follows', extra')
  <1> DEFINE q == [req[r] EXCEPT !.pc = pc]
  <1>1. req[r] \in Request /\ Shaped(req[r])
    BY DEF TypeOK, Settled
  <1>2. req' = [req EXCEPT ![r] = q]
    BY DEF Goto
  <1>3. q \in Request /\ q.pc = pc /\ q.op = req[r].op /\ q.tasks = req[r].tasks /\ q.found = req[r].found
    BY <1>1 DEF Request
  <1> HIDE DEF q
  <1>4. req[r].found = {}
    BY <1>1 DEF Shaped
  <1>5. Shaped(q) /\ q.pc # "tasks"
    BY <1>3, <1>4 DEF Shaped
  <1> QED
    BY <1>2, <1>3, <1>5, HandOver

LEMMA FinishCount ==
  ASSUME TypeOK, TypeOK', NEW r \in Requests, Settled(req, job, extra), Balanced(req, following, followers, follows, extra),
         UNCHANGED <<job, follows, following, followers, extra>>, req[r].pc # "tasks", Finish(r)
  PROVE  Settled(req', job', extra') /\ Balanced(req', following', followers', follows', extra')
  <1> DEFINE q == NoRequest("done")
  <1>1. q \in Request
    BY NoRequestType DEF ReqPc
  <1>2. req' = [req EXCEPT ![r] = q]
    BY DEF Finish
  <1>3. Shaped(q) /\ q.pc # "tasks"
    BY DEF Shaped, NoRequest
  <1> HIDE DEF q
  <1> QED
    BY <1>1, <1>2, <1>3, HandOver

LEMMA LaunchCount ==
  ASSUME TypeOK, TypeOK', NEW r \in Requests, Settled(req, job, extra), Balanced(req, following, followers, follows, extra),
         UNCHANGED <<job, follows, following, followers, extra>>, req[r].pc # "tasks",
         NEW tasks \in SUBSET Task, Launch(r, tasks),
         \/ req[r].op = "follow" /\ tasks = Tasks({"doc", "out", "in"}, {req[r].pair})
         \/ req[r].op # "follow" /\ tasks \subseteq Tasks({"cut"}, Pairs)
  PROVE  Settled(req', job', extra') /\ Balanced(req', following', followers', follows', extra')
  <1> DEFINE q == [req[r] EXCEPT !.pc = "tasks", !.tasks = tasks]
  <1>1. req[r] \in Request /\ Shaped(req[r])
    BY DEF TypeOK, Settled
  <1>2. req' = [req EXCEPT ![r] = q]
    BY DEF Launch
  <1>3. q \in Request /\ q.pc = "tasks" /\ q.op = req[r].op /\ q.tasks = tasks /\ q.found = req[r].found /\ q.pair = req[r].pair
    BY <1>1 DEF Request, ReqPc
  <1> HIDE DEF q
  <1>4. q.found = {}
    BY <1>1, <1>3 DEF Shaped
  <1>5. CASE q.op = "follow"
    <2>1. q.tasks = Tasks({"doc", "out", "in"}, {q.pair})
      BY <1>3, <1>5
    <2>2. Shaped(q)
      BY <1>3, <1>4, <1>5, <2>1 DEF Shaped
    <2> QED
      BY <1>2, <1>3, <1>5, <2>1, <2>2, HandOver
  <1>6. CASE q.op # "follow"
    <2>1. q.tasks \subseteq Tasks({"cut"}, Pairs)
      BY <1>3, <1>6
    <2>2. Shaped(q)
      BY <1>3, <1>4, <1>6, <2>1 DEF Shaped
    <2> QED
      BY <1>2, <1>3, <1>4, <1>6, <2>1, <2>2, HandOver
  <1> QED
    BY <1>5, <1>6

\* An unfollow owes the follow it deletes to both counters.
LEMMA UnfollowCount ==
  ASSUME TypeOK, TypeOK', NEW r \in Requests, Settled(req, job, extra), Balanced(req, following, followers, follows, extra),
         UNCHANGED <<job, following, followers, extra>>, req[r].pc # "tasks", req[r].op = "unfollow",
         req[r].pair \in follows, follows' = follows \ {req[r].pair},
         Launch(r, Tasks({"out", "in", "note"}, {req[r].pair}))
  PROVE  Settled(req', job', extra') /\ Balanced(req', following', followers', follows', extra')
  <1> DEFINE p == req[r].pair
             q == [req[r] EXCEPT !.pc = "tasks", !.tasks = Tasks({"out", "in", "note"}, {p})]
  <1>1. req[r] \in Request /\ Shaped(req[r]) /\ p \in Pairs
    BY DEF TypeOK, Settled, Request
  <1>2. req'[r] = q /\ Others(req, req', r)
    BY DEF Launch, TypeOK, Others
  <1>3. /\ q.pc = "tasks" /\ q.op = "unfollow" /\ q.tasks = Tasks({"out", "in", "note"}, {p})
        /\ q.found = req[r].found /\ q.pair = p
    BY <1>1 DEF Request
  <1> HIDE DEF q, p
  <1>4. q.found = {}
    BY <1>1, <1>3 DEF Shaped
  <1>5. Shaped(q)
    <2>1. q.tasks \subseteq Tasks({"out", "in", "note"}, Pairs)
      BY <1>1, <1>3 DEF Tasks
    <2> QED
      BY <1>3, <1>4, <2>1 DEF Shaped
  <1>6. About(req[r], p) /\ About(q, p)
    BY <1>3 DEF About
  <1>7. extra' = Raised(extra, p, 0) /\ SameBut(follows, follows', p)
    BY DEF TypeOK, Raised, SameBut, p
  <1>8. \A what \in {"out", "in"} : Owes(req[r], what, Pairs) = {} /\ Weight(req[r], what, p) = 0
    BY NothingDue
  <1>9. \A what \in {"out", "in"} : Owes(q, what, Pairs) = {p} /\ Weight(q, what, p) = 1
    <2> TAKE what \in {"out", "in"}
    <2>1. \A x : Of(what, x) \in q.tasks <=> x = p
      BY <1>3 DEF Of, Tasks
    <2>2. Owes(q, what, Pairs) = {p} /\ Owes(q, what, {p}) = {p} /\ ~Adds(q, what, {p}) /\ ~Adds(q, "doc", {p})
      BY <1>1, <1>3, <1>4, <2>1 DEF Owes, Adds
    <2>3. Ind(Adds(q, "doc", {p})) = 0 /\ Ind(Adds(q, what, {p})) = 0 /\ In(p, Owes(q, what, {p})) = 1
      BY <2>2 DEF Ind, In
    <2> QED
      BY <2>2, <2>3 DEF Weight
  <1>10. \A what \in {"out", "in"} : SameBut(Owes(req[r], what, Pairs), Owes(q, what, Pairs), p)
    BY <1>8, <1>9 DEF SameBut
  <1>11. In(p, follows') = 0 /\ In(p, follows) = 1
    BY DEF In, p
  <1>12. ASSUME NEW what \in {"out", "in"}, NEW u \in Users
         PROVE  Tally(what, following', followers')[u] = Tally(what, following, followers)[u] +
                 (IF p \in Side(what, u)
                  THEN In(p, follows') - In(p, follows) + 0 + Weight(q, what, p) - Weight(req[r], what, p) ELSE 0)
    <2>1. Tally(what, following', followers')[u] = Tally(what, following, followers)[u]
      BY DEF Tally
    <2>2. Tally(what, following, followers)[u] \in Int
      BY DEF TypeOK, Tally
    <2> QED
      BY <1>8, <1>9, <1>11, <2>1, <2>2
  <1> QED
    BY <1>1, <1>2, <1>5, <1>6, <1>7, <1>10, <1>12, CountStays

LEMMA SendCount ==
  ASSUME TypeOK, TypeOK', NEW r \in Requests, Settled(req, job, extra), Balanced(req, following, followers, follows, extra),
         NEW op \in Op, NEW p \in Pairs, Send(r, op, p)
  PROVE  Settled(req', job', extra') /\ Balanced(req', following', followers', follows', extra')
  <1> DEFINE q == [req[r] EXCEPT !.op = op, !.pair = p, !.pc = Entry[op]]
  <1>1. req[r] \in Request /\ Shaped(req[r]) /\ req[r].pc = "idle"
    BY DEF TypeOK, Settled, Send, At
  <1>2. req' = [req EXCEPT ![r] = q]
    BY DEF Send
  <1>3. Entry[op] \in {"rules", "remove", "target", "mark"}
    BY DEF Entry, Op
  <1>4. q \in Request /\ q.pc = Entry[op] /\ q.found = req[r].found
    BY <1>1, <1>3 DEF Request, ReqPc
  <1> HIDE DEF q
  <1>5. Shaped(q) /\ q.pc # "tasks" /\ req[r].pc # "tasks"
    BY <1>1, <1>3, <1>4 DEF Shaped
  <1>6. UNCHANGED <<job, follows, following, followers, extra>>
    BY DEF Send, relations, counters
  <1> QED
    BY <1>2, <1>4, <1>5, <1>6, HandOver

LEMMA RequestCount ==
  ASSUME TypeOK, TypeOK', NEW r \in Requests, Settled(req, job, extra), Balanced(req, following, followers, follows, extra),
         \/ EnsureUsersCanInteract(r) \/ FindTarget(r) \/ FindExisting(r)
         \/ CreateBlock(r) \/ Remove(r) \/ CheckNote(r) \/ SendNote(r)
  PROVE  Settled(req', job', extra') /\ Balanced(req', following', followers', follows', extra')
  <1> USE DEF relations, counters
  <1>1. req[r] \in Request /\ Shaped(req[r]) /\ req[r].pair \in Pairs /\ Back(req[r].pair) \in Pairs
    BY PairEnds DEF TypeOK, Settled, Request
  <1>2. CASE EnsureUsersCanInteract(r)
    <2>1. UNCHANGED <<job, follows, following, followers, extra>> /\ req[r].pc # "tasks"
      BY <1>2 DEF EnsureUsersCanInteract, At
    <2>2. Goto(r, "target") \/ Finish(r)
      BY <1>2 DEF EnsureUsersCanInteract, Choose
    <2> QED
      BY <2>1, <2>2, GotoCount, FinishCount DEF ReqPc
  <1>3. CASE FindTarget(r)
    <2>1. UNCHANGED <<job, follows, following, followers, extra>> /\ req[r].pc # "tasks"
      BY <1>3 DEF FindTarget, At
    <2>2. Goto(r, "existing") \/ Finish(r)
      BY <1>3 DEF FindTarget, Choose
    <2> QED
      BY <2>1, <2>2, GotoCount, FinishCount DEF ReqPc
  <1>4. CASE FindExisting(r)
    <2>1. UNCHANGED <<job, follows, following, followers, extra>> /\ req[r].pc # "tasks"
      BY <1>4 DEF FindExisting, At
    <2>2. \/ Finish(r)
          \/ req[r].op = "follow" /\ Launch(r, Tasks({"doc", "out", "in"}, {req[r].pair}))
          \/ req[r].op # "follow" /\ Goto(r, "create")
      BY <1>4 DEF FindExisting, Choose
    <2>3. Tasks({"doc", "out", "in"}, {req[r].pair}) \in SUBSET Task
      BY <1>1, TasksType
    <2>4. CASE Finish(r)
      BY <2>1, <2>4, FinishCount
    <2>5. CASE req[r].op = "follow" /\ Launch(r, Tasks({"doc", "out", "in"}, {req[r].pair}))
      BY <2>1, <2>3, <2>5, LaunchCount
    <2>6. CASE req[r].op # "follow" /\ Goto(r, "create")
      BY <2>1, <2>6, GotoCount DEF ReqPc
    <2> QED
      BY <2>2, <2>4, <2>5, <2>6
  <1>5. CASE CreateBlock(r)
    <2>1. UNCHANGED <<job, follows, following, followers, extra>> /\ req[r].pc = "create"
      BY <1>5 DEF CreateBlock, At
    <2>2. Finish(r) \/ Launch(r, CutBothWays(req[r].pair))
      BY <1>5 DEF CreateBlock
    <2>3. req[r].op # "follow"
      BY <1>1, <2>1 DEF Shaped
    <2>4. CutBothWays(req[r].pair) \in SUBSET Task /\ CutBothWays(req[r].pair) \subseteq Tasks({"cut"}, Pairs)
      BY <1>1 DEF CutBothWays, Tasks, Task
    <2> QED
      BY <2>1, <2>2, <2>3, <2>4, FinishCount, LaunchCount
  <1>6. CASE Remove(r)
    <2>1. UNCHANGED <<job, following, followers, extra>> /\ req[r].pc # "tasks"
      BY <1>6 DEF Remove, At
    <2>2. \/ Finish(r) /\ follows' = follows
          \/ /\ req[r].op = "unfollow" /\ req[r].pair \in follows /\ follows' = follows \ {req[r].pair}
             /\ Launch(r, Tasks({"out", "in", "note"}, {req[r].pair}))
      BY <1>6 DEF Remove
    <2>3. CASE Finish(r) /\ follows' = follows
      BY <2>1, <2>3, FinishCount
    <2>4. CASE /\ req[r].op = "unfollow" /\ req[r].pair \in follows /\ follows' = follows \ {req[r].pair}
               /\ Launch(r, Tasks({"out", "in", "note"}, {req[r].pair}))
      BY <2>1, <2>4, UnfollowCount
    <2> QED
      BY <2>2, <2>3, <2>4
  <1>7. CASE CheckNote(r)
    <2>1. UNCHANGED <<job, follows, following, followers, extra>> /\ req[r].pc # "tasks"
      BY <1>7 DEF CheckNote, At
    <2>2. Goto(r, "note") \/ Finish(r)
      BY <1>7 DEF CheckNote, Choose
    <2> QED
      BY <2>1, <2>2, GotoCount, FinishCount DEF ReqPc
  <1>8. CASE SendNote(r)
    <2>1. UNCHANGED <<job, follows, following, followers, extra>> /\ req[r].pc # "tasks" /\ Finish(r)
      BY <1>8 DEF SendNote, At
    <2> QED
      BY <2>1, FinishCount
  <1> QED
    BY <1>2, <1>3, <1>4, <1>5, <1>6, <1>7, <1>8

\* What is left of a request after one of its tasks.
LEMMA Resumed ==
  ASSUME req \in [Requests -> Request], NEW r \in Requests, req[r].pc = "tasks", req[r].op = "follow" => req[r].found = {},
         NEW T \in SUBSET Task, NEW F \in SUBSET Pairs, NEW failed, Resume(r, T, F, failed)
  PROVE  /\ Others(req, req', r)
         /\ \/ T # {} /\ req'[r].pc = "tasks" /\ req'[r].tasks = T /\ req'[r].found = F
               /\ req'[r].op = req[r].op /\ req'[r].pair = req[r].pair
            \/ T = {} /\ F # {} /\ req'[r].pc = "tasks" /\ req'[r].tasks = Tasks({"out", "in", "note"}, F) /\ req'[r].found = {}
               /\ req'[r].op = req[r].op /\ req'[r].pair = req[r].pair
            \/ T = {} /\ F = {} /\ req'[r].pc \in {"notify", "done"} /\ req'[r].found = {}
  <1>1. req[r] \in Request
    OBVIOUS
  <1>2. Others(req, req', r)
    BY DEF Resume, Others
  <1>3. CASE T # {}
    <2>1. req'[r] = [req[r] EXCEPT !.tasks = T, !.found = F, !.failed = failed]
      BY <1>3 DEF Resume
    <2>2. /\ req'[r].pc = "tasks" /\ req'[r].tasks = T /\ req'[r].found = F
          /\ req'[r].op = req[r].op /\ req'[r].pair = req[r].pair
      BY <1>1, <2>1 DEF Request
    <2> QED
      BY <1>2, <1>3, <2>2
  <1>4. CASE T = {} /\ F # {}
    <2>1. req'[r] = [req[r] EXCEPT !.tasks = Tasks({"out", "in", "note"}, F), !.found = {}]
      BY <1>4 DEF Resume
    <2>2. /\ req'[r].pc = "tasks" /\ req'[r].tasks = Tasks({"out", "in", "note"}, F) /\ req'[r].found = {}
          /\ req'[r].op = req[r].op /\ req'[r].pair = req[r].pair
      BY <1>1, <2>1 DEF Request
    <2> QED
      BY <1>2, <1>4, <2>2
  <1>5. CASE T = {} /\ F = {}
    <2>1. \/ req[r].op = "follow" /\ req'[r] = [req[r] EXCEPT !.tasks = {}, !.pc = "notify"]
          \/ req'[r] = NoRequest("done")
      BY <1>5 DEF Resume
    <2>2. CASE req[r].op = "follow" /\ req'[r] = [req[r] EXCEPT !.tasks = {}, !.pc = "notify"]
      <3>1. req'[r].pc = "notify" /\ req'[r].found = {}
        BY <1>1, <2>2 DEF Request
      <3> QED
        BY <1>2, <1>5, <3>1
    <2>3. CASE req'[r] = NoRequest("done")
      <3>1. req'[r].pc = "done" /\ req'[r].found = {}
        BY <2>3 DEF NoRequest
      <3> QED
        BY <1>2, <1>5, <3>1
    <2> QED
      BY <2>1, <2>2, <2>3
  <1> QED
    BY <1>3, <1>4, <1>5

\* A follow makes its document and adds to the counters.
LEMMA WeightOfFollow ==
  ASSUME NEW q, NEW T, NEW p, NEW what \in {"out", "in"},
         \/ q.pc = "tasks" /\ q.op = "follow" /\ q.pair = p /\ q.tasks = T /\ q.found = {}
         \/ q.pc # "tasks" /\ T = {}
  PROVE  Owes(q, what, Pairs) = {} /\ About(q, p) /\ Weight(q, what, p) = In(Of("doc", p), T) - In(Of(what, p), T)
  <1>1. Owes(q, what, Pairs) = {} /\ Owes(q, what, {p}) = {} /\ About(q, p)
    BY DEF Owes, About
  <1>2. (Adds(q, "doc", {p}) <=> Of("doc", p) \in T) /\ (Adds(q, what, {p}) <=> Of(what, p) \in T)
    BY DEF Adds
  <1>3. Ind(Adds(q, "doc", {p})) = In(Of("doc", p), T) /\ Ind(Adds(q, what, {p})) = In(Of(what, p), T)
        /\ In(p, Owes(q, what, {p})) = 0
    BY <1>1, <1>2 DEF Ind, In
  <1>4. In(Of("doc", p), T) \in Int /\ In(Of(what, p), T) \in Int
    BY DEF In
  <1> QED
    BY <1>1, <1>3, <1>4 DEF Weight

\* The pairs of the tasks for a counter.
Named(what, T) == {x \in Pairs : Of(what, x) \in T}

\* An unfollow or a block counts off what its tasks say.
LEMMA WeightOfCounts ==
  ASSUME NEW q, NEW T, NEW p \in Pairs, NEW what \in {"out", "in"},
         \/ q.pc = "tasks" /\ q.op # "follow" /\ q.tasks = T /\ q.found = {}
         \/ q.pc # "tasks" /\ T = {}
  PROVE  Owes(q, what, Pairs) = Named(what, T) /\ About(q, p) /\ Weight(q, what, p) = In(Of(what, p), T)
  <1>1. Owes(q, what, Pairs) = Named(what, T) /\ (p \in Owes(q, what, {p}) <=> Of(what, p) \in T) /\ About(q, p)
    BY DEF Owes, About, Named
  <1>2. ~Adds(q, "doc", {p}) /\ ~Adds(q, what, {p})
    BY DEF Adds
  <1>3. Ind(Adds(q, "doc", {p})) = 0 /\ Ind(Adds(q, what, {p})) = 0 /\ In(p, Owes(q, what, {p})) = In(Of(what, p), T)
    BY <1>1, <1>2 DEF Ind, In
  <1>4. In(Of(what, p), T) \in Int
    BY DEF In
  <1> QED
    BY <1>1, <1>3, <1>4 DEF Weight

\* A block owes the follows it found, before and after it turns to count them off.
LEMMA WeightOfCuts ==
  ASSUME NEW q, NEW F \in SUBSET Pairs, NEW p \in Pairs, NEW what \in {"out", "in"},
         \/ q.pc = "tasks" /\ q.op # "follow" /\ q.tasks \subseteq Tasks({"cut"}, Pairs) /\ q.found = F
         \/ q.pc = "tasks" /\ q.op # "follow" /\ q.tasks = Tasks({"out", "in", "note"}, F) /\ q.found = {}
         \/ q.pc # "tasks" /\ F = {}
  PROVE  Owes(q, what, Pairs) = F /\ About(q, p) /\ Weight(q, what, p) = In(p, F)
  <1>1. Owes(q, what, Pairs) = F /\ (p \in Owes(q, what, {p}) <=> p \in F)
    <2>1. CASE q.pc = "tasks" /\ q.op # "follow" /\ q.tasks \subseteq Tasks({"cut"}, Pairs) /\ q.found = F
      <3>1. \A x : Of(what, x) \notin q.tasks
        BY <2>1 DEF Of, Tasks
      <3> QED
        BY <2>1, <3>1 DEF Owes
    <2>2. CASE q.pc = "tasks" /\ q.op # "follow" /\ q.tasks = Tasks({"out", "in", "note"}, F) /\ q.found = {}
      <3>1. \A x : Of(what, x) \in q.tasks <=> x \in F
        BY <2>2 DEF Of, Tasks
      <3> QED
        BY <2>2, <3>1 DEF Owes
    <2>3. CASE q.pc # "tasks" /\ F = {}
      BY <2>3 DEF Owes
    <2> QED
      BY <2>1, <2>2, <2>3
  <1>2. ~Adds(q, "doc", {p}) /\ ~Adds(q, what, {p}) /\ About(q, p)
    BY DEF Adds, About
  <1>3. Ind(Adds(q, "doc", {p})) = 0 /\ Ind(Adds(q, what, {p})) = 0 /\ In(p, Owes(q, what, {p})) = In(p, F)
    BY <1>1, <1>2 DEF Ind, In
  <1>4. In(p, F) \in Int
    BY DEF In
  <1> QED
    BY <1>1, <1>2, <1>3, <1>4 DEF Weight

LEMMA TaskIsOf ==
  ASSUME NEW t \in Task
  PROVE  t.pair \in Pairs /\ t = Of(t.what, t.pair)
  BY DEF Task, Of

\* The tasks of a follow, of a block and of what is counted off.
LEMMA TaskShapes ==
  ASSUME NEW q \in Request, Shaped(q), q.pc = "tasks", NEW t \in q.tasks
  PROVE  /\ t \in Task /\ q.tasks \ {t} \in SUBSET Task
         /\ \/ q.op = "follow" /\ t.pair = q.pair /\ t.what \in {"doc", "out", "in"} /\ q.found = {}
            \/ q.op # "follow" /\ t.what \in {"out", "in", "note"} /\ q.found = {} /\ q.tasks \subseteq Tasks({"out", "in", "note"}, Pairs)
            \/ q.op # "follow" /\ t.what = "cut" /\ q.tasks \subseteq Tasks({"cut"}, Pairs) /\ t.pair \notin q.found
               /\ \A x \in q.found : Of("cut", x) \notin q.tasks
  <1>1. t \in Task /\ q.tasks \ {t} \in SUBSET Task
    BY DEF Request
  <1>2. CASE q.op = "follow"
    <2>1. q.tasks \subseteq Tasks({"doc", "out", "in"}, {q.pair}) /\ q.found = {}
      BY <1>2 DEF Shaped
    <2> QED
      BY <1>1, <1>2, <2>1 DEF Tasks
  <1>3. CASE q.op # "follow"
    <2>1. CASE q.tasks \subseteq Tasks({"out", "in", "note"}, Pairs) /\ q.found = {}
      BY <1>1, <1>3, <2>1 DEF Tasks
    <2>2. CASE q.tasks \subseteq Tasks({"cut"}, Pairs) /\ \A p \in q.found : Of("cut", p) \notin q.tasks
      <3>1. t.what = "cut"
        BY <2>2 DEF Tasks
      <3>2. t.pair \notin q.found
        BY <1>1, <2>2, <3>1, TaskIsOf
      <3> QED
        BY <1>1, <1>3, <2>2, <3>1, <3>2
    <2> QED
      BY <1>3, <2>1, <2>2 DEF Shaped
  <1> QED
    BY <1>2, <1>3

\* Among active accounts a task moves the counter it is for.
LEMMA TallyMoves ==
  ASSUME TypeOK, AllActive, NEW r \in Requests, NEW t \in Task, AdjustCounter(r, t), Delta(r) \in Int,
         NEW what \in {"out", "in"}, NEW u \in Users
  PROVE  Tally(what, following', followers')[u] = Tally(what, following, followers)[u] +
             (IF t.pair \in Side(what, u) THEN (IF what = t.what THEN Delta(r) ELSE 0) ELSE 0)
  <1>1. t.pair \in Pairs /\ t.pair[1] \in Users /\ t.pair[2] \in Users /\ t.what \in {"out", "in"}
    BY TaskIsOf, PairEnds DEF AdjustCounter
  <1>2. following \in [Users -> Int] /\ followers \in [Users -> Int]
    BY DEF TypeOK
  <1>3. following' = IF t.what = "out" THEN [following EXCEPT ![t.pair[1]] = @ + Delta(r)] ELSE following
    BY <1>1 DEF AdjustCounter, Count, AllActive
  <1>4. followers' = IF t.what = "in" THEN [followers EXCEPT ![t.pair[2]] = @ + Delta(r)] ELSE followers
    BY <1>1 DEF AdjustCounter, Count, AllActive
  <1>5. (t.pair \in From(u) <=> t.pair[1] = u) /\ (t.pair \in To(u) <=> t.pair[2] = u)
    BY <1>1 DEF From, To
  <1>6. CASE what = "out"
    <2>1. following'[u] = following[u] + (IF t.pair[1] = u THEN (IF t.what = "out" THEN Delta(r) ELSE 0) ELSE 0)
      BY <1>1, <1>2, <1>3
    <2> QED
      BY <1>5, <1>6, <2>1 DEF Tally, Side
  <1>7. CASE what = "in"
    <2>1. followers'[u] = followers[u] + (IF t.pair[2] = u THEN (IF t.what = "in" THEN Delta(r) ELSE 0) ELSE 0)
      BY <1>1, <1>2, <1>4
    <2> QED
      BY <1>5, <1>7, <2>1 DEF Tally, Side
  <1> QED
    BY <1>6, <1>7

\* The shape of what is left.
LEMMA ShapeStays ==
  ASSUME NEW q \in Request, q.pc = "tasks", Shaped(q), NEW t \in q.tasks, NEW s, NEW T, T = q.tasks \ {t}, NEW F \in SUBSET Pairs,
         \/ q.op = "follow" /\ F = {}
         \/ q.op # "follow" /\ t.what # "cut" /\ F = {}
         \/ q.op # "follow" /\ t.what = "cut" /\ F \subseteq q.found \union {t.pair},
         \/ T # {} /\ s.pc = "tasks" /\ s.tasks = T /\ s.found = F /\ s.op = q.op /\ s.pair = q.pair
         \/ T = {} /\ F # {} /\ s.pc = "tasks" /\ s.tasks = Tasks({"out", "in", "note"}, F) /\ s.found = {}
            /\ s.op = q.op /\ s.pair = q.pair
         \/ T = {} /\ F = {} /\ s.pc \in {"notify", "done"} /\ s.found = {}
  PROVE  Shaped(s)
  <1>1. CASE T = {} /\ F = {} /\ s.pc \in {"notify", "done"} /\ s.found = {}
    BY <1>1 DEF Shaped
  <1>2. ASSUME T # {}, s.pc = "tasks", s.tasks = T, s.found = F, s.op = q.op, s.pair = q.pair
        PROVE  Shaped(s)
    <2>1. CASE q.op = "follow"
      <3>1. q.tasks \subseteq Tasks({"doc", "out", "in"}, {q.pair})
        BY <2>1 DEF Shaped
      <3>2. s.tasks \subseteq Tasks({"doc", "out", "in"}, {s.pair}) /\ s.found = {}
        BY <1>2, <2>1, <3>1
      <3> QED
        BY <1>2, <2>1, <3>2 DEF Shaped
    <2>2. CASE q.op # "follow" /\ t.what # "cut"
      <3>1. q.tasks \subseteq Tasks({"out", "in", "note"}, Pairs) /\ F = {}
        BY <2>2, TaskShapes
      <3>2. s.tasks \subseteq Tasks({"out", "in", "note"}, Pairs) /\ s.found = {}
        BY <1>2, <3>1
      <3> QED
        BY <1>2, <2>2, <3>2 DEF Shaped
    <2>3. CASE q.op # "follow" /\ t.what = "cut"
      <3>1. /\ q.tasks \subseteq Tasks({"cut"}, Pairs) /\ F \subseteq q.found \union {t.pair}
            /\ \A x \in q.found : Of("cut", x) \notin q.tasks
        BY <2>3, TaskShapes
      <3>2. t = Of("cut", t.pair)
        BY <2>3, TaskShapes, TaskIsOf
      <3>3. \A x \in F : Of("cut", x) \notin T
        BY <3>1, <3>2
      <3>4. s.tasks \subseteq Tasks({"cut"}, Pairs) /\ \A x \in s.found : Of("cut", x) \notin s.tasks
        BY <1>2, <3>1, <3>3
      <3> QED
        BY <1>2, <2>3, <3>4 DEF Shaped
    <2> QED
      BY <2>1, <2>2, <2>3
  <1>3. ASSUME F # {}, s.pc = "tasks", s.tasks = Tasks({"out", "in", "note"}, F), s.found = {}, s.op = q.op
        PROVE  Shaped(s)
    <2>1. q.op # "follow"
      BY <1>3
    <2>2. s.tasks \subseteq Tasks({"out", "in", "note"}, Pairs)
      BY <1>3 DEF Tasks
    <2> QED
      BY <1>3, <2>1, <2>2 DEF Shaped
  <1> QED
    BY <1>1, <1>2, <1>3

LEMMA OfApart == \A p, x, v, w : v # w => Of(v, p) # Of(w, x)
  BY DEF Of

\* A follow is made, or rejected as a duplicate.
LEMMA CreateCount ==
  ASSUME TypeOK, TypeOK', NEW r \in Requests, Settled(req, job, extra), Balanced(req, following, followers, follows, extra),
         job' = job, req[r].pc = "tasks", NEW t \in req[r].tasks, CreateFollow(r, t)
  PROVE  Settled(req', job', extra') /\ Balanced(req', following', followers', follows', extra')
  <1> DEFINE p == t.pair
             d == In(p, follows)
             F == follows \union {p}
             failed == req[r].failed \/ p \in follows
  <1>1. req \in [Requests -> Request] /\ req[r] \in Request /\ Shaped(req[r]) /\ extra \in [Pairs -> Nat]
    BY DEF TypeOK, Settled
  <1>2. t \in Task /\ req[r].tasks \ {t} \in SUBSET Task /\ t.what = "doc" /\ p \in Pairs /\ t = Of("doc", p)
    BY <1>1, TaskShapes, TaskIsOf DEF CreateFollow
  <1>3. req[r].op = "follow" /\ p = req[r].pair /\ req[r].found = {}
    BY <1>1, <1>2, TaskShapes
  <1>4. PICK T : T = req[r].tasks \ {t}
    OBVIOUS
  <1>5. Resume(r, T, {}, failed) /\ failed \in BOOLEAN /\ T \in SUBSET Task
    BY <1>1, <1>2, <1>4 DEF CreateFollow, Request
  <1>6. follows' = F /\ UNCHANGED <<followers, following>>
    BY DEF CreateFollow
  <1>7. extra' = Raised(extra, p, d) /\ d \in {0, 1}
    <2>1. extra' = [extra EXCEPT ![p] = IF p \in follows THEN @ + 1 ELSE @]
      BY DEF CreateFollow
    <2>2. CASE p \in follows
      BY <1>1, <1>2, <2>1, <2>2 DEF Raised, In
    <2>3. CASE p \notin follows
      <3>1. d = 0 /\ extra[p] \in Nat
        BY <1>1, <1>2, <2>3 DEF In
      <3>2. extra' = extra /\ Raised(extra, p, 0) = extra
        BY <1>1, <2>1, <2>3 DEF Raised
      <3> QED
        BY <3>1, <3>2
    <2> QED
      BY <2>2, <2>3
  <1>8. SameBut(follows, F, p) /\ In(p, F) = 1
    BY DEF SameBut, In
  <1> HIDE DEF p, d, F, failed
  <1>9. /\ Others(req, req', r)
        /\ \/ T # {} /\ req'[r].pc = "tasks" /\ req'[r].tasks = T /\ req'[r].found = {}
              /\ req'[r].op = req[r].op /\ req'[r].pair = req[r].pair
           \/ T = {} /\ req'[r].pc \in {"notify", "done"} /\ req'[r].found = {}
    <2>1. PICK N \in SUBSET Pairs : N = {}
      OBVIOUS
    <2>2. PICK g : Resume(r, T, N, g)
      BY <1>5, <2>1
    <2>3. /\ Others(req, req', r)
          /\ \/ T # {} /\ req'[r].pc = "tasks" /\ req'[r].tasks = T /\ req'[r].found = N
                /\ req'[r].op = req[r].op /\ req'[r].pair = req[r].pair
             \/ T = {} /\ N # {} /\ req'[r].pc = "tasks" /\ req'[r].tasks = Tasks({"out", "in", "note"}, N) /\ req'[r].found = {}
                /\ req'[r].op = req[r].op /\ req'[r].pair = req[r].pair
             \/ T = {} /\ N = {} /\ req'[r].pc \in {"notify", "done"} /\ req'[r].found = {}
      <3>1. T \in SUBSET Task /\ (req[r].op = "follow" => req[r].found = {})
        BY <1>3, <1>5
      <3> QED
        BY <1>1, <2>2, <3>1, Resumed
    <2> QED
      BY <2>1, <2>3
  <1>10. Shaped(req'[r])
    <2>1. CASE T # {} /\ req'[r].pc = "tasks" /\ req'[r].tasks = T /\ req'[r].found = {}
               /\ req'[r].op = req[r].op /\ req'[r].pair = req[r].pair
      <3>1. PICK q, s : q \in Request /\ q = req[r] /\ s = req'[r]
        BY <1>1
      <3>2. t \in q.tasks /\ T = q.tasks \ {t} /\ Shaped(q) /\ q.pc = "tasks" /\ q.op = "follow"
        BY <1>1, <1>3, <1>4, <3>1
      <3>3. PICK N \in SUBSET Pairs : N = {}
        OBVIOUS
      <3>4. T # {} /\ s.pc = "tasks" /\ s.tasks = T /\ s.found = N /\ s.op = q.op /\ s.pair = q.pair
        BY <2>1, <3>1, <3>3
      <3>5. Shaped(s)
        BY <3>1, <3>2, <3>3, <3>4, ShapeStays
      <3> QED
        BY <3>1, <3>5
    <2>2. CASE T = {} /\ req'[r].pc \in {"notify", "done"} /\ req'[r].found = {}
      BY <2>2 DEF Shaped
    <2> QED
      BY <1>9, <2>1, <2>2
  <1>11. \A what \in {"out", "in"} :
            /\ Owes(req[r], what, Pairs) = {} /\ About(req[r], p)
            /\ Weight(req[r], what, p) = In(Of("doc", p), req[r].tasks) - In(Of(what, p), req[r].tasks)
    BY <1>3, WeightOfFollow
  <1>12. \A what \in {"out", "in"} :
            /\ Owes(req'[r], what, Pairs) = {} /\ About(req'[r], p)
            /\ Weight(req'[r], what, p) = In(Of("doc", p), T) - In(Of(what, p), T)
    <2> TAKE what \in {"out", "in"}
    <2>1. \/ req'[r].pc = "tasks" /\ req'[r].op = "follow" /\ req'[r].pair = p /\ req'[r].tasks = T /\ req'[r].found = {}
          \/ req'[r].pc # "tasks" /\ T = {}
      BY <1>3, <1>9
    <2> QED
      BY <2>1, WeightOfFollow
  <1>13. \A what \in {"out", "in"} : Weight(req'[r], what, p) - Weight(req[r], what, p) = -1 /\ Weight(req'[r], what, p) \in Int
                                     /\ Weight(req[r], what, p) \in Int
    <2> TAKE what \in {"out", "in"}
    <2>1. In(Of("doc", p), T) = 0 /\ In(Of("doc", p), req[r].tasks) = 1
      BY <1>2, <1>4 DEF In
    <2>2. In(Of(what, p), T) = In(Of(what, p), req[r].tasks) /\ In(Of(what, p), T) \in Int
      <3>1. Of(what, p) # t
        BY <1>2, OfApart
      <3> QED
        BY <1>4, <3>1 DEF In
    <2> QED
      BY <1>11, <1>12, <2>1, <2>2
  <1>14. \A what \in {"out", "in"} : SameBut(Owes(req[r], what, Pairs), Owes(req'[r], what, Pairs), p)
    BY <1>11, <1>12 DEF SameBut
  <1>15. ASSUME NEW what \in {"out", "in"}, NEW u \in Users
         PROVE  Tally(what, following', followers')[u] = Tally(what, following, followers)[u] +
                 (IF p \in Side(what, u)
                  THEN In(p, follows') - In(p, follows) + d + Weight(req'[r], what, p) - Weight(req[r], what, p) ELSE 0)
    <2>1. Tally(what, following', followers')[u] = Tally(what, following, followers)[u]
      BY <1>6 DEF Tally
    <2>2. Tally(what, following, followers)[u] \in Int
      BY DEF TypeOK, Tally
    <2>3. In(p, follows') = 1 /\ In(p, follows) = d /\ d \in Int
      BY <1>6, <1>7, <1>8 DEF d
    <2> QED
      BY <1>13, <2>1, <2>2, <2>3
  <1>16. SameBut(follows, follows', p) /\ About(req[r], p) /\ About(req'[r], p)
    BY <1>6, <1>8, <1>11, <1>12
  <1> QED
    BY <1>2, <1>7, <1>9, <1>10, <1>14, <1>15, <1>16, CountStays

\* A block cuts a follow, and owes it from then on.
LEMMA CutCount ==
  ASSUME TypeOK, TypeOK', NEW r \in Requests, Settled(req, job, extra), Balanced(req, following, followers, follows, extra),
         job' = job, req[r].pc = "tasks", NEW t \in req[r].tasks, CutFollow(r, t)
  PROVE  Settled(req', job', extra') /\ Balanced(req', following', followers', follows', extra')
  <1> DEFINE p == t.pair
  <1>1. req \in [Requests -> Request] /\ req[r] \in Request /\ Shaped(req[r]) /\ extra \in [Pairs -> Nat]
    BY DEF TypeOK, Settled
  <1>2. t \in Task /\ req[r].tasks \ {t} \in SUBSET Task /\ t.what = "cut" /\ p \in Pairs /\ t = Of("cut", p)
    BY <1>1, TaskShapes, TaskIsOf DEF CutFollow
  <1>3. req[r].op # "follow" /\ req[r].tasks \subseteq Tasks({"cut"}, Pairs) /\ p \notin req[r].found
    BY <1>1, <1>2, TaskShapes
  <1>4. PICK T : T = req[r].tasks \ {t}
    OBVIOUS
  <1>5. PICK N : N = req[r].found \union ({p} \intersect follows)
    OBVIOUS
  <1>6. Resume(r, T, N, FALSE) /\ T \in SUBSET Task
    BY <1>2, <1>4, <1>5 DEF CutFollow
  <1>7. N \in SUBSET Pairs /\ N \subseteq req[r].found \union {p} /\ req[r].found \in SUBSET Pairs
    BY <1>1, <1>2, <1>5 DEF Request
  <1>8. follows' = follows \ {p} /\ UNCHANGED <<followers, following, extra>>
    BY DEF CutFollow, counters
  <1>9. In(p, follows') = 0 /\ In(p, N) = In(p, follows) /\ In(p, req[r].found) = 0 /\ In(p, follows) \in Int
    BY <1>3, <1>5, <1>8 DEF In
  <1>10. SameBut(follows, follows', p) /\ SameBut(req[r].found, N, p)
    BY <1>5, <1>8 DEF SameBut
  <1>11. extra' = Raised(extra, p, 0)
    BY <1>1, <1>8 DEF Raised
  <1> HIDE DEF p
  <1>12. /\ Others(req, req', r)
         /\ \/ T # {} /\ req'[r].pc = "tasks" /\ req'[r].tasks = T /\ req'[r].found = N
               /\ req'[r].op = req[r].op /\ req'[r].pair = req[r].pair
            \/ T = {} /\ N # {} /\ req'[r].pc = "tasks" /\ req'[r].tasks = Tasks({"out", "in", "note"}, N) /\ req'[r].found = {}
               /\ req'[r].op = req[r].op /\ req'[r].pair = req[r].pair
            \/ T = {} /\ N = {} /\ req'[r].pc \in {"notify", "done"} /\ req'[r].found = {}
    BY <1>1, <1>3, <1>6, <1>7, Resumed
  <1>13. Shaped(req'[r])
    <2>1. req[r].op # "follow" /\ t.what = "cut" /\ N \subseteq req[r].found \union {t.pair}
      BY <1>2, <1>3, <1>7 DEF p
    <2> QED
      <3>1. CASE T # {} /\ req'[r].pc = "tasks" /\ req'[r].tasks = T /\ req'[r].found = N
                 /\ req'[r].op = req[r].op /\ req'[r].pair = req[r].pair
        <4>1. PICK q, s : q \in Request /\ q = req[r] /\ s = req'[r]
          BY <1>1
        <4>2. t \in q.tasks /\ T = q.tasks \ {t} /\ Shaped(q) /\ q.pc = "tasks"
          BY <1>1, <1>4, <4>1
        <4>3. q.op # "follow" /\ t.what = "cut" /\ N \subseteq q.found \union {t.pair} /\ N \in SUBSET Pairs
          BY <1>7, <2>1, <4>1
        <4>4. T # {} /\ s.pc = "tasks" /\ s.tasks = T /\ s.found = N /\ s.op = q.op /\ s.pair = q.pair
          BY <3>1, <4>1
        <4>5. Shaped(s)
          BY <4>1, <4>2, <4>3, <4>4, ShapeStays
        <4> QED
          BY <4>1, <4>5
      <3>2. CASE T = {} /\ N # {} /\ req'[r].pc = "tasks" /\ req'[r].tasks = Tasks({"out", "in", "note"}, N)
                 /\ req'[r].found = {} /\ req'[r].op = req[r].op /\ req'[r].pair = req[r].pair
        BY <1>1, <1>4, <1>7, <2>1, <3>2, ShapeStays
      <3>3. CASE T = {} /\ N = {} /\ req'[r].pc \in {"notify", "done"} /\ req'[r].found = {}
        BY <3>3 DEF Shaped
      <3> QED
        BY <1>12, <3>1, <3>2, <3>3
  <1>14. \A what \in {"out", "in"} :
            Owes(req[r], what, Pairs) = req[r].found /\ About(req[r], p) /\ Weight(req[r], what, p) = In(p, req[r].found)
    BY <1>2, <1>3, <1>7, WeightOfCuts
  <1>15. \A what \in {"out", "in"} :
            Owes(req'[r], what, Pairs) = N /\ About(req'[r], p) /\ Weight(req'[r], what, p) = In(p, N)
    <2> TAKE what \in {"out", "in"}
    <2>1. T \subseteq Tasks({"cut"}, Pairs)
      BY <1>3, <1>4
    <2>2. \/ req'[r].pc = "tasks" /\ req'[r].op # "follow" /\ req'[r].tasks \subseteq Tasks({"cut"}, Pairs) /\ req'[r].found = N
          \/ req'[r].pc = "tasks" /\ req'[r].op # "follow" /\ req'[r].tasks = Tasks({"out", "in", "note"}, N) /\ req'[r].found = {}
          \/ req'[r].pc # "tasks" /\ N = {}
      BY <1>3, <1>12, <2>1
    <2> QED
      BY <1>2, <1>7, <2>2, WeightOfCuts
  <1>16. \A what \in {"out", "in"} : SameBut(Owes(req[r], what, Pairs), Owes(req'[r], what, Pairs), p)
    BY <1>10, <1>14, <1>15
  <1>17. ASSUME NEW what \in {"out", "in"}, NEW u \in Users
         PROVE  Tally(what, following', followers')[u] = Tally(what, following, followers)[u] +
                 (IF p \in Side(what, u)
                  THEN In(p, follows') - In(p, follows) + 0 + Weight(req'[r], what, p) - Weight(req[r], what, p) ELSE 0)
    <2>1. Tally(what, following', followers')[u] = Tally(what, following, followers)[u]
      BY <1>8 DEF Tally
    <2>2. Tally(what, following, followers)[u] \in Int
      BY DEF TypeOK, Tally
    <2>3. Weight(req[r], what, p) = 0 /\ Weight(req'[r], what, p) = In(p, follows)
      BY <1>9, <1>14, <1>15
    <2> QED
      BY <1>9, <2>1, <2>2, <2>3
  <1>18. About(req[r], p) /\ About(req'[r], p)
    BY <1>14, <1>15
  <1> QED
    BY <1>2, <1>10, <1>11, <1>12, <1>13, <1>16, <1>17, <1>18, CountStays

\* The tasks without one.
Without(S, t) == S \ {t}

\* A request goes on with the tasks T, or has no more.
GoesOn(q, s, T) ==
    \/ s.pc = "tasks" /\ s.tasks = T /\ s.found = {} /\ s.op = q.op /\ s.pair = q.pair
    \/ T = {} /\ s.pc # "tasks"

\* A task other than a document or a deletion leaves the others.
LEMMA OneTaskLess ==
  ASSUME TypeOK, NEW r \in Requests, Settled(req, job, extra), req[r].pc = "tasks",
         NEW t \in req[r].tasks, t.what \in {"out", "in", "note"}, NEW T, T = Without(req[r].tasks, t),
         Resume(r, T, req[r].found, req[r].failed)
  PROVE  /\ Others(req, req', r) /\ Shaped(req'[r]) /\ req[r].found = {}
         /\ GoesOn(req[r], req'[r], T)
  <1>1. req \in [Requests -> Request] /\ req[r] \in Request /\ Shaped(req[r])
    BY DEF TypeOK, Settled
  <1>2. req[r].found = {} /\ T \in SUBSET Task
    BY <1>1, TaskShapes DEF Without
  <1>3. PICK N \in SUBSET Pairs : N = {}
    OBVIOUS
  <1>10. PICK K : K = T
    OBVIOUS
  <1>4. PICK g : Resume(r, K, N, g)
    BY <1>2, <1>3, <1>10
  <1>5. (req[r].op = "follow" => req[r].found = {}) /\ K \in SUBSET Task
    BY <1>2, <1>10
  <1>6. /\ Others(req, req', r)
        /\ \/ K # {} /\ req'[r].pc = "tasks" /\ req'[r].tasks = K /\ req'[r].found = N
              /\ req'[r].op = req[r].op /\ req'[r].pair = req[r].pair
           \/ K = {} /\ N # {} /\ req'[r].pc = "tasks" /\ req'[r].tasks = Tasks({"out", "in", "note"}, N) /\ req'[r].found = {}
              /\ req'[r].op = req[r].op /\ req'[r].pair = req[r].pair
           \/ K = {} /\ N = {} /\ req'[r].pc \in {"notify", "done"} /\ req'[r].found = {}
    BY <1>1, <1>4, <1>5, Resumed
  <1>7. Shaped(req'[r])
    <2>1. CASE T # {} /\ req'[r].pc = "tasks" /\ req'[r].tasks = T /\ req'[r].found = N
               /\ req'[r].op = req[r].op /\ req'[r].pair = req[r].pair
      <3>1. PICK q, s : q \in Request /\ q = req[r] /\ s = req'[r]
        BY <1>1
      <3>2. t \in q.tasks /\ T = q.tasks \ {t} /\ Shaped(q) /\ q.pc = "tasks"
        BY <1>1, <3>1 DEF Without
      <3>3. \/ q.op = "follow" /\ N = {}
            \/ q.op # "follow" /\ t.what # "cut" /\ N = {}
        BY <1>3
      <3>4. T # {} /\ s.pc = "tasks" /\ s.tasks = T /\ s.found = N /\ s.op = q.op /\ s.pair = q.pair
        BY <2>1, <3>1
      <3>5. Shaped(s)
        BY <3>1, <3>2, <3>3, <3>4, ShapeStays
      <3> QED
        BY <3>1, <3>5
    <2>2. CASE T = {} /\ N = {} /\ req'[r].pc \in {"notify", "done"} /\ req'[r].found = {}
      BY <2>2 DEF Shaped
    <2> QED
      BY <1>3, <1>6, <1>10, <2>1, <2>2
  <1> QED
    BY <1>2, <1>3, <1>6, <1>7, <1>10 DEF GoesOn

\* What a task for the counter of what does to the weight of its pair.
LEMMA WeightMoves ==
  ASSUME NEW q \in Request, q.pc = "tasks", NEW p \in Pairs, NEW v \in {"out", "in", "note"}, Of(v, p) \in q.tasks, q.found = {},
         About(q, p),
         NEW T, T = Without(q.tasks, Of(v, p)), NEW s, GoesOn(q, s, T),
         NEW what \in {"out", "in"}
  PROVE  /\ About(q, p) /\ About(s, p)
         /\ SameBut(Owes(q, what, Pairs), Owes(s, what, Pairs), p)
         /\ Weight(q, what, p) \in Int /\ Weight(s, what, p) \in Int
         /\ Weight(s, what, p) - Weight(q, what, p) = (IF what = v THEN (IF q.op = "follow" THEN 1 ELSE -1) ELSE 0)
  <1>1. PICK S, K, z : S = q.tasks /\ K = T /\ z = s
    OBVIOUS
  <1>2. /\ In(Of(what, p), K) = (IF what = v THEN 0 ELSE In(Of(what, p), S))
        /\ In(Of("doc", p), K) = In(Of("doc", p), S)
        /\ what = v => In(Of(what, p), S) = 1
        /\ In(Of(what, p), S) \in Int /\ In(Of("doc", p), S) \in Int
    <2>1. /\ what # v => Of(what, p) # Of(v, p)
          /\ Of("doc", p) # Of(v, p)
      BY DEF Of
    <2> QED
      BY <1>1, <2>1 DEF In, Without
  <1>3. CASE q.op = "follow"
    <2>1. q.pc = "tasks" /\ q.op = "follow" /\ q.pair = p /\ q.tasks = S /\ q.found = {}
      BY <1>1, <1>3 DEF About
    <2>2. /\ Owes(q, what, Pairs) = {} /\ About(q, p)
          /\ Weight(q, what, p) = In(Of("doc", p), S) - In(Of(what, p), S)
      BY <2>1, WeightOfFollow
    <2>3. \/ z.pc = "tasks" /\ z.op = "follow" /\ z.pair = p /\ z.tasks = K /\ z.found = {}
          \/ z.pc # "tasks" /\ K = {}
      BY <1>1, <2>1 DEF GoesOn
    <2>4. /\ Owes(z, what, Pairs) = {} /\ About(z, p)
          /\ Weight(z, what, p) = In(Of("doc", p), K) - In(Of(what, p), K)
      <3>1. CASE z.pc = "tasks" /\ z.op = "follow" /\ z.pair = p /\ z.tasks = K /\ z.found = {}
        BY <3>1, WeightOfFollow
      <3>2. CASE z.pc # "tasks" /\ K = {}
        BY <3>2, WeightOfFollow
      <3> QED
        BY <2>3, <3>1, <3>2
    <2>5. SameBut(Owes(q, what, Pairs), Owes(z, what, Pairs), p)
      BY <2>2, <2>4 DEF SameBut
    <2> QED
      BY <1>1, <1>2, <1>3, <2>2, <2>4, <2>5
  <1>4. CASE q.op # "follow"
    <2>1. q.pc = "tasks" /\ q.op # "follow" /\ q.tasks = S /\ q.found = {}
      BY <1>1, <1>4
    <2>2. /\ Owes(q, what, Pairs) = Named(what, S) /\ About(q, p)
          /\ Weight(q, what, p) = In(Of(what, p), S)
      BY <2>1, WeightOfCounts
    <2>3. \/ z.pc = "tasks" /\ z.op # "follow" /\ z.tasks = K /\ z.found = {}
          \/ z.pc # "tasks" /\ K = {}
      BY <1>1, <2>1 DEF GoesOn
    <2>4. /\ Owes(z, what, Pairs) = Named(what, K) /\ About(z, p)
          /\ Weight(z, what, p) = In(Of(what, p), K)
      <3>1. CASE z.pc = "tasks" /\ z.op # "follow" /\ z.tasks = K /\ z.found = {}
        BY <3>1, WeightOfCounts
      <3>2. CASE z.pc # "tasks" /\ K = {}
        BY <3>2, WeightOfCounts
      <3> QED
        BY <2>3, <3>1, <3>2
    <2>5. SameBut(Owes(q, what, Pairs), Owes(z, what, Pairs), p)
      <3>1. \A x : x # p => Of(what, x) # Of(v, p)
        BY DEF Of
      <3>2. \A x : x # p => (Of(what, x) \in K <=> Of(what, x) \in S)
        BY <1>1, <3>1 DEF Without
      <3> QED
        BY <2>2, <2>4, <3>2 DEF SameBut, Named
    <2> QED
      BY <1>1, <1>2, <1>4, <2>2, <2>4, <2>5
  <1> QED
    BY <1>1, <1>3, <1>4

\* A task for a counter, or for a notification.
LEMMA AdjustCount ==
  ASSUME TypeOK, TypeOK', AllActive, NEW r \in Requests, Settled(req, job, extra),
         Balanced(req, following, followers, follows, extra), job' = job, req[r].pc = "tasks",
         NEW t \in req[r].tasks, AdjustCounter(r, t) \/ RemoveNote(r, t)
  PROVE  Settled(req', job', extra') /\ Balanced(req', following', followers', follows', extra')
  <1>0. req[r] \in Request /\ Shaped(req[r])
    BY DEF TypeOK, Settled
  <1>1. PICK p, T : p \in Pairs /\ p = t.pair /\ T = Without(req[r].tasks, t)
    BY <1>0, TaskShapes, TaskIsOf
  <1>2. Resume(r, T, req[r].found, req[r].failed) /\ t.what \in {"out", "in", "note"} /\ UNCHANGED <<follows, extra>>
    BY <1>1 DEF Without, AdjustCounter, RemoveNote, relations, counters
  <1>3. /\ Others(req, req', r) /\ Shaped(req'[r]) /\ req[r].found = {} /\ GoesOn(req[r], req'[r], T)
    <2>1. T = Without(req[r].tasks, t)
      BY <1>1
    <2> QED
      BY <1>2, <2>1, OneTaskLess
  <1>10. Delta(r) = (IF req[r].op = "follow" THEN 1 ELSE -1) /\ Delta(r) \in Int
    BY DEF Delta
  <1>4. ASSUME NEW what \in {"out", "in"}
        PROVE  /\ About(req[r], p) /\ About(req'[r], p)
               /\ SameBut(Owes(req[r], what, Pairs), Owes(req'[r], what, Pairs), p)
               /\ Weight(req[r], what, p) \in Int /\ Weight(req'[r], what, p) \in Int
               /\ Weight(req'[r], what, p) - Weight(req[r], what, p) = (IF what = t.what THEN Delta(r) ELSE 0)
    <2>1. PICK q, v, s : q \in Request /\ v \in {"out", "in", "note"} /\ q = req[r] /\ v = t.what /\ s = req'[r]
      BY <1>0, <1>2
    <2>2. t = Of(v, p)
      BY <1>0, <1>1, <2>1, TaskShapes, TaskIsOf
    <2>3. q.pc = "tasks" /\ Of(v, p) \in q.tasks /\ q.found = {} /\ About(q, p)
      BY <1>0, <1>1, <1>3, <2>1, <2>2, TaskShapes DEF About
    <2>4. T = Without(q.tasks, Of(v, p))
      BY <1>1, <2>1, <2>2
    <2>5. GoesOn(q, s, T)
      BY <1>3, <2>1
    <2>7. q \in Request /\ p \in Pairs /\ v \in {"out", "in", "note"}
      BY <1>1, <2>1
    <2>6. /\ About(q, p) /\ About(s, p)
          /\ SameBut(Owes(q, what, Pairs), Owes(s, what, Pairs), p)
          /\ Weight(q, what, p) \in Int /\ Weight(s, what, p) \in Int
          /\ Weight(s, what, p) - Weight(q, what, p) = (IF what = v THEN (IF q.op = "follow" THEN 1 ELSE -1) ELSE 0)
      BY <2>7, <2>3, <2>4, <2>5, WeightMoves
    <2> QED
      BY <1>10, <2>1, <2>6
  <1>5. ASSUME NEW what \in {"out", "in"}, NEW u \in Users
        PROVE  Tally(what, following', followers')[u] = Tally(what, following, followers)[u] +
                   (IF t.pair \in Side(what, u) THEN (IF what = t.what THEN Delta(r) ELSE 0) ELSE 0)
    <2>1. CASE AdjustCounter(r, t)
      <3>1. t \in Task
        <4>1. req[r] \in Request /\ Shaped(req[r])
          BY DEF TypeOK, Settled
        <4> QED
          BY <4>1, TaskShapes
      <3> QED
        BY <1>10, <2>1, <3>1, TallyMoves
    <2>2. CASE RemoveNote(r, t)
      <3>1. t.what = "note" /\ UNCHANGED <<following, followers>>
        BY <2>2 DEF RemoveNote, counters
      <3>2. Tally(what, following', followers')[u] = Tally(what, following, followers)[u]
        BY <3>1 DEF Tally
      <3>3. Tally(what, following, followers)[u] \in Int
        BY DEF TypeOK, Tally
      <3> QED
        BY <3>1, <3>2, <3>3
    <2> QED
      BY <2>1, <2>2
  <1>6. ASSUME NEW what \in {"out", "in"}, NEW u \in Users
        PROVE  Tally(what, following', followers')[u] = Tally(what, following, followers)[u] +
                 (IF p \in Side(what, u)
                  THEN In(p, follows') - In(p, follows) + 0 + Weight(req'[r], what, p) - Weight(req[r], what, p) ELSE 0)
    <2>1. In(p, follows') = In(p, follows) /\ In(p, follows) \in Int
      BY <1>2 DEF In
    <2>2. /\ Weight(req[r], what, p) \in Int /\ Weight(req'[r], what, p) \in Int
          /\ Weight(req'[r], what, p) - Weight(req[r], what, p) = (IF what = t.what THEN Delta(r) ELSE 0)
      BY <1>1, <1>4
    <2>3. Tally(what, following', followers')[u] = Tally(what, following, followers)[u] +
                   (IF p \in Side(what, u) THEN (IF what = t.what THEN Delta(r) ELSE 0) ELSE 0)
      BY <1>1, <1>5
    <2> QED
      BY <2>1, <2>2, <2>3
  <1>7. SameBut(follows, follows', p) /\ extra' = Raised(extra, p, 0)
    BY <1>2 DEF SameBut, Raised, TypeOK
  <1>8. \A what \in {"out", "in"} : SameBut(Owes(req[r], what, Pairs), Owes(req'[r], what, Pairs), p)
    BY <1>1, <1>4
  <1>9. About(req[r], p) /\ About(req'[r], p)
    BY <1>1, <1>4
  <1> QED
    BY <1>1, <1>3, <1>6, <1>7, <1>8, <1>9, CountStays

LEMMA TaskCount ==
  ASSUME TypeOK, TypeOK', AllActive, NEW r \in Requests, Settled(req, job, extra),
         Balanced(req, following, followers, follows, extra), DoTask(r)
  PROVE  Settled(req', job', extra') /\ Balanced(req', following', followers', follows', extra')
  <1>1. job' = job /\ req[r].pc = "tasks"
    BY DEF DoTask, At
  <1>2. PICK t \in req[r].tasks : CreateFollow(r, t) \/ CutFollow(r, t) \/ AdjustCounter(r, t) \/ RemoveNote(r, t)
    BY DEF DoTask
  <1> QED
    BY <1>1, <1>2, CreateCount, CutCount, AdjustCount

LEMMA CountStep ==
  ASSUME TypeOK, TypeOK', CountInv, [Next]_vars
  PROVE  CountInv'
  <1> SUFFICES ASSUME crashes' = 0, AllActive'
               PROVE  Settled(req', job', extra') /\ Balanced(req', following', followers', follows', extra')
    BY DEF CountInv, Settled, Balanced
  <1>1. CASE UNCHANGED vars
    <2>1. UNCHANGED <<account, crashes, req, job, extra, following, followers, follows>>
      BY <1>1 DEF vars, relations, counters
    <2>2. AllActive
      BY <2>1 DEF AllActive, Active
    <2>3. Settled(req, job, extra) /\ Balanced(req, following, followers, follows, extra)
      BY <2>1, <2>2 DEF CountInv
    <2> QED
      BY <2>1, <2>3
  <1>2. ASSUME NEW r \in Requests, Step(r) \/ \E op \in Op, p \in Pairs : Send(r, op, p)
        PROVE  Settled(req', job', extra') /\ Balanced(req', following', followers', follows', extra')
    <2>1. ~MarkInactive(r)
      <3> SUFFICES ASSUME MarkInactive(r) PROVE FALSE
        OBVIOUS
      <3>1. req[r].pair[1] \in Users
        BY PairEnds DEF TypeOK, Request
      <3>2. account'[req[r].pair[1]] # "active"
        BY <3>1 DEF MarkInactive, TypeOK
      <3> QED
        BY <3>1, <3>2 DEF AllActive, Active
    <2>2. crashes' = crashes /\ account' = account
      BY <1>2, <2>1 DEF Step, Send, EnsureUsersCanInteract, FindTarget, FindExisting, CreateBlock, Remove, DoTask, CheckNote,
                        SendNote, EnqueueUserCleanup
    <2>3. AllActive
      BY <2>2 DEF AllActive, Active
    <2>4. Settled(req, job, extra) /\ Balanced(req, following, followers, follows, extra)
      BY <2>2, <2>3 DEF CountInv
    <2>5. ~EnqueueUserCleanup(r)
      BY <2>4 DEF Settled, Shaped, EnqueueUserCleanup, At
    <2>6. CASE \E op \in Op, p \in Pairs : Send(r, op, p)
      BY <2>4, <2>6, SendCount
    <2>7. CASE DoTask(r)
      BY <2>3, <2>4, <2>7, TaskCount
    <2>8. CASE \/ EnsureUsersCanInteract(r) \/ FindTarget(r) \/ FindExisting(r)
               \/ CreateBlock(r) \/ Remove(r) \/ CheckNote(r) \/ SendNote(r)
      BY <2>4, <2>8, RequestCount
    <2> QED
      BY <1>2, <2>1, <2>5, <2>6, <2>7, <2>8 DEF Step
  <1>3. ASSUME NEW u \in Users, JobStep(u) PROVE FALSE
    <2>1. ~JobDeleteUser(u)
      <3> SUFFICES ASSUME JobDeleteUser(u) PROVE FALSE
        OBVIOUS
      <3>1. account'[u] # "active"
        BY DEF JobDeleteUser, TypeOK
      <3> QED
        BY <3>1 DEF AllActive, Active
    <2>2. crashes' = crashes /\ account' = account /\ job[u].pc # "none"
      BY <1>3, <2>1 DEF JobStep, JobStart, JobRead, JobCount, JobDelete
    <2>3. AllActive
      BY <2>2 DEF AllActive, Active
    <2> QED
      BY <2>2, <2>3 DEF CountInv, Settled
  <1>4. ~Crash
    BY DEF Crash, TypeOK
  <1> QED
    BY <1>1, <1>2, <1>3, <1>4 DEF Next

LEMMA CountInit ==
  ASSUME TypeOK, Init
  PROVE  CountInv
  <1>1. \A r \in Requests : req[r] = NoRequest("idle")
    BY DEF Init
  <1>2. \A r \in Requests : Shaped(req[r]) /\ req[r].pc = "idle"
    <2>1. NoRequest("idle").pc = "idle" /\ NoRequest("idle").found = {}
      BY DEF NoRequest
    <2>2. Shaped(NoRequest("idle"))
      BY <2>1 DEF Shaped
    <2> QED
      BY <1>1, <2>1, <2>2
  <1>3. Busy(req) = {} /\ \A what, Z : Due(req, what, Z) = {} /\ Owed(req, what, Z) = {}
    <2>1. Busy(req) = {}
      BY <1>2 DEF Busy
    <2>2. ASSUME NEW what, NEW Z PROVE Due(req, what, Z) = {} /\ Owed(req, what, Z) = {}
      BY <1>2 DEF Due, Adds, Owed, Owes
    <2> QED
      BY <2>1, <2>2
  <1>4. \A Z \in SUBSET Pairs : Twice(extra, Z) = {}
    BY DEF Init, Twice
  <1>5. IsFiniteSet({}) /\ Cardinality({}) = 0
    BY FS_EmptySet
  <1>6. \A u \in Users : job[u].pc = "none"
    BY DEF Init, NoJob
  <1>7. Settled(req, job, extra)
    BY <1>2, <1>3, <1>4, <1>5, <1>6 DEF Settled
  <1>8. ASSUME NEW what \in {"out", "in"}, NEW u \in Users
        PROVE  Even(Tally(what, following, followers)[u], req, what, Side(what, u), follows, extra)
    <2>1. Tally(what, following, followers)[u] = Cardinality(follows \intersect Side(what, u))
      BY DEF Init, Tally, Side
    <2>2. Tally(what, following, followers)[u] \in Int
      BY DEF TypeOK, Tally
    <2>3. Due(req, what, Side(what, u)) = {} /\ Due(req, "doc", Side(what, u)) = {} /\ Owed(req, what, Side(what, u)) = {}
      BY <1>3
    <2>4. Twice(extra, Side(what, u)) = {}
      BY <1>4, SidesAreIn
    <2>5. PICK n \in Int : n = Cardinality(follows \intersect Side(what, u)) /\ n = Tally(what, following, followers)[u]
      BY <2>1, <2>2
    <2> QED
      BY <1>5, <2>3, <2>4, <2>5 DEF Even, Kept
  <1> QED
    BY <1>7, <1>8 DEF CountInv, Balanced

LEMMA CountSuffices ==
  ASSUME TypeOK, CountInv
  PROVE  CountsAgree
  <1> SUFFICES ASSUME Quiet, crashes = 0, \A u \in Users : Active(u), NEW v \in Users
               PROVE  /\ followers[v] = Cardinality(To(v) \intersect follows) + Duplicates(To(v))
                      /\ following[v] = Cardinality(From(v) \intersect follows) + Duplicates(From(v))
    BY DEF CountsAgree
  <1>1. Settled(req, job, extra) /\ Balanced(req, following, followers, follows, extra)
    BY DEF CountInv, AllActive
  <1>2. \A r \in Requests : req[r].pc # "tasks"
    BY DEF Quiet, At
  <1>3. ASSUME NEW what, NEW Z PROVE Due(req, what, Z) = {} /\ Owed(req, what, Z) = {}
    BY <1>2 DEF Due, Adds, Owed, Owes
  <1>4. ASSUME NEW what \in {"out", "in"}
        PROVE  Tally(what, following, followers)[v] = Cardinality(follows \intersect Side(what, v)) + Duplicates(Side(what, v))
    <2>1. Side(what, v) \in SUBSET Pairs
      BY SidesAreIn
    <2>2. Duplicates(Side(what, v)) = Cardinality(Twice(extra, Side(what, v)))
      BY <1>1, <2>1, PairsAreFinite, TwiceInAll DEF Settled
    <2>3. Even(Tally(what, following, followers)[v], req, what, Side(what, v), follows, extra)
      BY <1>1 DEF Balanced
    <2>4. Due(req, what, Side(what, v)) = {} /\ Due(req, "doc", Side(what, v)) = {} /\ Owed(req, what, Side(what, v)) = {}
      BY <1>3
    <2>5. Tally(what, following, followers)[v] \in Int
      BY DEF TypeOK, Tally
    <2>6. Cardinality({}) = 0
      BY FS_EmptySet
    <2>7. PICK a \in Nat : a = Cardinality(follows \intersect Side(what, v))
      <3>1. IsFiniteSet(follows \intersect Side(what, v))
        BY <2>1, PairsAreFinite, FS_Subset
      <3> QED
        BY <3>1, FS_CardinalityType
    <2>8. PICK b \in Nat : b = Cardinality(Twice(extra, Side(what, v)))
      <3>1. Twice(extra, Side(what, v)) \in SUBSET Twice(extra, Pairs)
        BY <2>1 DEF Twice
      <3>2. IsFiniteSet(Twice(extra, Side(what, v)))
        BY <1>1, <3>1, FS_Subset DEF Settled
      <3> QED
        BY <3>2, FS_CardinalityType
    <2>9. Tally(what, following, followers)[v] + 0 = a + b + 0 + 0
      BY <2>3, <2>4, <2>6, <2>7, <2>8 DEF Even, Kept
    <2> QED
      BY <2>2, <2>5, <2>7, <2>8, <2>9
  <1>5. Tally("in", following, followers)[v] = Cardinality(follows \intersect Side("in", v)) + Duplicates(Side("in", v))
    BY <1>4
  <1>6. Tally("out", following, followers)[v] = Cardinality(follows \intersect Side("out", v)) + Duplicates(Side("out", v))
    BY <1>4
  <1>7. Side("in", v) = To(v) /\ Side("out", v) = From(v) /\ Tally("in", following, followers) = followers
        /\ Tally("out", following, followers) = following
    BY DEF Side, Tally
  <1>8. follows \intersect To(v) = To(v) \intersect follows /\ follows \intersect From(v) = From(v) \intersect follows
    OBVIOUS
  <1> QED
    BY <1>5, <1>6, <1>7, <1>8

\* When no request is under way and the process has not died, the counters of active accounts tell how many
\* follows there are, up to the duplicates that were counted before the unique index rejected them.
THEOREM CountersTellFollows == Spec => []CountsAgree
  <1>1. Init => TypeOK /\ CountInv
    BY InitType, CountInit
  <1>2. TypeOK /\ CountInv /\ [Next]_vars => (TypeOK /\ CountInv)'
    BY NextType, CountStep
  <1>3. TypeOK /\ CountInv => CountsAgree
    BY CountSuffices
  <1> QED
    BY <1>1, <1>2, <1>3, PTL DEF Spec
==============================================================================
