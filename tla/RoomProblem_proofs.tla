------------------------- MODULE RoomProblem_proofs -------------------------
(***************************************************************************)
(* Proofs about RoomProblem, for any set of requests and room problems and *)
(* any bounds: its types, the exclusion of runs and what follows from it,  *)
(* that runProblem implements RunRecord, and that the selection and the    *)
(* statuses agree about every problem whose changes did not overlap.       *)
(***************************************************************************)
EXTENDS RoomProblem, TLAPS

USE NoneAssumption, RedisAssumption, BoundAssumption

----------------------------------------------------------------------------
(* How a step changes the requests.                                        *)

LEMMA PcNames ==
    /\ RunPc \subseteq Pc
    /\ SelectPc \subseteq Pc
    /\ UnselectPc \subseteq Pc
    /\ RemovePc \subseteq Pc
    /\ {"idle", "clearRoom"} \subseteq Pc
  BY DEF Pc

\* A request that becomes a well-formed one leaves the requests well formed.
LEMMA UpdateOK ==
    ASSUME RequestsOK, NEW r \in Requests, NEW x \in Request,
           req' = [req EXCEPT ![r] = x],
           x.pc \notin {"idle", "unselectRoom"} => x.target \in RoomProblems,
           x.pc = "selectPrevious" => x.sel \in RoomProblems
    PROVE  RequestsOK'
  BY DEF RequestsOK

LEMMA RespondOK ==
    ASSUME RequestsOK, NEW r \in Requests, Respond(r)
    PROVE  RequestsOK'
<1>1. NoRequest \in Request
  BY DEF NoRequest, Request, Pc, Status, Keep
<1>2. NoRequest.pc = "idle"
  BY DEF NoRequest
<1> QED
  BY <1>1, <1>2, UpdateOK DEF Respond

LEMMA GotoOK ==
    ASSUME RequestsOK, NEW r \in Requests, NEW pc \in Pc \ {"selectPrevious"}, Goto(r, pc),
           req[r].target \in RoomProblems
    PROVE  RequestsOK'
<1> DEFINE x == [req[r] EXCEPT !.pc = pc]
<1>1. x \in Request /\ x.pc = pc /\ x.target = req[r].target
  BY DEF RequestsOK, Request
<1>2. req' = [req EXCEPT ![r] = x]
  BY DEF RequestsOK, Goto
<1> QED
  BY <1>1, <1>2, UpdateOK

\* The pc values a request moves to, by name.
LEMMA PcValues ==
    /\ {"load", "begin", "execute", "finish", "reset", "release"} \subseteq Pc \ {"selectPrevious"}
    /\ {"selectRoom", "selectProblem", "selectSave", "selectRoomSave"} \subseteq Pc \ {"selectPrevious"}
    /\ {"unselectRoom", "unselectProblem", "unselectSave"} \subseteq Pc \ {"selectPrevious"}
    /\ {"removeRoom", "removeProblem", "removeDelete"} \subseteq Pc \ {"selectPrevious"}
    /\ {"idle", "clearRoom"} \subseteq Pc \ {"selectPrevious"}
    /\ "selectPrevious" \in Pc
  BY DEF Pc, RunPc, SelectPc, UnselectPc, RemovePc

\* Outside idle and unselectRoom a request has its target.
LEMMA HasTarget ==
    ASSUME TypeOK, NEW r \in Requests, req[r].pc \notin {"idle", "unselectRoom"}
    PROVE  req[r].target \in RoomProblems
  BY DEF TypeOK, RequestsOK

----------------------------------------------------------------------------
(* How a step changes the documents.                                       *)

\* Overwriting a document by a well-formed one leaves them well formed.
LEMMA WriteOK ==
    ASSUME TypeOK, NEW p \in RoomProblems, NEW d \in RoomProblemDoc,
           roomProblem' = [roomProblem EXCEPT ![p] = d]
    PROVE  roomProblem' \in [RoomProblems -> RoomProblemDoc]
  BY DEF TypeOK

LEMMA EndedOK ==
    ASSUME NEW d \in RoomProblemDoc, NEW dirty \in StoredStatus \union {Keep}
    PROVE  Ended(d, dirty) \in RoomProblemDoc
  BY DEF Ended, RoomProblemDoc, Status

\* A status write keeps the rest of the document.
LEMMA StatusWriteOK ==
    ASSUME TypeOK, NEW p \in RoomProblems, NEW s \in Status,
           roomProblem' = [roomProblem EXCEPT ![p].status = s]
    PROVE  roomProblem' \in [RoomProblems -> RoomProblemDoc]
<1> DEFINE d == [roomProblem[p] EXCEPT !.status = s]
<1>1. d \in RoomProblemDoc
  BY DEF TypeOK, RoomProblemDoc
<1>2. roomProblem' = [roomProblem EXCEPT ![p] = d]
  BY DEF TypeOK
<1> QED
  BY <1>1, <1>2, WriteOK

----------------------------------------------------------------------------
(* Type correctness.                                                       *)

LEMMA RunTypes ==
    ASSUME TypeOK, NEW r \in Requests,
           \/ RunLoad(r) \/ RunBegin(r) \/ RunExecute(r)
           \/ RunFinish(r) \/ RunReset(r) \/ RunRelease(r)
    PROVE  TypeOK'
<1> DEFINE p == req[r].target
<1>0. /\ RequestsOK
      /\ req[r] \in Request
      /\ p \in RoomProblems
      /\ roomProblem[p] \in RoomProblemDoc
      /\ req[r].dirty \in StoredStatus \union {Keep}
      /\ roomProblem[p].status \in Status
  BY HasTarget DEF RunLoad, RunBegin, RunExecute, RunFinish, RunReset, RunRelease, At, TypeOK, RequestsOK,
     Request, RoomProblemDoc
<1> USE <1>0
<1>1. CASE RunLoad(r)
  <2>1. CASE Goto(r, "reset") \/ Goto(r, "release")
    BY <1>1, <2>1, GotoOK, PcValues DEF RunLoad, TypeOK
  <2>2. CASE req' = [req EXCEPT ![r].pc = "begin", ![r].seen = roomProblem[p].status]
    <3> DEFINE x == [req[r] EXCEPT !.pc = "begin", !.seen = roomProblem[p].status]
    <3>1. x \in Request /\ x.pc = "begin" /\ x.target = p
      BY PcValues DEF Request
    <3>2. req' = [req EXCEPT ![r] = x]
      BY <2>2 DEF TypeOK, RequestsOK
    <3>3. RequestsOK'
      BY <3>1, <3>2, UpdateOK
    <3> QED
      BY <1>1, <3>3 DEF RunLoad, TypeOK
  <2> QED
    BY <1>1, <2>1, <2>2 DEF RunLoad, Catch, Finally
<1>2. CASE RunBegin(r)
  <2>1. RequestsOK'
    BY <1>2, GotoOK, PcValues DEF RunBegin, Catch
  <2>2. CASE UNCHANGED roomProblem
    BY <1>2, <2>1, <2>2 DEF RunBegin, TypeOK
  <2>3. CASE roomProblem' = [roomProblem EXCEPT ![p].exec = "running", ![p].by = r]
    <3> DEFINE d == [roomProblem[p] EXCEPT !.exec = "running", !.by = r]
    <3>1. d \in RoomProblemDoc
      BY DEF RoomProblemDoc
    <3>2. roomProblem' = [roomProblem EXCEPT ![p] = d]
      BY <2>3 DEF TypeOK
    <3>3. roomProblem' \in [RoomProblems -> RoomProblemDoc]
      BY <3>1, <3>2, WriteOK
    <3> QED
      BY <1>2, <2>1, <3>3 DEF RunBegin, TypeOK
  <2> QED
    BY <1>2, <2>2, <2>3 DEF RunBegin
<1>3. CASE RunExecute(r)
  <2>1. CASE Catch(r)
    BY <1>3, <2>1, GotoOK, PcValues DEF RunExecute, Catch, TypeOK
  <2>2. ASSUME NEW v \in StoredStatus \union {Keep},
               req' = [req EXCEPT ![r].pc = "finish", ![r].dirty = v]
        PROVE  RequestsOK'
    <3> DEFINE x == [req[r] EXCEPT !.pc = "finish", !.dirty = v]
    <3>1. x \in Request /\ x.pc = "finish" /\ x.target = p
      BY PcValues DEF Request
    <3>2. req' = [req EXCEPT ![r] = x]
      BY <2>2 DEF TypeOK, RequestsOK
    <3> QED
      BY <3>1, <3>2, UpdateOK
  <2>3. \A allPassed \in BOOLEAN :
            Modified(req[r].seen, Verdict(req[r].seen, allPassed)) \in StoredStatus \union {Keep}
    BY DEF Modified, Verdict, StoredStatus
  <2> QED
    BY <1>3, <2>1, <2>2, <2>3 DEF RunExecute, TypeOK
<1>4. CASE RunFinish(r)
  <2>1. RequestsOK'
    BY <1>4, GotoOK, PcValues DEF RunFinish, Finally
  <2>2. roomProblem' \in [RoomProblems -> RoomProblemDoc]
    BY <1>4, EndedOK, WriteOK DEF RunFinish, TypeOK
  <2> QED
    BY <1>4, <2>1, <2>2 DEF RunFinish, TypeOK
<1>5. CASE RunReset(r)
  <2>1. RequestsOK'
    BY <1>5, GotoOK, PcValues DEF RunReset, Finally
  <2>2. roomProblem' \in [RoomProblems -> RoomProblemDoc]
    BY <1>5, EndedOK, WriteOK DEF RunReset, TypeOK
  <2> QED
    BY <1>5, <2>1, <2>2 DEF RunReset, TypeOK
<1>6. CASE RunRelease(r)
  BY <1>6, RespondOK DEF RunRelease, TypeOK
<1> QED
  BY <1>1, <1>2, <1>3, <1>4, <1>5, <1>6

LEMMA SaveStatusTypes ==
    ASSUME TypeOK, NEW r \in Requests, NEW next \in Pc \ {"selectPrevious"}, SaveStatus(r, next),
           req[r].target \in RoomProblems
    PROVE  TypeOK'
<1>1. RequestsOK'
  BY GotoOK, RespondOK DEF SaveStatus, TypeOK
<1>2. req[r].dirty \in StoredStatus \union {Keep}
  BY DEF TypeOK, RequestsOK, Request
<1>3. roomProblem' \in [RoomProblems -> RoomProblemDoc]
  BY <1>2, StatusWriteOK DEF SaveStatus, TypeOK, Status
<1> QED
  BY <1>1, <1>3 DEF SaveStatus, TypeOK

LEMMA ChangeTypes ==
    ASSUME TypeOK, NEW r \in Requests,
           \/ SelectRoom(r) \/ SelectProblem(r) \/ SelectPrevious(r) \/ SelectSave(r)
           \/ SelectRoomSave(r) \/ UnselectRoom(r) \/ UnselectProblem(r) \/ UnselectSave(r)
           \/ RemoveRoom(r) \/ RemoveProblem(r) \/ RemoveDelete(r) \/ ClearRoom(r)
    PROVE  TypeOK'
<1> DEFINE p == req[r].target
<1>0. /\ RequestsOK
      /\ req[r] \in Request
      /\ selected \in RoomProblems \union {None}
      /\ req[r].sel \in RoomProblems \union {None}
      /\ ~At(r, "unselectRoom") => p \in RoomProblems
  BY HasTarget DEF SelectRoom, SelectProblem, SelectPrevious, SelectSave, SelectRoomSave,
     UnselectProblem, UnselectSave, RemoveRoom, RemoveProblem, RemoveDelete, ClearRoom, UnselectRoom,
     At, TypeOK, RequestsOK, Request
<1> USE <1>0
<1>1. CASE SelectRoom(r)
  <2> DEFINE x == [req[r] EXCEPT !.pc = "selectProblem", !.sel = selected]
  <2>1. x \in Request /\ x.pc = "selectProblem" /\ x.target = p
    BY PcValues DEF Request
  <2>2. req' = [req EXCEPT ![r] = x]
    BY <1>1 DEF SelectRoom, TypeOK, RequestsOK
  <2>3. RequestsOK'
    BY <1>1, <2>1, <2>2, UpdateOK DEF SelectRoom, At
  <2> QED
    BY <1>1, <2>3 DEF SelectRoom, TypeOK
<1>2. CASE SelectProblem(r)
  <2>1. SelectedStatus(roomProblem[p].status) \in StoredStatus \union {Keep}
    BY DEF SelectedStatus, Modified, StoredStatus
  <2>2. ASSUME NEW v \in StoredStatus \union {Keep}, NEW pc \in {"selectPrevious", "selectSave"},
               NEW st \in Status,
               pc = "selectPrevious" => req[r].sel # None,
               req' = [req EXCEPT ![r].pc = pc, ![r].seen = st, ![r].dirty = v]
        PROVE  RequestsOK'
    <3> DEFINE x == [req[r] EXCEPT !.pc = pc, !.seen = st, !.dirty = v]
    <3>1. x \in Request /\ x.pc = pc /\ x.target = p /\ x.sel = req[r].sel
      BY PcValues DEF Request
    <3>2. req' = [req EXCEPT ![r] = x]
      BY <2>2 DEF TypeOK, RequestsOK
    <3> QED
      BY <1>2, <2>2, <3>1, <3>2, UpdateOK DEF SelectProblem, At
  <2>3. p \in RoomProblems => roomProblem[p].status \in Status
    BY DEF TypeOK, RoomProblemDoc
  <2>4. RequestsOK'
    BY <1>2, <2>1, <2>2, <2>3, RespondOK DEF SelectProblem, At
  <2> QED
    BY <1>2, <2>4 DEF SelectProblem, TypeOK
<1>3. CASE SelectPrevious(r)
  <2>1. RequestsOK'
    BY <1>3, GotoOK, PcValues DEF SelectPrevious, At
  <2>2. req[r].sel \in RoomProblems
    BY <1>3 DEF SelectPrevious, At, RequestsOK
  <2>3. roomProblem' \in [RoomProblems -> RoomProblemDoc]
    BY <1>3, <2>2, StatusWriteOK DEF SelectPrevious, TypeOK, Status, StoredStatus
  <2> QED
    BY <1>3, <2>1, <2>3 DEF SelectPrevious, TypeOK
<1>4. CASE SelectSave(r)
  BY <1>4, SaveStatusTypes, PcValues DEF SelectSave, At
<1>5. CASE SelectRoomSave(r)
  BY <1>5, RespondOK DEF SelectRoomSave, TypeOK, At
<1>6. CASE UnselectRoom(r)
  <2>1. CASE Respond(r)
    BY <1>6, <2>1, RespondOK DEF UnselectRoom, TypeOK
  <2>2. CASE selected # None /\ req' = [req EXCEPT ![r].pc = "unselectProblem", ![r].target = selected]
    <3> DEFINE x == [req[r] EXCEPT !.pc = "unselectProblem", !.target = selected]
    <3>1. x \in Request /\ x.pc = "unselectProblem" /\ x.target = selected
      BY PcValues DEF Request
    <3>2. req' = [req EXCEPT ![r] = x]
      BY <2>2 DEF TypeOK, RequestsOK
    <3>3. RequestsOK'
      BY <2>2, <3>1, <3>2, UpdateOK
    <3> QED
      BY <1>6, <3>3 DEF UnselectRoom, TypeOK
  <2> QED
    BY <1>6, <2>1, <2>2 DEF UnselectRoom
<1>7. CASE UnselectProblem(r)
  <2>1. Modified(roomProblem[p].status, "attempted") \in StoredStatus \union {Keep}
    BY DEF Modified, StoredStatus
  <2>2. ASSUME NEW v \in StoredStatus \union {Keep},
               NEW st \in Status,
               req' = [req EXCEPT ![r].pc = "unselectSave", ![r].seen = st, ![r].dirty = v]
        PROVE  RequestsOK'
    <3> DEFINE x == [req[r] EXCEPT !.pc = "unselectSave", !.seen = st, !.dirty = v]
    <3>1. x \in Request /\ x.pc = "unselectSave" /\ x.target = p
      BY PcValues DEF Request
    <3>2. req' = [req EXCEPT ![r] = x]
      BY <2>2 DEF TypeOK, RequestsOK
    <3> QED
      BY <1>7, <3>1, <3>2, UpdateOK DEF UnselectProblem, At
  <2>3. p \in RoomProblems => roomProblem[p].status \in Status
    BY DEF TypeOK, RoomProblemDoc
  <2>4. RequestsOK'
    BY <1>7, <2>1, <2>2, <2>3, GotoOK, PcValues DEF UnselectProblem, At
  <2> QED
    BY <1>7, <2>4 DEF UnselectProblem, TypeOK
<1>8. CASE UnselectSave(r)
  BY <1>8, SaveStatusTypes, PcValues DEF UnselectSave, At
<1>9. CASE RemoveRoom(r)
  <2> DEFINE x == [req[r] EXCEPT !.pc = "removeProblem", !.sel = selected]
  <2>1. x \in Request /\ x.pc = "removeProblem" /\ x.target = p
    BY PcValues DEF Request
  <2>2. req' = [req EXCEPT ![r] = x]
    BY <1>9 DEF RemoveRoom, TypeOK, RequestsOK
  <2>3. RequestsOK'
    BY <1>9, <2>1, <2>2, UpdateOK DEF RemoveRoom, At
  <2> QED
    BY <1>9, <2>3 DEF RemoveRoom, TypeOK
<1>10. CASE RemoveProblem(r)
  BY <1>10, GotoOK, RespondOK, PcValues DEF RemoveProblem, TypeOK, At
<1>11. CASE RemoveDelete(r)
  <2>1. RequestsOK'
    BY <1>11, GotoOK, RespondOK, PcValues DEF RemoveDelete, At
  <2>2. [status |-> "removed", exec |-> "idle", by |-> None] \in RoomProblemDoc
    BY DEF RoomProblemDoc, Status
  <2>3. roomProblem' \in [RoomProblems -> RoomProblemDoc]
    BY <1>11, <2>2, WriteOK DEF RemoveDelete, At
  <2> QED
    BY <1>11, <2>1, <2>3 DEF RemoveDelete, TypeOK
<1>12. CASE ClearRoom(r)
  BY <1>12, RespondOK DEF ClearRoom, TypeOK
<1> QED
  BY <1>1, <1>2, <1>3, <1>4, <1>5, <1>6, <1>7, <1>8, <1>9, <1>10, <1>11, <1>12

\* Only problems are contested.
LEMMA ContestOK ==
    ASSUME TypeOK, NEW p \in RoomProblems \union {None}, Contest(p)
    PROVE  contested' \subseteq RoomProblems
<1>1. Touched({s \in Requests : Changing(s)}) \subseteq RoomProblems
  BY DEF Touched, TypeOK, RequestsOK, Request
<1> QED
  BY <1>1 DEF Contest, TypeOK

\* Requests that arrive, and what the environment does.
LEMMA OtherTypes ==
    ASSUME TypeOK,
           \/ \E p \in RoomProblems : AddProblem(p) \/ Expire(p)
           \/ \E r \in Requests : WriteFails(r) \/ UnselectStart(r)
           \/ \E r \in Requests, p \in RoomProblems :
                  RunStart(r, p) \/ SelectStart(r, p) \/ RemoveStart(r, p)
           \/ \E R \in SUBSET Requests : Crash(R)
    PROVE  TypeOK'
<1>1. ASSUME NEW p \in RoomProblems, AddProblem(p) PROVE TypeOK'
  <2>1. roomProblem' \in [RoomProblems -> RoomProblemDoc]
    BY <1>1, StatusWriteOK DEF AddProblem, Status, StoredStatus
  <2> QED
    BY <1>1, <2>1 DEF AddProblem, TypeOK, RequestsOK
<1>2. ASSUME NEW p \in RoomProblems, Expire(p) PROVE TypeOK'
  BY <1>2 DEF Expire, TypeOK, RequestsOK
<1>3. ASSUME NEW r \in Requests, WriteFails(r) PROVE TypeOK'
  <2>1. req[r].target \in RoomProblems
    BY <1>3, HasTarget DEF WriteFails
  <2>2. RequestsOK'
    BY <1>3, <2>1, GotoOK, RespondOK, PcValues DEF WriteFails, AfterFailure, TypeOK
  <2> QED
    BY <1>3, <2>2 DEF WriteFails, TypeOK
<1>4. ASSUME NEW r \in Requests, NEW pc \in Pc \ {"selectPrevious"}, NEW p \in RoomProblems \union {None},
             p = None => pc = "unselectRoom",
             req' = [req EXCEPT ![r] = [NoRequest EXCEPT !.pc = pc, !.target = p]]
      PROVE  RequestsOK'
  <2> DEFINE x == [NoRequest EXCEPT !.pc = pc, !.target = p]
  <2>1. x \in Request /\ x.pc = pc /\ x.target = p
    BY DEF NoRequest, Request, Status, Keep
  <2> QED
    BY <1>4, <2>1, UpdateOK DEF TypeOK
<1>5. ASSUME NEW r \in Requests, UnselectStart(r) PROVE TypeOK'
  BY <1>4, <1>5, PcValues, ContestOK DEF UnselectStart, ChangeStart, TypeOK
<1>6. ASSUME NEW r \in Requests, NEW p \in RoomProblems, SelectStart(r, p) \/ RemoveStart(r, p)
      PROVE  TypeOK'
  BY <1>4, <1>6, PcValues, ContestOK DEF SelectStart, RemoveStart, ChangeStart, TypeOK
<1>7. ASSUME NEW r \in Requests, NEW p \in RoomProblems, RunStart(r, p) PROVE TypeOK'
  <2>1. RequestsOK'
    BY <1>4, <1>7, PcValues DEF RunStart
  <2> QED
    BY <1>7, <2>1 DEF RunStart, TypeOK
<1>8. ASSUME NEW R \in SUBSET Requests, Crash(R) PROVE TypeOK'
  <2>1. NoRequest \in Request /\ NoRequest.pc = "idle"
    BY PcValues DEF NoRequest, Request, Status, Keep
  <2>2. RequestsOK'
    BY <1>8, <2>1 DEF Crash, TypeOK, RequestsOK
  <2> QED
    BY <1>8, <2>2 DEF Crash, TypeOK
<1> QED
  BY <1>1, <1>2, <1>3, <1>5, <1>6, <1>7, <1>8

(* Every operation keeps the documents, the lock and the requests well     *)
(* formed: a request that has begun its work has a target.                 *)
THEOREM TypeCorrect == Spec => []TypeOK
<1>1. Init => TypeOK
  BY PcValues DEF Init, TypeOK, RequestsOK, NoRequest, Request, RoomProblemDoc, Status, Keep
<1>2. TypeOK /\ [Next]_vars => TypeOK'
  <2>1. ASSUME TypeOK, UNCHANGED vars PROVE TypeOK'
    BY <2>1 DEF vars, TypeOK, RequestsOK
  <2> QED
    BY <2>1, RunTypes, ChangeTypes, OtherTypes DEF Next, Step
<1> QED
  BY <1>1, <1>2, PTL DEF Spec

----------------------------------------------------------------------------
(* Safety.  RunMutex and the others are not inductive.  LockInv says why   *)
(* the mutual exclusion holds (whoever is inside the try block holds the   *)
(* key), and the rest builds on it: a run that holds the key is the only   *)
(* one that writes executionStatus, so what it wrote stays (VisibleInv),   *)
(* and the status it loaded can only become solved by itself (SolvedInv).  *)

\* Who is inside the try block of a problem holds its key.
LockInv ==
    overruns = 0 => \A r \in Requests, p \in RoomProblems : RunsOn(r, p) => lock[p] = r

\* A document that does not exist runs nothing.
DocInv == \A p \in RoomProblems : ~Exists(p) => roomProblem[p].exec = "idle"

\* A run that got past its load works on a document that was created.
StartedInv ==
    \A r \in Requests : req[r].pc \in {"begin", "execute", "finish", "reset"}
                            => roomProblem[req[r].target].status # "absent"

\* A run past its first save is the one the stored document names.
VisibleInv ==
    overruns = 0 =>
        \A r \in Requests : req[r].pc \in {"execute", "finish"} /\ Exists(req[r].target)
            => /\ roomProblem[req[r].target].exec = "running"
               /\ roomProblem[req[r].target].by = r

\* A status to write over the loaded one: not solved, and none over solved.
Unsolved(q) == q.dirty # "solved" /\ (q.seen = "solved" => q.dirty = Keep)

\* Selecting and unselecting write no solved status, nor over one they loaded.
ChangeInv ==
    \A r \in Requests : req[r].pc \in {"selectPrevious", "selectSave", "unselectSave"} => Unsolved(req[r])

\* The verdict of a run; it does not take back what was loaded as solved.
VerdictInv ==
    \A r \in Requests : req[r].pc = "finish"
        => /\ req[r].dirty \in {Keep, "solved", "attempted"}
           /\ req[r].seen = "solved" => req[r].dirty = Keep

\* A run of a solved problem loaded it as solved, and will not take it back.
SolvedInv ==
    overruns = 0 =>
        \A r \in Requests : roomProblem[req[r].target].status = "solved"
            => /\ req[r].pc \in {"begin", "execute"} => req[r].seen = "solved"
               /\ req[r].pc = "finish" => req[r].dirty \in {Keep, "solved"}

\* A document names a request exactly while it says running.
NamedInv ==
    \A p \in RoomProblems : roomProblem[p].exec = "running" <=> roomProblem[p].by # None

\* A run about to begin found its document idle, and it still is.
FreeInv ==
    overruns = 0 =>
        \A r \in Requests : req[r].pc = "begin" /\ Exists(req[r].target)
            => roomProblem[req[r].target].exec = "idle"

SafeInv ==
    /\ LockInv /\ DocInv /\ StartedInv /\ VisibleInv /\ ChangeInv
    /\ VerdictInv /\ SolvedInv /\ NamedInv /\ FreeInv

----------------------------------------------------------------------------
(* What each step changes.                                                 *)

Others(r) == \A s \in Requests \ {r} : req'[s] = req[s]

LEMMA GotoEffect ==
    ASSUME TypeOK, NEW r \in Requests, NEW pc, Goto(r, pc)
    PROVE  /\ Others(r)
           /\ req'[r].pc = pc
           /\ req'[r].target = req[r].target
           /\ req'[r].seen = req[r].seen
           /\ req'[r].dirty = req[r].dirty
           /\ req'[r].sel = req[r].sel
  BY DEF Goto, Others, TypeOK, RequestsOK, Request

LEMMA RespondEffect ==
    ASSUME TypeOK, NEW r \in Requests, Respond(r)
    PROVE  Others(r) /\ req'[r].pc = "idle" /\ req'[r].target = None
  BY DEF Respond, NoRequest, Others, TypeOK, RequestsOK

LEMMA LoadEffect ==
    ASSUME TypeOK, NEW r \in Requests, RunLoad(r)
    PROVE  LET p == req[r].target IN
           /\ p \in RoomProblems
           /\ Others(r)
           /\ req[r].pc = "load"
           /\ req'[r].target = p
           /\ \/ req'[r].pc = "release"
              \/ req'[r].pc = "reset" /\ Exists(p)
              \/ req'[r].pc = "begin" /\ Exists(p) /\ ~Running(p) /\ req'[r].seen = roomProblem[p].status
           /\ UNCHANGED <<roomProblem, lock, overruns, faults>>
<1> DEFINE p == req[r].target
<1>1. p \in RoomProblems
  BY HasTarget DEF RunLoad, At
<1>2. CASE Running(p) /\ Catch(r)
  BY <1>1, <1>2, GotoEffect DEF RunLoad, At, Catch, Running
<1>3. CASE Finally(r)
  BY <1>1, <1>3, GotoEffect DEF RunLoad, At, Finally
<1>4. CASE Exists(p) /\ ~Running(p) /\ req' = [req EXCEPT ![r].pc = "begin", ![r].seen = roomProblem[p].status]
  BY <1>1, <1>4 DEF RunLoad, At, Others, TypeOK, RequestsOK, Request
<1> QED
  BY <1>2, <1>3, <1>4 DEF RunLoad

LEMMA BeginEffect ==
    ASSUME TypeOK, NEW r \in Requests, RunBegin(r)
    PROVE  LET p == req[r].target IN
           /\ p \in RoomProblems
           /\ Others(r)
           /\ req[r].pc = "begin"
           /\ req'[r].target = p
           /\ req'[r].seen = req[r].seen
           /\ \/ /\ Exists(p)
                 /\ req'[r].pc = "execute"
                 /\ roomProblem' = [roomProblem EXCEPT ![p].exec = "running", ![p].by = r]
              \/ /\ req'[r].pc = "reset"
                 /\ UNCHANGED roomProblem
           /\ UNCHANGED <<lock, overruns, faults>>
<1>1. req[r].target \in RoomProblems
  BY HasTarget DEF RunBegin, At
<1> QED
  BY <1>1, GotoEffect DEF RunBegin, At, Catch

LEMMA ExecuteEffect ==
    ASSUME TypeOK, NEW r \in Requests, RunExecute(r)
    PROVE  /\ req[r].target \in RoomProblems
           /\ Others(r)
           /\ req[r].pc = "execute"
           /\ req'[r].target = req[r].target
           /\ \/ req'[r].pc = "reset"
              \/ /\ req'[r].pc = "finish"
                 /\ req'[r].seen = req[r].seen
                 /\ req'[r].dirty \in {Keep, "solved", "attempted"}
                 /\ req[r].seen = "solved" => req'[r].dirty = Keep
           /\ UNCHANGED <<roomProblem, lock, overruns, faults>>
<1>1. req[r].target \in RoomProblems /\ req[r].pc = "execute"
  BY HasTarget DEF RunExecute, At
<1>2. CASE Catch(r)
  BY <1>1, <1>2, GotoEffect DEF RunExecute, Catch
<1>3. CASE \E allPassed \in BOOLEAN :
               req' = [req EXCEPT ![r].pc = "finish",
                                  ![r].dirty = Modified(req[r].seen, Verdict(req[r].seen, allPassed))]
  <2>1. PICK allPassed \in BOOLEAN :
               req' = [req EXCEPT ![r].pc = "finish",
                                  ![r].dirty = Modified(req[r].seen, Verdict(req[r].seen, allPassed))]
    BY <1>3
  <2>2. /\ Modified(req[r].seen, Verdict(req[r].seen, allPassed)) \in {Keep, "solved", "attempted"}
        /\ req[r].seen = "solved" => Modified(req[r].seen, Verdict(req[r].seen, allPassed)) = Keep
    BY DEF Modified, Verdict
  <2> QED
    BY <1>1, <2>1, <2>2 DEF RunExecute, Others, TypeOK, RequestsOK, Request
<1> QED
  BY <1>2, <1>3 DEF RunExecute

\* The two saves that end a run.
LEMMA EndEffect ==
    ASSUME TypeOK, NEW r \in Requests, RunFinish(r) \/ RunReset(r)
    PROVE  LET p == req[r].target
               dirty == IF req[r].pc = "finish" THEN req[r].dirty ELSE Keep
           IN
           /\ p \in RoomProblems
           /\ Others(r)
           /\ req[r].pc \in {"finish", "reset"}
           /\ RunReset(r) <=> req[r].pc = "reset"
           /\ req'[r].target = p
           /\ req'[r].pc = "release"
           /\ roomProblem' = IF Exists(p)
                             THEN [roomProblem EXCEPT ![p] = Ended(@, dirty)]
                             ELSE roomProblem
           /\ UNCHANGED <<lock, overruns, faults>>
<1>1. req[r].target \in RoomProblems
  BY HasTarget DEF RunFinish, RunReset, At
<1>2. CASE RunFinish(r)
  BY <1>1, <1>2, GotoEffect DEF RunFinish, RunReset, At, Finally
<1>3. CASE RunReset(r)
  BY <1>1, <1>3, GotoEffect DEF RunReset, At, Finally
<1> QED
  BY <1>2, <1>3

\* What the first save of a run does to each document.
LEMMA BeginDoc ==
    ASSUME TypeOK, NEW r \in Requests, RunBegin(r), NEW q \in RoomProblems
    PROVE  \/ UNCHANGED roomProblem[q]
           \/ /\ q = req[r].target
              /\ req'[r].pc = "execute"
              /\ Exists(q)
              /\ roomProblem'[q].status = roomProblem[q].status
              /\ roomProblem'[q].exec = "running"
              /\ roomProblem'[q].by = r
<1> DEFINE p == req[r].target
<1>1. p \in RoomProblems /\ roomProblem[p] \in RoomProblemDoc
  BY BeginEffect DEF TypeOK
<1>2. CASE ~Exists(p)
  BY <1>2 DEF RunBegin
<1>3. CASE Exists(p)
  <2>1. roomProblem' = [roomProblem EXCEPT ![p].exec = "running", ![p].by = r]
    BY <1>3 DEF RunBegin
  <2>2. req'[r].pc = "execute"
    BY <1>3, GotoEffect DEF RunBegin
  <2>3. roomProblem'[p] = [roomProblem[p] EXCEPT !.exec = "running", !.by = r]
    BY <1>1, <2>1 DEF TypeOK
  <2>4. q # p => roomProblem'[q] = roomProblem[q]
    BY <1>1, <2>1 DEF TypeOK
  <2> QED
    BY <1>1, <1>3, <2>2, <2>3, <2>4 DEF RoomProblemDoc
<1> QED
  BY <1>2, <1>3

\* What the saves that end a run do to each document.
LEMMA EndDoc ==
    ASSUME TypeOK, NEW r \in Requests, RunFinish(r) \/ RunReset(r), NEW q \in RoomProblems
    PROVE  IF q = req[r].target /\ Exists(q)
           THEN /\ roomProblem'[q].exec = "idle"
                /\ roomProblem'[q].by = None
                /\ roomProblem'[q].status \in StoredStatus
                /\ \/ roomProblem'[q].status = roomProblem[q].status
                   \/ /\ req[r].pc = "finish"
                      /\ roomProblem'[q].status = req[r].dirty
                      /\ req[r].dirty # Keep
           ELSE UNCHANGED roomProblem[q]
<1> DEFINE dirty == IF req[r].pc = "finish" THEN req[r].dirty ELSE Keep
<1>0. dirty \in StoredStatus \union {Keep}
  BY DEF TypeOK, RequestsOK, Request
<1>1. CASE q = req[r].target /\ Exists(q)
  <2>1. roomProblem'[q] = Ended(roomProblem[q], dirty)
    BY <1>1, EndEffect DEF TypeOK
  <2>2. /\ Ended(roomProblem[q], dirty).exec = "idle"
        /\ Ended(roomProblem[q], dirty).by = None
        /\ Ended(roomProblem[q], dirty).status = IF dirty = Keep THEN roomProblem[q].status ELSE dirty
    BY DEF Ended
  <2> QED
    BY <1>0, <1>1, <2>1, <2>2 DEF Exists
<1>2. CASE ~(q = req[r].target /\ Exists(q))
  BY <1>2, EndEffect DEF TypeOK
<1> QED
  BY <1>1, <1>2

LEMMA ReleaseEffect ==
    ASSUME TypeOK, NEW r \in Requests, RunRelease(r)
    PROVE  LET p == req[r].target IN
           /\ p \in RoomProblems
           /\ Others(r)
           /\ req[r].pc = "release"
           /\ req'[r].pc = "idle"
           /\ req'[r].target = None
           /\ lock' = [lock EXCEPT ![p] = None]
           /\ UNCHANGED <<roomProblem, overruns, faults>>
<1>1. req[r].target \in RoomProblems
  BY HasTarget DEF RunRelease, At
<1> QED
  BY <1>1, RespondEffect DEF RunRelease, At

\* The steps of selectProblem, unselectProblem and removeProblemFromRoom.
Change(r) ==
    \/ SelectRoom(r) \/ SelectProblem(r) \/ SelectPrevious(r) \/ SelectSave(r)
    \/ SelectRoomSave(r) \/ UnselectRoom(r) \/ UnselectProblem(r) \/ UnselectSave(r)
    \/ RemoveRoom(r) \/ RemoveProblem(r) \/ RemoveDelete(r) \/ ClearRoom(r)

SavePc == {"selectPrevious", "selectSave", "unselectSave"}

\* They are not runs, and no save they are about to do writes solved.
LEMMA ChangeRequests ==
    ASSUME TypeOK, ChangeInv, NEW r \in Requests, Change(r)
    PROVE  /\ Others(r)
           /\ req[r].pc \notin RunPc
           /\ req'[r].pc \notin RunPc
           /\ req'[r].pc \in SavePc => Unsolved(req'[r])
           /\ UNCHANGED <<lock, overruns, faults>>
<1> DEFINE p == req[r].target
           Result == /\ Others(r)
                     /\ req'[r].pc \notin RunPc
                     /\ req'[r].pc \in SavePc => Unsolved(req'[r])
<1>1. ASSUME NEW pc \in Pc \ (RunPc \union SavePc), Goto(r, pc) PROVE Result
  BY <1>1, GotoEffect
<1>2. ASSUME NEW pc \in SavePc, Goto(r, pc), Unsolved(req[r]) PROVE Result
  BY <1>2, GotoEffect DEF SavePc, RunPc, Unsolved
<1>3. ASSUME Respond(r) PROVE Result
  BY <1>3, RespondEffect DEF SavePc, RunPc
<1>4. CASE SelectRoom(r)
  <2>1. req' = [req EXCEPT ![r].pc = "selectProblem", ![r].sel = selected]
    BY <1>4 DEF SelectRoom
  <2>2. Result
    BY <2>1 DEF Others, SavePc, RunPc, TypeOK, RequestsOK, Request
  <2> QED
    BY <1>4, <2>2 DEF SelectRoom, At, RunPc
<1>5. CASE SelectProblem(r)
  <2>1. /\ SelectedStatus(roomProblem[p].status) # "solved"
        /\ roomProblem[p].status = "solved" => SelectedStatus(roomProblem[p].status) = Keep
    BY DEF SelectedStatus, Modified, Keep
  <2>2. ASSUME NEW pc \in SavePc, NEW v, v # "solved", NEW st, st = "solved" => v = Keep,
               req' = [req EXCEPT ![r].pc = pc, ![r].seen = st, ![r].dirty = v]
        PROVE  Result
    BY <2>2 DEF Others, SavePc, RunPc, Unsolved, TypeOK, RequestsOK, Request
  <2>3. Result
    BY <1>3, <1>5, <2>1, <2>2 DEF SelectProblem, SavePc
  <2> QED
    BY <1>5, <2>3 DEF SelectProblem, At, RunPc
<1>6. CASE SelectPrevious(r)
  BY <1>2, <1>6 DEF SelectPrevious, At, RunPc, SavePc, ChangeInv
<1>7. CASE SelectSave(r) \/ UnselectSave(r)
  <2>1. {"selectRoomSave", "clearRoom"} \subseteq Pc \ (RunPc \union SavePc)
    BY DEF Pc, SelectPc, RunPc, SavePc
  <2> QED
    BY <1>1, <1>3, <1>7, <2>1 DEF SelectSave, UnselectSave, SaveStatus, At, RunPc
<1>8. CASE SelectRoomSave(r) \/ ClearRoom(r)
  BY <1>3, <1>8 DEF SelectRoomSave, ClearRoom, At, RunPc
<1>9. CASE UnselectRoom(r)
  <2>1. ASSUME req' = [req EXCEPT ![r].pc = "unselectProblem", ![r].target = selected]
        PROVE  Result
    BY <2>1 DEF Others, SavePc, RunPc, TypeOK, RequestsOK, Request
  <2> QED
    BY <1>3, <1>9, <2>1 DEF UnselectRoom, At, RunPc
<1>10. CASE UnselectProblem(r)
  <2>1. ASSUME NEW v, v # "solved", NEW st, st # "solved",
               req' = [req EXCEPT ![r].pc = "unselectSave", ![r].seen = st, ![r].dirty = v]
        PROVE  Result
    BY <2>1 DEF Others, SavePc, RunPc, Unsolved, TypeOK, RequestsOK, Request
  <2>2. Modified(roomProblem[p].status, "attempted") # "solved"
    BY DEF Modified, Keep
  <2>3. "clearRoom" \in Pc \ (RunPc \union SavePc)
    BY DEF Pc, RunPc, SavePc
  <2> QED
    BY <1>1, <1>10, <2>1, <2>2, <2>3 DEF UnselectProblem, At, RunPc
<1>11. CASE RemoveRoom(r)
  <2>1. ASSUME req' = [req EXCEPT ![r].pc = "removeProblem", ![r].sel = selected]
        PROVE  Result
    BY <2>1 DEF Others, SavePc, RunPc, TypeOK, RequestsOK, Request
  <2> QED
    BY <1>11, <2>1 DEF RemoveRoom, At, RunPc
<1>12. CASE RemoveProblem(r)
  <2>1. "removeDelete" \in Pc \ (RunPc \union SavePc)
    BY DEF Pc, RemovePc, RunPc, SavePc
  <2> QED
    BY <1>1, <1>3, <1>12, <2>1 DEF RemoveProblem, At, RunPc
<1>13. CASE RemoveDelete(r)
  <2>1. "clearRoom" \in Pc \ (RunPc \union SavePc)
    BY DEF Pc, RunPc, SavePc
  <2> QED
    BY <1>1, <1>3, <1>13, <2>1 DEF RemoveDelete, At, RunPc
<1> QED
  BY <1>4, <1>5, <1>6, <1>7, <1>8, <1>9, <1>10, <1>11, <1>12, <1>13 DEF Change

\* A document they leave in place keeps its execution, and is not newly solved.
LEMMA ChangeDocs ==
    ASSUME TypeOK, ChangeInv, NEW r \in Requests, Change(r), NEW p \in RoomProblems
    PROVE  \/ UNCHANGED roomProblem[p]
           \/ /\ Exists(p) /\ Exists(p)'
              /\ roomProblem'[p].exec = roomProblem[p].exec
              /\ roomProblem'[p].by = roomProblem[p].by
              /\ roomProblem'[p].status # "solved"
           \/ roomProblem'[p] = [status |-> "removed", exec |-> "idle", by |-> None]
<1> DEFINE t == req[r].target
<1>1. CASE SelectPrevious(r)
  <2>1. req[r].sel \in RoomProblems
    BY <1>1 DEF SelectPrevious, At, TypeOK, RequestsOK
  <2> QED
    BY <1>1, <2>1 DEF SelectPrevious, TypeOK, RoomProblemDoc, Exists, StoredStatus
<1>2. CASE SelectSave(r) \/ UnselectSave(r)
  <2>1. t \in RoomProblems /\ req[r].dirty # "solved" /\ req[r].dirty \in StoredStatus \union {Keep}
    BY <1>2, HasTarget DEF SelectSave, UnselectSave, At, ChangeInv, Unsolved, TypeOK, RequestsOK, Request
  <2> QED
    BY <1>2, <2>1 DEF SelectSave, UnselectSave, SaveStatus, TypeOK, RoomProblemDoc, Exists
<1>3. CASE RemoveDelete(r)
  <2>1. t \in RoomProblems
    BY <1>3, HasTarget DEF RemoveDelete, At
  <2> QED
    BY <1>3, <2>1 DEF RemoveDelete, TypeOK
<1> QED
  BY <1>1, <1>2, <1>3 DEF Change, SelectRoom, SelectProblem, SelectRoomSave, UnselectRoom, UnselectProblem,
     RemoveRoom, RemoveProblem, ClearRoom

\* A request that arrives: it was idle, and its own run, if it is one, is at its load.
LEMMA StartEffect ==
    ASSUME TypeOK, NEW r \in Requests,
           \/ UnselectStart(r)
           \/ \E p \in RoomProblems : SelectStart(r, p) \/ RemoveStart(r, p)
    PROVE  /\ Others(r)
           /\ req[r].pc = "idle"
           /\ req'[r].pc \in {"selectRoom", "unselectRoom", "removeRoom"}
           /\ UNCHANGED <<roomProblem, lock, overruns, faults>>
<1>1. ASSUME NEW pc \in {"selectRoom", "unselectRoom", "removeRoom"}, NEW p, ChangeStart(r, pc, p)
      PROVE  /\ Others(r)
             /\ req[r].pc = "idle"
             /\ req'[r].pc = pc
             /\ UNCHANGED <<roomProblem, lock, overruns, faults>>
  BY <1>1 DEF ChangeStart, At, NoRequest, Others, TypeOK, RequestsOK
<1> QED
  BY <1>1 DEF UnselectStart, SelectStart, RemoveStart

LEMMA RunStartEffect ==
    ASSUME TypeOK, NEW r \in Requests, NEW p \in RoomProblems, RunStart(r, p)
    PROVE  /\ Others(r)
           /\ req[r].pc = "idle"
           /\ req'[r].pc = "load"
           /\ req'[r].target = p
           /\ lock[p] = None
           /\ lock' = [lock EXCEPT ![p] = r]
           /\ UNCHANGED <<roomProblem, overruns, faults>>
  BY DEF RunStart, KeyIsFree, At, NoRequest, Others, TypeOK, RequestsOK

LEMMA CrashEffect ==
    ASSUME TypeOK, NEW R \in SUBSET Requests, Crash(R)
    PROVE  /\ \A s \in R : req'[s].pc = "idle" /\ req'[s].target = None
           /\ \A s \in Requests \ R : req'[s] = req[s]
           /\ faults' # 0
           /\ RedisEnabled \/ R = Requests
           /\ RedisEnabled => UNCHANGED lock
           /\ UNCHANGED <<roomProblem, overruns>>
  BY DEF Crash, NoRequest, TypeOK

\* A write that rejects leaves a run that has not ended at its next save or release.
LEMMA FailEffect ==
    ASSUME TypeOK, NEW r \in Requests, WriteFails(r)
    PROVE  /\ Others(r)
           /\ \/ req'[r].pc = "idle" /\ (RedisEnabled \/ req[r].pc \notin RunPc)
              \/ /\ req[r].pc \in {"begin", "finish", "reset"}
                 /\ req'[r].pc \in {"reset", "release"}
                 /\ req'[r].pc = "reset" => req[r].pc = "begin"
                 /\ req'[r].target = req[r].target
           /\ faults' # 0
           /\ UNCHANGED <<roomProblem, lock, overruns>>
<1>1. faults' # 0
  BY DEF WriteFails, TypeOK
<1>2. CASE AfterFailure(req[r].pc) = "idle" /\ Respond(r)
  <2>1. RedisEnabled \/ req[r].pc \notin RunPc
    BY <1>2 DEF WriteFails, AfterFailure, RunPc
  <2> QED
    BY <1>1, <1>2, <2>1, RespondEffect DEF WriteFails
<1>3. CASE AfterFailure(req[r].pc) # "idle" /\ Goto(r, AfterFailure(req[r].pc))
  <2>1. /\ req[r].pc \in {"begin", "finish", "reset"}
        /\ AfterFailure(req[r].pc) \in {"reset", "release"}
        /\ AfterFailure(req[r].pc) = "reset" => req[r].pc = "begin"
    BY <1>3 DEF WriteFails, AfterFailure
  <2> QED
    BY <1>1, <1>3, <2>1, GotoEffect DEF WriteFails
<1> QED
  BY <1>2, <1>3 DEF WriteFails

----------------------------------------------------------------------------
(* The key.                                                                *)

\* RunsOn of a request that a step leaves alone, or moves inside its run.
LEMMA LockStep ==
    ASSUME TypeOK, ChangeInv, LockInv, Next
    PROVE  LockInv'
<1> SUFFICES ASSUME overruns' = 0, NEW s \in Requests, NEW q \in RoomProblems, RunsOn(s, q)'
             PROVE  lock'[q] = s
  BY DEF LockInv
<1>0. overruns = 0 => \A t \in Requests, p \in RoomProblems : RunsOn(t, p) => lock[p] = t
  BY DEF LockInv
\* A step that leaves the lock alone and lets no request into a run.
<1>a. ASSUME NEW r \in Requests, Others(r), UNCHANGED <<lock, overruns>>,
             req'[r].pc \in RunPc => req[r].pc \in RunPc /\ req'[r].target = req[r].target
      PROVE  lock'[q] = s
  BY <1>0, <1>a DEF Others, RunsOn
<1>1. ASSUME NEW p \in RoomProblems, AddProblem(p) PROVE lock'[q] = s
  BY <1>0, <1>1 DEF AddProblem, RunsOn
<1>2. ASSUME NEW p \in RoomProblems, Expire(p) PROVE lock'[q] = s
  <2>1. ~RunsOn(lock[p], p) /\ overruns = 0
    BY <1>2 DEF Expire, TypeOK
  <2>2. RunsOn(s, q) /\ lock[q] = s
    BY <1>0, <1>2, <2>1 DEF Expire, RunsOn
  <2> QED
    BY <1>2, <2>1, <2>2 DEF Expire, TypeOK
<1>3. ASSUME NEW r \in Requests, RunLoad(r) PROVE lock'[q] = s
  BY <1>3, <1>a, LoadEffect DEF RunPc
<1>4. ASSUME NEW r \in Requests, RunBegin(r) PROVE lock'[q] = s
  BY <1>4, <1>a, BeginEffect DEF RunPc
<1>5. ASSUME NEW r \in Requests, RunExecute(r) PROVE lock'[q] = s
  BY <1>5, <1>a, ExecuteEffect DEF RunPc
<1>6. ASSUME NEW r \in Requests, RunFinish(r) \/ RunReset(r) PROVE lock'[q] = s
  BY <1>6, <1>a, EndEffect DEF RunPc
<1>7. ASSUME NEW r \in Requests, RunRelease(r) PROVE lock'[q] = s
  <2>1. s # r /\ RunsOn(s, q)
    BY <1>7, ReleaseEffect DEF Others, RunsOn, RunPc
  <2>2. RunsOn(r, req[r].target) /\ overruns = 0
    BY <1>7, ReleaseEffect DEF RunsOn, RunPc
  <2>3. q # req[r].target
    BY <1>0, <1>7, <2>1, <2>2, ReleaseEffect
  <2> QED
    BY <1>0, <1>7, <2>1, <2>2, <2>3, ReleaseEffect DEF TypeOK
<1>8. ASSUME NEW r \in Requests, Change(r) PROVE lock'[q] = s
  BY <1>8, <1>a, ChangeRequests
<1>9. ASSUME NEW r \in Requests, WriteFails(r) PROVE lock'[q] = s
  BY <1>9, <1>a, FailEffect DEF RunPc
<1>10. ASSUME NEW r \in Requests,
              \/ UnselectStart(r)
              \/ \E p \in RoomProblems : SelectStart(r, p) \/ RemoveStart(r, p)
       PROVE  lock'[q] = s
  BY <1>10, <1>a, StartEffect DEF RunPc
<1>11. ASSUME NEW r \in Requests, NEW p \in RoomProblems, RunStart(r, p) PROVE lock'[q] = s
  <2>1. CASE s = r
    BY <1>11, <2>1, RunStartEffect DEF RunsOn, TypeOK
  <2>2. CASE s # r
    <3>1. RunsOn(s, q) /\ lock[q] = s
      BY <1>0, <1>11, <2>2, RunStartEffect DEF Others, RunsOn
    <3>2. lock[p] = None /\ lock' = [lock EXCEPT ![p] = r]
      BY <1>11, RunStartEffect
    <3>3. q # p
      BY <3>1, <3>2
    <3> QED
      BY <3>1, <3>2, <3>3 DEF TypeOK
  <2> QED
    BY <2>1, <2>2
<1>12. ASSUME NEW R \in SUBSET Requests, Crash(R) PROVE lock'[q] = s
  BY <1>0, <1>12, CrashEffect DEF RunsOn, RunPc
<1> QED
  BY <1>1, <1>2, <1>3, <1>4, <1>5, <1>6, <1>7, <1>8, <1>9, <1>10, <1>11, <1>12 DEF Next, Step, Change

----------------------------------------------------------------------------
(* The documents.                                                          *)

\* Every step leaves a document, changes it as a save or a removal does, or
\* creates it.
LEMMA DocStep ==
    ASSUME TypeOK, ChangeInv, DocInv, Next
    PROVE  DocInv'
<1> SUFFICES ASSUME NEW q \in RoomProblems, ~Exists(q)' PROVE roomProblem'[q].exec = "idle"
  BY DEF DocInv
<1>0. roomProblem[q] \in RoomProblemDoc /\ (~Exists(q) => roomProblem[q].exec = "idle")
  BY DEF DocInv, TypeOK
<1>a. ASSUME UNCHANGED roomProblem PROVE roomProblem'[q].exec = "idle"
  BY <1>0, <1>a DEF Exists
<1>1. ASSUME NEW p \in RoomProblems, AddProblem(p) PROVE roomProblem'[q].exec = "idle"
  BY <1>0, <1>1 DEF AddProblem, Exists, StoredStatus, TypeOK, RoomProblemDoc
<1>2. ASSUME NEW r \in Requests, RunBegin(r) PROVE roomProblem'[q].exec = "idle"
  BY <1>0, <1>2, BeginDoc DEF Exists
<1>3. ASSUME NEW r \in Requests, RunFinish(r) \/ RunReset(r) PROVE roomProblem'[q].exec = "idle"
  BY <1>0, <1>3, EndDoc DEF Exists
<1>4. ASSUME NEW r \in Requests, Change(r) PROVE roomProblem'[q].exec = "idle"
  BY <1>0, <1>4, ChangeDocs DEF Exists
<1>5. ASSUME NEW r \in Requests,
             RunLoad(r) \/ RunExecute(r) \/ RunRelease(r) \/ WriteFails(r) \/ UnselectStart(r)
      PROVE  roomProblem'[q].exec = "idle"
  BY <1>5, <1>a DEF RunLoad, RunExecute, RunRelease, WriteFails, UnselectStart, ChangeStart
<1>6. ASSUME NEW r \in Requests, NEW p \in RoomProblems,
             RunStart(r, p) \/ SelectStart(r, p) \/ RemoveStart(r, p) \/ Expire(p)
      PROVE  roomProblem'[q].exec = "idle"
  BY <1>6, <1>a DEF RunStart, SelectStart, RemoveStart, ChangeStart, Expire
<1>7. ASSUME NEW R \in SUBSET Requests, Crash(R) PROVE roomProblem'[q].exec = "idle"
  BY <1>7, <1>a DEF Crash
<1>8. ASSUME NEW p \in RoomProblems, Expire(p) PROVE roomProblem'[q].exec = "idle"
  BY <1>8, <1>a DEF Expire
<1> QED
  BY <1>1, <1>2, <1>3, <1>4, <1>5, <1>6, <1>7, <1>8 DEF Next, Step, Change

\* No step takes a document back to "absent".
LEMMA CreatedStays ==
    ASSUME TypeOK, ChangeInv, Next, NEW q \in RoomProblems, roomProblem[q].status # "absent"
    PROVE  roomProblem'[q].status # "absent"
<1>0. roomProblem[q] \in RoomProblemDoc
  BY DEF TypeOK
<1>1. ASSUME NEW p \in RoomProblems, AddProblem(p) PROVE roomProblem'[q].status # "absent"
  BY <1>0, <1>1 DEF AddProblem, TypeOK, RoomProblemDoc
<1>2. ASSUME NEW r \in Requests, RunBegin(r) PROVE roomProblem'[q].status # "absent"
  BY <1>2, BeginDoc
<1>3. ASSUME NEW r \in Requests, RunFinish(r) \/ RunReset(r) PROVE roomProblem'[q].status # "absent"
  BY <1>3, EndDoc DEF StoredStatus
<1>4. ASSUME NEW r \in Requests, Change(r) PROVE roomProblem'[q].status # "absent"
  BY <1>0, <1>4, ChangeDocs DEF Exists, StoredStatus
<1>5. ASSUME NEW r \in Requests,
             RunLoad(r) \/ RunExecute(r) \/ RunRelease(r) \/ WriteFails(r) \/ UnselectStart(r)
      PROVE  UNCHANGED roomProblem
  BY <1>5 DEF RunLoad, RunExecute, RunRelease, WriteFails, UnselectStart, ChangeStart
<1>6. ASSUME NEW r \in Requests, NEW p \in RoomProblems,
             RunStart(r, p) \/ SelectStart(r, p) \/ RemoveStart(r, p)
      PROVE  UNCHANGED roomProblem
  BY <1>6 DEF RunStart, SelectStart, RemoveStart, ChangeStart
<1>7. ASSUME NEW R \in SUBSET Requests, Crash(R) PROVE UNCHANGED roomProblem
  BY <1>7 DEF Crash
<1>8. ASSUME NEW p \in RoomProblems, Expire(p) PROVE UNCHANGED roomProblem
  BY <1>8 DEF Expire
<1> QED
  BY <1>1, <1>2, <1>3, <1>4, <1>5, <1>6, <1>7, <1>8 DEF Next, Step, Change

LEMMA StartedStep ==
    ASSUME TypeOK, ChangeInv, StartedInv, Next
    PROVE  StartedInv'
<1> DEFINE Past == {"begin", "execute", "finish", "reset"}
<1> SUFFICES ASSUME NEW s \in Requests, req'[s].pc \in Past
             PROVE  roomProblem'[req'[s].target].status # "absent"
  BY DEF StartedInv
<1>a. ASSUME req[s].pc \in Past, req'[s].target = req[s].target
      PROVE  roomProblem'[req'[s].target].status # "absent"
  BY <1>a, CreatedStays, HasTarget DEF StartedInv
<1>b. ASSUME req'[s] = req[s] PROVE roomProblem'[req'[s].target].status # "absent"
  BY <1>a, <1>b
<1>1. ASSUME NEW r \in Requests, RunLoad(r) PROVE roomProblem'[req'[s].target].status # "absent"
  BY <1>1, <1>b, LoadEffect DEF Others, Exists, StoredStatus
<1>2. ASSUME NEW r \in Requests, RunBegin(r) PROVE roomProblem'[req'[s].target].status # "absent"
  BY <1>2, <1>a, <1>b, BeginEffect DEF Others
<1>3. ASSUME NEW r \in Requests, RunExecute(r) PROVE roomProblem'[req'[s].target].status # "absent"
  BY <1>3, <1>a, <1>b, ExecuteEffect DEF Others
<1>4. ASSUME NEW r \in Requests, RunFinish(r) \/ RunReset(r)
      PROVE  roomProblem'[req'[s].target].status # "absent"
  BY <1>4, <1>b, EndEffect DEF Others
<1>5. ASSUME NEW r \in Requests, RunRelease(r) PROVE roomProblem'[req'[s].target].status # "absent"
  BY <1>5, <1>b, ReleaseEffect DEF Others
<1>6. ASSUME NEW r \in Requests, Change(r) PROVE roomProblem'[req'[s].target].status # "absent"
  BY <1>6, <1>b, ChangeRequests DEF Others, RunPc
<1>7. ASSUME NEW r \in Requests, WriteFails(r) PROVE roomProblem'[req'[s].target].status # "absent"
  BY <1>7, <1>a, <1>b, FailEffect DEF Others
<1>8. ASSUME NEW r \in Requests,
              \/ UnselectStart(r)
              \/ \E p \in RoomProblems : SelectStart(r, p) \/ RemoveStart(r, p)
      PROVE  roomProblem'[req'[s].target].status # "absent"
  BY <1>8, <1>b, StartEffect DEF Others
<1>9. ASSUME NEW r \in Requests, NEW p \in RoomProblems, RunStart(r, p)
      PROVE  roomProblem'[req'[s].target].status # "absent"
  BY <1>9, <1>b, RunStartEffect DEF Others
<1>10. ASSUME NEW R \in SUBSET Requests, Crash(R) PROVE roomProblem'[req'[s].target].status # "absent"
  BY <1>10, <1>b, CrashEffect
<1>11. ASSUME NEW p \in RoomProblems, AddProblem(p) \/ Expire(p)
       PROVE  roomProblem'[req'[s].target].status # "absent"
  BY <1>11, <1>b DEF AddProblem, Expire
<1> QED
  BY <1>1, <1>2, <1>3, <1>4, <1>5, <1>6, <1>7, <1>8, <1>9, <1>10, <1>11 DEF Next, Step, Change

LEMMA ChangeStep ==
    ASSUME TypeOK, ChangeInv, Next
    PROVE  ChangeInv'
<1> SUFFICES ASSUME NEW s \in Requests, req'[s].pc \in SavePc
             PROVE  Unsolved(req'[s])
  BY DEF ChangeInv, SavePc
<1>a. ASSUME req'[s] = req[s] PROVE Unsolved(req'[s])
  BY <1>a DEF ChangeInv, SavePc
<1>1. ASSUME NEW r \in Requests, RunLoad(r) PROVE Unsolved(req'[s])
  BY <1>1, <1>a, LoadEffect DEF Others, SavePc
<1>2. ASSUME NEW r \in Requests, RunBegin(r) PROVE Unsolved(req'[s])
  BY <1>2, <1>a, BeginEffect DEF Others, SavePc
<1>3. ASSUME NEW r \in Requests, RunExecute(r) PROVE Unsolved(req'[s])
  BY <1>3, <1>a, ExecuteEffect DEF Others, SavePc
<1>4. ASSUME NEW r \in Requests, RunFinish(r) \/ RunReset(r) PROVE Unsolved(req'[s])
  BY <1>4, <1>a, EndEffect DEF Others, SavePc
<1>5. ASSUME NEW r \in Requests, RunRelease(r) PROVE Unsolved(req'[s])
  BY <1>5, <1>a, ReleaseEffect DEF Others, SavePc
<1>6. ASSUME NEW r \in Requests, Change(r) PROVE Unsolved(req'[s])
  BY <1>6, <1>a, ChangeRequests DEF Others
<1>7. ASSUME NEW r \in Requests, WriteFails(r) PROVE Unsolved(req'[s])
  BY <1>7, <1>a, FailEffect DEF Others, SavePc
<1>8. ASSUME NEW r \in Requests,
              \/ UnselectStart(r)
              \/ \E p \in RoomProblems : SelectStart(r, p) \/ RemoveStart(r, p)
      PROVE  Unsolved(req'[s])
  BY <1>8, <1>a, StartEffect DEF Others, SavePc
<1>9. ASSUME NEW r \in Requests, NEW p \in RoomProblems, RunStart(r, p) PROVE Unsolved(req'[s])
  BY <1>9, <1>a, RunStartEffect DEF Others, SavePc
<1>10. ASSUME NEW R \in SUBSET Requests, Crash(R) PROVE Unsolved(req'[s])
  BY <1>10, <1>a, CrashEffect DEF SavePc
<1>11. ASSUME NEW p \in RoomProblems, AddProblem(p) \/ Expire(p) PROVE Unsolved(req'[s])
  BY <1>11, <1>a DEF AddProblem, Expire
<1> QED
  BY <1>1, <1>2, <1>3, <1>4, <1>5, <1>6, <1>7, <1>8, <1>9, <1>10, <1>11 DEF Next, Step, Change

----------------------------------------------------------------------------
(* The run that holds the key, and what it loaded and wrote.               *)

\* While no TTL lapsed early, two requests inside the try block are one.
LEMMA OneHolder ==
    ASSUME TypeOK, LockInv, overruns = 0, NEW r \in Requests, NEW s \in Requests,
           req[r].pc \in RunPc, req[s].pc \in RunPc, req[r].target = req[s].target
    PROVE  r = s
<1>1. req[r].target \in RoomProblems
  BY HasTarget DEF RunPc
<1> QED
  BY <1>1 DEF LockInv, RunsOn

LEMMA OverrunsStay ==
    ASSUME TypeOK, Next, overruns' = 0
    PROVE  overruns = 0
<1>1. ASSUME NEW p \in RoomProblems, AddProblem(p) \/ Expire(p) PROVE overruns = 0
  BY <1>1 DEF AddProblem, Expire, TypeOK
<1>2. ASSUME NEW r \in Requests,
             RunLoad(r) \/ RunBegin(r) \/ RunExecute(r) \/ RunFinish(r) \/ RunReset(r) \/ RunRelease(r)
      PROVE  overruns = 0
  BY <1>2 DEF RunLoad, RunBegin, RunExecute, RunFinish, RunReset, RunRelease
<1>3. ASSUME NEW r \in Requests, Change(r) PROVE overruns = 0
  BY <1>3 DEF Change, SelectRoom, SelectProblem, SelectPrevious, SelectSave, SelectRoomSave, SaveStatus,
     UnselectRoom, UnselectProblem, UnselectSave, RemoveRoom, RemoveProblem, RemoveDelete, ClearRoom
<1>4. ASSUME NEW r \in Requests, WriteFails(r) \/ UnselectStart(r) PROVE overruns = 0
  BY <1>4 DEF WriteFails, UnselectStart, ChangeStart
<1>5. ASSUME NEW r \in Requests, NEW p \in RoomProblems,
             RunStart(r, p) \/ SelectStart(r, p) \/ RemoveStart(r, p)
      PROVE  overruns = 0
  BY <1>5 DEF RunStart, SelectStart, RemoveStart, ChangeStart
<1>6. ASSUME NEW R \in SUBSET Requests, Crash(R) PROVE overruns = 0
  BY <1>6 DEF Crash
<1> QED
  BY <1>1, <1>2, <1>3, <1>4, <1>5, <1>6 DEF Next, Step, Change

LEMMA VisibleStep ==
    ASSUME TypeOK, ChangeInv, LockInv, StartedInv, VisibleInv, Next
    PROVE  VisibleInv'
<1> DEFINE Late == {"execute", "finish"}
           Visible(s) == roomProblem[req[s].target].exec = "running" /\ roomProblem[req[s].target].by = s
<1> SUFFICES ASSUME overruns' = 0, NEW s \in Requests, req'[s].pc \in Late, Exists(req[s].target)'
             PROVE  Visible(s)'
  BY DEF VisibleInv
<1>0. overruns = 0 /\ \A t \in Requests : req[t].pc \in Late /\ Exists(req[t].target) => Visible(t)
  BY OverrunsStay DEF VisibleInv
\* A step that keeps s where it is and its document as it was.
<1>a. ASSUME req[s].pc \in Late, req'[s].target = req[s].target,
             LET q == req[s].target IN
                 \/ UNCHANGED roomProblem[q]
                 \/ /\ Exists(q)
                    /\ roomProblem'[q].exec = roomProblem[q].exec
                    /\ roomProblem'[q].by = roomProblem[q].by
      PROVE  Visible(s)'
  BY <1>0, <1>a DEF Exists
<1>b. req[s].pc \in Late => req[s].target \in RoomProblems /\ req[s].pc \in RunPc
  BY HasTarget DEF RunPc
<1>1. ASSUME NEW p \in RoomProblems, AddProblem(p) PROVE Visible(s)'
  <2>1. req' = req /\ roomProblem[p].status = "absent"
    BY <1>1 DEF AddProblem
  <2>2. req[s].target # p
    BY <2>1 DEF StartedInv
  <2>3. UNCHANGED roomProblem[req[s].target]
    BY <1>1, <1>b, <2>1, <2>2 DEF AddProblem, TypeOK
  <2> QED
    BY <1>a, <2>1, <2>3
<1>2. ASSUME NEW p \in RoomProblems, Expire(p) PROVE Visible(s)'
  BY <1>2, <1>a DEF Expire
<1>3. ASSUME NEW r \in Requests, RunLoad(r) PROVE Visible(s)'
  BY <1>3, <1>a, LoadEffect DEF Others
<1>4. ASSUME NEW r \in Requests, RunBegin(r) PROVE Visible(s)'
  <2>1. CASE s = r
    <3> DEFINE q == req[r].target
    <3>1. q \in RoomProblems /\ req'[r].target = q /\ req'[r].pc = "execute"
      BY <1>4, <2>1, BeginEffect
    <3>2. roomProblem' = [roomProblem EXCEPT ![q].exec = "running", ![q].by = r]
      BY <1>4, <3>1, BeginEffect
    <3>3. roomProblem'[q] = [roomProblem[q] EXCEPT !.exec = "running", !.by = r]
      BY <3>1, <3>2 DEF TypeOK
    <3>4. roomProblem[q] \in RoomProblemDoc
      BY <3>1 DEF TypeOK
    <3> QED
      BY <2>1, <3>1, <3>3, <3>4 DEF RoomProblemDoc
  <2>2. CASE s # r
    <3>1. req'[s] = req[s] /\ req[r].pc \in RunPc
      BY <1>4, <2>2, BeginEffect DEF Others, RunPc
    <3>2. req[s].target # req[r].target
      BY <1>0, <1>b, <2>2, <3>1, OneHolder
    <3>3. UNCHANGED roomProblem[req[s].target]
      BY <1>4, <1>b, <3>1, <3>2, BeginDoc
    <3> QED
      BY <1>a, <3>1, <3>3
  <2> QED
    BY <2>1, <2>2
<1>5. ASSUME NEW r \in Requests, RunExecute(r) PROVE Visible(s)'
  BY <1>5, <1>a, ExecuteEffect DEF Others
<1>6. ASSUME NEW r \in Requests, RunFinish(r) \/ RunReset(r) PROVE Visible(s)'
  <2>1. s # r /\ req'[s] = req[s] /\ req[r].pc \in RunPc
    BY <1>6, EndEffect DEF Others, RunPc
  <2>2. req[s].target # req[r].target
    BY <1>0, <1>b, <2>1, OneHolder
  <2>3. UNCHANGED roomProblem[req[s].target]
    BY <1>6, <1>b, <2>1, <2>2, EndDoc
  <2> QED
    BY <1>a, <2>1, <2>3
<1>7. ASSUME NEW r \in Requests, RunRelease(r) PROVE Visible(s)'
  BY <1>7, <1>a, ReleaseEffect DEF Others
<1>8. ASSUME NEW r \in Requests, Change(r) PROVE Visible(s)'
  <2>1. req'[s] = req[s]
    BY <1>8, ChangeRequests DEF Others, RunPc
  <2>2. roomProblem'[req[s].target].status # "removed"
    BY <2>1 DEF Exists, StoredStatus
  <2> QED
    BY <1>8, <1>a, <1>b, <2>1, <2>2, ChangeDocs
<1>9. ASSUME NEW r \in Requests, WriteFails(r) PROVE Visible(s)'
  BY <1>9, <1>a, FailEffect DEF Others
<1>10. ASSUME NEW r \in Requests,
              \/ UnselectStart(r)
              \/ \E p \in RoomProblems : SelectStart(r, p) \/ RemoveStart(r, p)
       PROVE  Visible(s)'
  BY <1>10, <1>a, StartEffect DEF Others
<1>11. ASSUME NEW r \in Requests, NEW p \in RoomProblems, RunStart(r, p) PROVE Visible(s)'
  BY <1>11, <1>a, RunStartEffect DEF Others
<1>12. ASSUME NEW R \in SUBSET Requests, Crash(R) PROVE Visible(s)'
  BY <1>12, <1>a, CrashEffect
<1> QED
  BY <1>1, <1>2, <1>3, <1>4, <1>5, <1>6, <1>7, <1>8, <1>9, <1>10, <1>11, <1>12 DEF Next, Step, Change

LEMMA SolvedStep ==
    ASSUME TypeOK, ChangeInv, LockInv, SolvedInv, Next
    PROVE  SolvedInv'
<1> DEFINE Knows(s) == /\ req[s].pc \in {"begin", "execute"} => req[s].seen = "solved"
                       /\ req[s].pc = "finish" => req[s].dirty \in {Keep, "solved"}
           Part == {"begin", "execute", "finish"}
<1> SUFFICES ASSUME overruns' = 0, NEW s \in Requests, roomProblem'[req'[s].target].status = "solved",
                    req'[s].pc \in Part
             PROVE  Knows(s)'
  BY DEF SolvedInv
<1>0. overruns = 0 /\ \A t \in Requests : roomProblem[req[t].target].status = "solved" => Knows(t)
  BY OverrunsStay DEF SolvedInv
<1>a. ASSUME req'[s] = req[s], roomProblem[req[s].target].status = "solved" PROVE Knows(s)'
  BY <1>0, <1>a
<1>b. req[s].pc \in Part => req[s].target \in RoomProblems /\ req[s].pc \in RunPc
  BY HasTarget DEF RunPc
<1>1. ASSUME NEW p \in RoomProblems, AddProblem(p) PROVE Knows(s)'
  BY <1>1, <1>a, <1>b DEF AddProblem, TypeOK, RoomProblemDoc
<1>2. ASSUME NEW p \in RoomProblems, Expire(p) PROVE Knows(s)'
  BY <1>2, <1>a DEF Expire
<1>3. ASSUME NEW r \in Requests, RunLoad(r) PROVE Knows(s)'
  BY <1>3, <1>a, LoadEffect DEF Others
<1>4. ASSUME NEW r \in Requests, RunBegin(r) PROVE Knows(s)'
  <2>1. \A q \in RoomProblems : roomProblem'[q].status = roomProblem[q].status
    BY <1>4, BeginDoc
  <2>2. CASE s = r
    <3>1. /\ req[r].target \in RoomProblems /\ req[r].pc = "begin"
          /\ req'[r].target = req[r].target /\ req'[r].seen = req[r].seen
          /\ req'[r].pc \in {"execute", "reset"}
      BY <1>4, BeginEffect
    <3>2. roomProblem[req[r].target].status = "solved"
      BY <2>1, <2>2, <3>1
    <3> QED
      BY <1>0, <2>2, <3>1, <3>2
  <2>3. CASE s # r
    BY <1>4, <1>a, <1>b, <2>1, <2>3, BeginEffect DEF Others
  <2> QED
    BY <2>2, <2>3
<1>5. ASSUME NEW r \in Requests, RunExecute(r) PROVE Knows(s)'
  <2>1. CASE s = r
    BY <1>0, <1>5, <2>1, ExecuteEffect
  <2>2. CASE s # r
    BY <1>5, <1>a, <2>2, ExecuteEffect DEF Others
  <2> QED
    BY <2>1, <2>2
<1>6. ASSUME NEW r \in Requests, RunFinish(r) \/ RunReset(r) PROVE Knows(s)'
  <2>1. s # r /\ req'[s] = req[s] /\ req[r].pc \in RunPc
    BY <1>6, EndEffect DEF Others, RunPc
  <2>2. req[s].target # req[r].target
    BY <1>0, <1>b, <2>1, OneHolder
  <2>3. UNCHANGED roomProblem[req[s].target]
    BY <1>6, <1>b, <2>1, <2>2, EndDoc
  <2> QED
    BY <1>a, <2>1, <2>3
<1>7. ASSUME NEW r \in Requests, RunRelease(r) PROVE Knows(s)'
  BY <1>7, <1>a, ReleaseEffect DEF Others
<1>8. ASSUME NEW r \in Requests, Change(r) PROVE Knows(s)'
  <2>1. req'[s] = req[s]
    BY <1>8, ChangeRequests DEF Others, RunPc
  <2>2. roomProblem[req[s].target].status = "solved"
    BY <1>8, <1>b, <2>1, ChangeDocs
  <2> QED
    BY <1>a, <2>1, <2>2
<1>9. ASSUME NEW r \in Requests, WriteFails(r) PROVE Knows(s)'
  BY <1>9, <1>a, FailEffect DEF Others
<1>10. ASSUME NEW r \in Requests,
              \/ UnselectStart(r)
              \/ \E p \in RoomProblems : SelectStart(r, p) \/ RemoveStart(r, p)
       PROVE  Knows(s)'
  BY <1>10, <1>a, StartEffect DEF Others
<1>11. ASSUME NEW r \in Requests, NEW p \in RoomProblems, RunStart(r, p) PROVE Knows(s)'
  BY <1>11, <1>a, RunStartEffect DEF Others
<1>12. ASSUME NEW R \in SUBSET Requests, Crash(R) PROVE Knows(s)'
  BY <1>12, <1>a, CrashEffect
<1> QED
  BY <1>1, <1>2, <1>3, <1>4, <1>5, <1>6, <1>7, <1>8, <1>9, <1>10, <1>11, <1>12 DEF Next, Step, Change

LEMMA VerdictStep ==
    ASSUME TypeOK, ChangeInv, VerdictInv, Next
    PROVE  VerdictInv'
<1> DEFINE Fair(q) == /\ q.dirty \in {Keep, "solved", "attempted"}
                      /\ q.seen = "solved" => q.dirty = Keep
<1> SUFFICES ASSUME NEW s \in Requests, req'[s].pc = "finish" PROVE Fair(req'[s])
  BY DEF VerdictInv
<1>a. ASSUME req'[s] = req[s] PROVE Fair(req'[s])
  BY <1>a DEF VerdictInv
<1> HIDE DEF Fair
<1>1. ASSUME NEW r \in Requests, RunLoad(r) PROVE Fair(req'[s])
  BY <1>1, <1>a, LoadEffect DEF Others
<1>2. ASSUME NEW r \in Requests, RunBegin(r) PROVE Fair(req'[s])
  BY <1>2, <1>a, BeginEffect DEF Others
<1>3. ASSUME NEW r \in Requests, RunExecute(r) PROVE Fair(req'[s])
  <2>1. CASE s = r
    BY <1>3, <2>1, ExecuteEffect DEF Fair
  <2>2. CASE s # r
    BY <1>3, <1>a, <2>2, ExecuteEffect DEF Others
  <2> QED
    BY <2>1, <2>2
<1>4. ASSUME NEW r \in Requests, RunFinish(r) \/ RunReset(r) PROVE Fair(req'[s])
  BY <1>4, <1>a, EndEffect DEF Others
<1>5. ASSUME NEW r \in Requests, RunRelease(r) PROVE Fair(req'[s])
  BY <1>5, <1>a, ReleaseEffect DEF Others
<1>6. ASSUME NEW r \in Requests, Change(r) PROVE Fair(req'[s])
  BY <1>6, <1>a, ChangeRequests DEF Others, RunPc
<1>7. ASSUME NEW r \in Requests, WriteFails(r) PROVE Fair(req'[s])
  BY <1>7, <1>a, FailEffect DEF Others
<1>8. ASSUME NEW r \in Requests,
              \/ UnselectStart(r)
              \/ \E p \in RoomProblems : SelectStart(r, p) \/ RemoveStart(r, p)
      PROVE  Fair(req'[s])
  BY <1>8, <1>a, StartEffect DEF Others
<1>9. ASSUME NEW r \in Requests, NEW p \in RoomProblems, RunStart(r, p) PROVE Fair(req'[s])
  BY <1>9, <1>a, RunStartEffect DEF Others
<1>10. ASSUME NEW R \in SUBSET Requests, Crash(R) PROVE Fair(req'[s])
  BY <1>10, <1>a, CrashEffect
<1>11. ASSUME NEW p \in RoomProblems, AddProblem(p) \/ Expire(p) PROVE Fair(req'[s])
  BY <1>11, <1>a DEF AddProblem, Expire
<1> QED
  BY <1>1, <1>2, <1>3, <1>4, <1>5, <1>6, <1>7, <1>8, <1>9, <1>10, <1>11 DEF Next, Step, Change

\* The steps that write no document.
LEMMA NoDocs ==
    ASSUME \/ \E r \in Requests : \/ RunLoad(r) \/ RunExecute(r) \/ RunRelease(r)
                                  \/ WriteFails(r) \/ UnselectStart(r)
           \/ \E r \in Requests, p \in RoomProblems : RunStart(r, p) \/ SelectStart(r, p) \/ RemoveStart(r, p)
           \/ \E p \in RoomProblems : Expire(p)
           \/ \E R \in SUBSET Requests : Crash(R)
    PROVE  UNCHANGED roomProblem
<1>1. ASSUME NEW r \in Requests,
             RunLoad(r) \/ RunExecute(r) \/ RunRelease(r) \/ WriteFails(r) \/ UnselectStart(r)
      PROVE  UNCHANGED roomProblem
  BY <1>1 DEF RunLoad, RunExecute, RunRelease, WriteFails, UnselectStart, ChangeStart
<1>2. ASSUME NEW r \in Requests, NEW p \in RoomProblems,
             RunStart(r, p) \/ SelectStart(r, p) \/ RemoveStart(r, p)
      PROVE  UNCHANGED roomProblem
  BY <1>2 DEF RunStart, SelectStart, RemoveStart, ChangeStart
<1>3. ASSUME NEW p \in RoomProblems, Expire(p) PROVE UNCHANGED roomProblem
  BY <1>3 DEF Expire
<1>4. ASSUME NEW R \in SUBSET Requests, Crash(R) PROVE UNCHANGED roomProblem
  BY <1>4 DEF Crash
<1> QED
  BY <1>1, <1>2, <1>3, <1>4

LEMMA NamedStep ==
    ASSUME TypeOK, ChangeInv, DocInv, NamedInv, Next
    PROVE  NamedInv'
<1> SUFFICES ASSUME NEW q \in RoomProblems
             PROVE  roomProblem'[q].exec = "running" <=> roomProblem'[q].by # None
  BY DEF NamedInv
<1> DEFINE Named == roomProblem'[q].exec = "running" <=> roomProblem'[q].by # None
<1>0. roomProblem[q] \in RoomProblemDoc /\ (roomProblem[q].exec = "running" <=> roomProblem[q].by # None)
  BY DEF NamedInv, TypeOK
<1>1. ASSUME NEW p \in RoomProblems, AddProblem(p) PROVE Named
  BY <1>0, <1>1 DEF AddProblem, TypeOK, RoomProblemDoc
<1>2. ASSUME NEW r \in Requests, RunBegin(r) PROVE Named
  BY <1>0, <1>2, BeginDoc, NoneAssumption
<1>3. ASSUME NEW r \in Requests, RunFinish(r) \/ RunReset(r) PROVE Named
  BY <1>0, <1>3, EndDoc
<1>4. ASSUME NEW r \in Requests, Change(r) PROVE Named
  BY <1>0, <1>4, ChangeDocs
<1>5. CASE UNCHANGED roomProblem
  BY <1>0, <1>5
<1> QED
  BY <1>1, <1>2, <1>3, <1>4, <1>5, NoDocs DEF Next, Step, Change

LEMMA FreeStep ==
    ASSUME TypeOK, ChangeInv, LockInv, FreeInv, StartedInv, Next
    PROVE  FreeInv'
<1> SUFFICES ASSUME overruns' = 0, NEW s \in Requests, req'[s].pc = "begin", Exists(req[s].target)'
             PROVE  roomProblem'[req'[s].target].exec = "idle"
  BY DEF FreeInv
<1> DEFINE Free == roomProblem'[req'[s].target].exec = "idle"
<1>0. overruns = 0 /\ \A t \in Requests : req[t].pc = "begin" /\ Exists(req[t].target)
                         => roomProblem[req[t].target].exec = "idle"
  BY OverrunsStay DEF FreeInv
\* A step that keeps s where it is and its document as it was.
<1>a. ASSUME req[s].pc = "begin", req'[s].target = req[s].target,
             LET q == req[s].target IN
                 \/ UNCHANGED roomProblem[q]
                 \/ Exists(q) /\ roomProblem'[q].exec \in {roomProblem[q].exec, "idle"}
      PROVE  Free
  BY <1>0, <1>a DEF Exists
<1>b. req[s].pc = "begin" => req[s].target \in RoomProblems /\ req[s].pc \in RunPc
  BY HasTarget DEF RunPc
<1>1. ASSUME NEW p \in RoomProblems, AddProblem(p) PROVE Free
  <2>1. req' = req /\ roomProblem[p].status = "absent"
    BY <1>1 DEF AddProblem
  <2>2. req[s].target # p
    BY <2>1 DEF StartedInv
  <2>3. UNCHANGED roomProblem[req[s].target]
    BY <1>1, <1>b, <2>1, <2>2 DEF AddProblem, TypeOK
  <2> QED
    BY <1>a, <2>1, <2>3
<1>2. ASSUME NEW p \in RoomProblems, Expire(p) PROVE Free
  BY <1>2, <1>a DEF Expire
<1>3. ASSUME NEW r \in Requests, RunLoad(r) PROVE Free
  <2>1. CASE s = r
    <3>1. /\ req[r].target \in RoomProblems /\ req'[r].target = req[r].target
          /\ ~Running(req[r].target) /\ Exists(req[r].target) /\ UNCHANGED roomProblem
      BY <1>3, <2>1, LoadEffect
    <3> QED
      BY <2>1, <3>1 DEF Running, TypeOK, RoomProblemDoc
  <2>2. CASE s # r
    BY <1>3, <1>a, <2>2, LoadEffect DEF Others
  <2> QED
    BY <2>1, <2>2
<1>4. ASSUME NEW r \in Requests, RunBegin(r) PROVE Free
  <2>1. s # r /\ req'[s] = req[s] /\ req[r].pc \in RunPc
    BY <1>4, BeginEffect DEF Others, RunPc
  <2>2. req[s].target # req[r].target
    BY <1>0, <1>b, <2>1, OneHolder
  <2>3. UNCHANGED roomProblem[req[s].target]
    BY <1>4, <1>b, <2>1, <2>2, BeginDoc
  <2> QED
    BY <1>a, <2>1, <2>3
<1>5. ASSUME NEW r \in Requests, RunExecute(r) PROVE Free
  BY <1>5, <1>a, ExecuteEffect DEF Others
<1>6. ASSUME NEW r \in Requests, RunFinish(r) \/ RunReset(r) PROVE Free
  <2>1. req'[s] = req[s]
    BY <1>6, EndEffect DEF Others
  <2> QED
    BY <1>6, <1>a, <1>b, <2>1, EndDoc
<1>7. ASSUME NEW r \in Requests, RunRelease(r) PROVE Free
  BY <1>7, <1>a, ReleaseEffect DEF Others
<1>8. ASSUME NEW r \in Requests, Change(r) PROVE Free
  <2>1. req'[s] = req[s]
    BY <1>8, ChangeRequests DEF Others, RunPc
  <2>2. roomProblem'[req[s].target].status # "removed"
    BY <2>1 DEF Exists, StoredStatus
  <2> QED
    BY <1>8, <1>a, <1>b, <2>1, <2>2, ChangeDocs
<1>9. ASSUME NEW r \in Requests, WriteFails(r) PROVE Free
  BY <1>9, <1>a, FailEffect DEF Others
<1>10. ASSUME NEW r \in Requests,
              \/ UnselectStart(r)
              \/ \E p \in RoomProblems : SelectStart(r, p) \/ RemoveStart(r, p)
       PROVE  Free
  BY <1>10, <1>a, StartEffect DEF Others
<1>11. ASSUME NEW r \in Requests, NEW p \in RoomProblems, RunStart(r, p) PROVE Free
  BY <1>11, <1>a, RunStartEffect DEF Others
<1>12. ASSUME NEW R \in SUBSET Requests, Crash(R) PROVE Free
  BY <1>12, <1>a, CrashEffect
<1> QED
  BY <1>1, <1>2, <1>3, <1>4, <1>5, <1>6, <1>7, <1>8, <1>9, <1>10, <1>11, <1>12 DEF Next, Step, Change

----------------------------------------------------------------------------
(* The theorems.                                                           *)

LEMMA SafeInductive == Spec => [](TypeOK /\ SafeInv)
<1>1. Init => SafeInv
  <2>1. Init => \A r \in Requests : req[r].pc = "idle"
    BY DEF Init, NoRequest
  <2>2. Init => DocInv /\ NamedInv
    BY DEF Init, DocInv, NamedInv
  <2> QED
    BY <2>1, <2>2 DEF SafeInv, LockInv, RunsOn, RunPc, StartedInv, VisibleInv, ChangeInv, VerdictInv, SolvedInv, FreeInv
<1>2. TypeOK /\ SafeInv /\ [Next]_vars => SafeInv'
  <2>1. CASE Next
    BY <2>1, LockStep, DocStep, StartedStep, VisibleStep, ChangeStep, SolvedStep, VerdictStep, NamedStep, FreeStep DEF SafeInv
  <2>2. CASE UNCHANGED vars
    BY <2>2 DEF vars, SafeInv, LockInv, RunsOn, DocInv, StartedInv, VisibleInv, ChangeInv, VerdictInv, SolvedInv, NamedInv, FreeInv, Exists
  <2> QED
    BY <2>1, <2>2
<1> QED
  BY <1>1, <1>2, TypeCorrect, PTL DEF Spec

(* The run lock excludes: until a TTL lapses under a live run, at most one *)
(* request is inside runProblem's try block for a room problem, whatever   *)
(* crashes and failed writes went before.                                  *)
THEOREM RunsExclude == Spec => []RunMutex
<1>1. TypeOK /\ SafeInv => RunMutex
  <2> SUFFICES ASSUME TypeOK, SafeInv, overruns = 0, NEW p \in RoomProblems,
                      NEW r \in Requests, NEW s \in Requests, RunsOn(r, p), RunsOn(s, p)
               PROVE  r = s
    BY DEF RunMutex
  <2> QED
    BY OneHolder DEF SafeInv, RunsOn
<1> QED
  BY <1>1, SafeInductive, PTL

(* While the code of a request is at the runner, the document of its       *)
(* problem says running and names it, until a TTL lapses under a live run. *)
THEOREM RunsAreVisible == Spec => []RunVisible
<1>1. SafeInv => RunVisible
  BY DEF SafeInv, VisibleInv, RunVisible, Executing, At
<1> QED
  BY <1>1, SafeInductive, PTL

(* A solved status is taken back only by a request that read the problem   *)
(* before it was solved: by a failing run only after a TTL lapsed under a  *)
(* live run, or by a selection or unselection past its read.               *)
THEOREM SolvedStays == Spec => SolvedIsKept
<1> DEFINE Excused(p) == \E r \in Requests : /\ req[r].target = p
                                             /\ req[r].seen # "solved"
                                             /\ req'[r] # req[r]
                                             /\ \/ At(r, "finish") /\ overruns > 0
                                                \/ req[r].pc \in {"selectSave", "unselectSave"}
           A == \A p \in RoomProblems :
                    roomProblem[p].status = "solved" /\ roomProblem'[p].status \in StoredStatus \ {"solved"}
                        => Excused(p)
<1>1. TypeOK /\ SafeInv /\ [Next]_vars => [A]_vars
  <2> SUFFICES ASSUME TypeOK, SafeInv, Next, NEW p \in RoomProblems, roomProblem[p].status = "solved",
                      roomProblem'[p].status \in StoredStatus \ {"solved"}
               PROVE  Excused(p)
    OBVIOUS
  <2>0. roomProblem'[p] # roomProblem[p] /\ overruns \in Nat
    BY BoundAssumption DEF TypeOK
  <2>1. ASSUME NEW q \in RoomProblems, AddProblem(q) PROVE FALSE
    BY <2>1 DEF AddProblem, TypeOK, RoomProblemDoc
  <2>2. ASSUME NEW r \in Requests, RunBegin(r) PROVE FALSE
    BY <2>2, BeginDoc
  <2>3. ASSUME NEW r \in Requests, RunFinish(r) \/ RunReset(r) PROVE Excused(p)
    <3>1. /\ req[r].target = p /\ req[r].pc = "finish" /\ req[r].dirty \notin {Keep, "solved"}
          /\ req'[r].pc = "release"
      BY <2>3, EndDoc, EndEffect
    <3>2. req[r].seen # "solved"
      BY <3>1 DEF SafeInv, VerdictInv
    <3>3. overruns # 0
      BY <3>1 DEF SafeInv, SolvedInv
    <3> QED
      BY <2>0, <3>1, <3>2, <3>3 DEF At
  <2>4. ASSUME NEW r \in Requests, SelectSave(r) \/ UnselectSave(r) PROVE Excused(p)
    <3>1. req[r].pc \in {"selectSave", "unselectSave"} /\ req[r].target \in RoomProblems
      BY <2>4, HasTarget DEF SelectSave, UnselectSave, At
    <3>2. req[r].target = p /\ req[r].dirty # Keep
      BY <2>0, <2>4, <3>1 DEF SelectSave, UnselectSave, SaveStatus, TypeOK
    <3>3. req[r].seen # "solved"
      BY <3>1, <3>2 DEF SafeInv, ChangeInv, Unsolved
    <3>4. req'[r].pc \in {"idle", "selectRoomSave", "clearRoom"}
      BY <2>4, GotoEffect, RespondEffect DEF SelectSave, UnselectSave, SaveStatus
    <3> QED
      BY <3>1, <3>2, <3>3, <3>4
  <2>5. ASSUME NEW r \in Requests, SelectPrevious(r) PROVE FALSE
    <3>1. req[r].sel \in RoomProblems
      BY <2>5 DEF SelectPrevious, At, TypeOK, RequestsOK
    <3> QED
      BY <2>0, <2>5, <3>1 DEF SelectPrevious, TypeOK
  <2>6. ASSUME NEW r \in Requests, RemoveDelete(r) PROVE FALSE
    <3>1. req[r].target \in RoomProblems
      BY <2>6, HasTarget DEF RemoveDelete, At
    <3> QED
      BY <2>0, <2>6, <3>1 DEF RemoveDelete, TypeOK, StoredStatus
  <2>7. ASSUME NEW r \in Requests,
               \/ SelectRoom(r) \/ SelectProblem(r) \/ SelectRoomSave(r) \/ UnselectRoom(r)
               \/ UnselectProblem(r) \/ RemoveRoom(r) \/ RemoveProblem(r) \/ ClearRoom(r)
        PROVE  FALSE
    BY <2>0, <2>7 DEF SelectRoom, SelectProblem, SelectRoomSave, UnselectRoom, UnselectProblem,
                      RemoveRoom, RemoveProblem, ClearRoom
  <2>8. CASE UNCHANGED roomProblem
    BY <2>0, <2>8
  <2> QED
    BY <2>1, <2>2, <2>3, <2>4, <2>5, <2>6, <2>7, <2>8, NoDocs DEF Next, Step
<1> QED
  BY <1>1, SafeInductive, PTL DEF Spec, SolvedIsKept

(* No running status outlives its run unless a process crashed or a write  *)
(* failed: the request the document names is on its way to save idle.      *)
THEOREM RunsSettleOrFail == Spec => []NoOrphanRunning
<1> DEFINE Late == {"execute", "finish", "reset"}
           Owned(p) == \E r \in Requests : /\ roomProblem[p].by = r
                                           /\ req[r].target = p
                                           /\ req[r].pc \in Late
<1>1. Init => NoOrphanRunning
  BY DEF Init, NoOrphanRunning, Running
<1>2. TypeOK /\ SafeInv /\ NoOrphanRunning /\ [Next]_vars => NoOrphanRunning'
  <2> SUFFICES ASSUME TypeOK, SafeInv, NoOrphanRunning, [Next]_vars,
                      faults' = 0, NEW p \in RoomProblems, Running(p)'
               PROVE  Owned(p)'
    BY DEF NoOrphanRunning
  <2>0. faults = 0 => \A q \in RoomProblems : Running(q) => Owned(q)
    BY DEF NoOrphanRunning
  \* A step of r leaves the document of p, and r is or stays late.
  <2>a. ASSUME NEW r \in Requests, Others(r), faults = 0, UNCHANGED roomProblem[p],
               req[r].pc \in Late => req'[r].pc \in Late /\ req'[r].target = req[r].target
        PROVE  Owned(p)'
    <3>1. Running(p)
      BY <2>a DEF Running, Exists
    <3>2. PICK t \in Requests : roomProblem[p].by = t /\ req[t].target = p /\ req[t].pc \in Late
      BY <2>0, <2>a, <3>1
    <3> QED
      BY <2>a, <3>2 DEF Others
  <2>1. ASSUME NEW q \in RoomProblems, AddProblem(q) PROVE Owned(p)'
    <3>1. p # q
      BY <2>1 DEF AddProblem, SafeInv, DocInv, Running, Exists, StoredStatus, TypeOK, RoomProblemDoc
    <3>2. UNCHANGED <<roomProblem[p], req, faults>>
      BY <2>1, <3>1 DEF AddProblem, TypeOK
    <3> QED
      BY <2>0, <3>2 DEF Running, Exists
  <2>2. ASSUME NEW q \in RoomProblems, Expire(q) PROVE Owned(p)'
    BY <2>0, <2>2 DEF Expire, Running, Exists
  <2>3. ASSUME NEW r \in Requests, RunLoad(r) PROVE Owned(p)'
    BY <2>3, <2>a, LoadEffect
  <2>4. ASSUME NEW r \in Requests, RunBegin(r) PROVE Owned(p)'
    <3>1. CASE UNCHANGED roomProblem[p]
      BY <2>4, <2>a, <3>1, BeginEffect
    <3>2. CASE p = req[r].target /\ req'[r].pc = "execute" /\ roomProblem'[p].by = r
      BY <2>4, <3>2, BeginEffect
    <3> QED
      BY <2>4, <3>1, <3>2, BeginDoc
  <2>5. ASSUME NEW r \in Requests, RunExecute(r) PROVE Owned(p)'
    BY <2>5, <2>a, ExecuteEffect
  <2>6. ASSUME NEW r \in Requests, RunFinish(r) \/ RunReset(r) PROVE Owned(p)'
    <3>1. UNCHANGED roomProblem[p] /\ ~(p = req[r].target /\ Exists(p))
      BY <2>6, EndDoc DEF Running
    <3>2. Running(p) /\ p # req[r].target
      BY <3>1 DEF Running, Exists
    <3>3. PICK t \in Requests : roomProblem[p].by = t /\ req[t].target = p /\ req[t].pc \in Late
      BY <2>0, <2>6, <3>2, EndEffect
    <3> QED
      BY <2>6, <3>1, <3>2, <3>3, EndEffect DEF Others
  <2>7. ASSUME NEW r \in Requests, RunRelease(r) PROVE Owned(p)'
    BY <2>7, <2>a, ReleaseEffect
  <2>8. ASSUME NEW r \in Requests, Change(r) PROVE Owned(p)'
    <3>1. Others(r) /\ req[r].pc \notin Late /\ faults = 0
      BY <2>8, ChangeRequests DEF SafeInv, RunPc
    <3>2. CASE UNCHANGED roomProblem[p]
      BY <2>a, <3>1, <3>2
    <3>3. CASE Exists(p) /\ roomProblem'[p].exec = roomProblem[p].exec /\ roomProblem'[p].by = roomProblem[p].by
      BY <2>0, <3>1, <3>3 DEF Others, Running
    <3> QED
      BY <2>8, <3>2, <3>3, ChangeDocs DEF SafeInv, Running
  <2>9. ASSUME NEW r \in Requests, WriteFails(r) PROVE Owned(p)'
    BY <2>9, FailEffect
  <2>10. ASSUME NEW r \in Requests,
                \/ UnselectStart(r)
                \/ \E q \in RoomProblems : SelectStart(r, q) \/ RemoveStart(r, q)
         PROVE  Owned(p)'
    BY <2>10, <2>a, StartEffect
  <2>11. ASSUME NEW r \in Requests, NEW q \in RoomProblems, RunStart(r, q) PROVE Owned(p)'
    BY <2>11, <2>a, RunStartEffect
  <2>12. ASSUME NEW R \in SUBSET Requests, Crash(R) PROVE Owned(p)'
    BY <2>12, CrashEffect
  <2>13. CASE UNCHANGED vars
    BY <2>0, <2>13 DEF vars, Running, Exists
  <2> QED
    BY <2>1, <2>2, <2>3, <2>4, <2>5, <2>6, <2>7, <2>8, <2>9, <2>10, <2>11, <2>12, <2>13
    DEF Next, Step, Change
<1> QED
  BY <1>1, <1>2, SafeInductive, PTL DEF Spec

(* Locks that live in the process are held by live runs only: every path   *)
(* out of runProblem, failed writes and restarts included, gives the key   *)
(* back.                                                                   *)
THEOREM LocksAreReturned == Spec => []NoLeakedLock
<1>1. Init => NoLeakedLock
  BY DEF Init, NoLeakedLock
<1>2. TypeOK /\ SafeInv /\ NoLeakedLock /\ [Next]_vars => NoLeakedLock'
  <2> SUFFICES ASSUME TypeOK, SafeInv, NoLeakedLock, [Next]_vars, ~RedisEnabled,
                      NEW p \in RoomProblems, lock'[p] # None
               PROVE  RunsOn(lock[p], p)'
    BY DEF NoLeakedLock
  <2>0. lock[p] # None => lock[p] \in Requests /\ RunsOn(lock[p], p)
    BY DEF NoLeakedLock, TypeOK
  \* A step of r that leaves the lock, and r in its run if it was in one.
  <2>a. ASSUME NEW r \in Requests, Others(r), UNCHANGED lock,
               req[r].pc \in RunPc => req'[r].pc \in RunPc /\ req'[r].target = req[r].target
        PROVE  RunsOn(lock[p], p)'
    BY <2>0, <2>a DEF Others, RunsOn
  <2>1. ASSUME NEW q \in RoomProblems, AddProblem(q) \/ Expire(q) PROVE RunsOn(lock[p], p)'
    BY <2>0, <2>1 DEF AddProblem, Expire, HasTTL, RunsOn
  <2>2. ASSUME NEW r \in Requests, RunLoad(r) PROVE RunsOn(lock[p], p)'
    BY <2>2, <2>a, LoadEffect DEF RunPc
  <2>3. ASSUME NEW r \in Requests, RunBegin(r) PROVE RunsOn(lock[p], p)'
    BY <2>3, <2>a, BeginEffect DEF RunPc
  <2>4. ASSUME NEW r \in Requests, RunExecute(r) PROVE RunsOn(lock[p], p)'
    BY <2>4, <2>a, ExecuteEffect DEF RunPc
  <2>5. ASSUME NEW r \in Requests, RunFinish(r) \/ RunReset(r) PROVE RunsOn(lock[p], p)'
    BY <2>5, <2>a, EndEffect DEF RunPc
  <2>6. ASSUME NEW r \in Requests, RunRelease(r) PROVE RunsOn(lock[p], p)'
    <3>1. p # req[r].target /\ lock'[p] = lock[p]
      BY <2>6, ReleaseEffect DEF TypeOK
    <3>2. lock[p] # r
      BY <2>0, <3>1 DEF RunsOn
    <3> QED
      BY <2>0, <2>6, <3>1, <3>2, ReleaseEffect DEF Others, RunsOn
  <2>7. ASSUME NEW r \in Requests, Change(r) PROVE RunsOn(lock[p], p)'
    BY <2>7, <2>a, ChangeRequests DEF SafeInv
  <2>8. ASSUME NEW r \in Requests, WriteFails(r) PROVE RunsOn(lock[p], p)'
    BY <2>8, <2>a, FailEffect DEF RunPc
  <2>9. ASSUME NEW r \in Requests,
                \/ UnselectStart(r)
                \/ \E q \in RoomProblems : SelectStart(r, q) \/ RemoveStart(r, q)
        PROVE  RunsOn(lock[p], p)'
    BY <2>9, <2>a, StartEffect DEF RunPc
  <2>10. ASSUME NEW r \in Requests, NEW q \in RoomProblems, RunStart(r, q) PROVE RunsOn(lock[p], p)'
    <3>1. Others(r) /\ lock' = [lock EXCEPT ![q] = r] /\ req[r].pc = "idle"
      BY <2>10, RunStartEffect
    <3>2. RunsOn(r, q)'
      BY <2>10, RunStartEffect DEF RunsOn, RunPc
    <3>3. CASE p = q
      BY <3>1, <3>2, <3>3 DEF TypeOK
    <3>4. CASE p # q
      <4>1. lock'[p] = lock[p]
        BY <3>1, <3>4 DEF TypeOK
      <4> QED
        BY <2>0, <3>1, <4>1 DEF Others, RunsOn, RunPc
    <3> QED
      BY <3>3, <3>4
  <2>11. ASSUME NEW R \in SUBSET Requests, Crash(R) PROVE RunsOn(lock[p], p)'
    BY <2>11 DEF Crash
  <2>12. CASE UNCHANGED vars
    BY <2>0, <2>12 DEF vars, RunsOn
  <2> QED
    BY <2>1, <2>2, <2>3, <2>4, <2>5, <2>6, <2>7, <2>8, <2>9, <2>10, <2>11, <2>12 DEF Next, Step, Change
<1> QED
  BY <1>1, <1>2, SafeInductive, PTL DEF Spec

----------------------------------------------------------------------------
(* runProblem implements RunRecord until a TTL lapses under a live run.    *)
(* The key keeps the other runs away between the read that finds the       *)
(* problem idle and the save that says running (FreeInv), and between the  *)
(* read of the status and the verdict on it (SolvedInv).                   *)

\* What a step that leaves all documents but one alone shows of them.
LEMMA OneDocument ==
    ASSUME NEW p \in RoomProblems, \A q \in RoomProblems \ {p} : roomProblem'[q] = roomProblem[q]
    PROVE  /\ StatusOf' = [StatusOf EXCEPT ![p] = roomProblem'[p].status]
           /\ RunnerOf' = [RunnerOf EXCEPT ![p] = roomProblem'[p].by]
  BY DEF StatusOf, RunnerOf

LEMMA SameDocuments ==
    ASSUME UNCHANGED roomProblem
    PROVE  UNCHANGED <<StatusOf, RunnerOf>>
  BY DEF StatusOf, RunnerOf

LEMMA SameRunner ==
    ASSUME NEW p \in RoomProblems, \A q \in RoomProblems \ {p} : roomProblem'[q] = roomProblem[q],
           roomProblem'[p].by = roomProblem[p].by
    PROVE  UNCHANGED RunnerOf
  BY DEF RunnerOf

LEMMA SameStatus ==
    ASSUME NEW p \in RoomProblems, \A q \in RoomProblems \ {p} : roomProblem'[q] = roomProblem[q],
           roomProblem'[p].status = roomProblem[p].status
    PROVE  UNCHANGED StatusOf
  BY DEF StatusOf

LEMMA EditRefines ==
    ASSUME NEW p \in RoomProblems, \A q \in RoomProblems \ {p} : roomProblem'[q] = roomProblem[q],
           roomProblem'[p].by = roomProblem[p].by, roomProblem'[p].status \in StoredStatus \ {"solved"},
           UNCHANGED Lapsed
    PROVE  Record!Next
<1>1. UNCHANGED RunnerOf
  BY SameRunner
<1>2. Record!Edit(p)
  BY <1>1, OneDocument DEF Record!Edit, Record!Stored, StoredStatus
<1> QED
  BY <1>2 DEF Record!Next

LEMMA RemoveRefines ==
    ASSUME NEW p \in RoomProblems, \A q \in RoomProblems \ {p} : roomProblem'[q] = roomProblem[q],
           roomProblem'[p].by = None, roomProblem'[p].status = "removed", UNCHANGED Lapsed
    PROVE  Record!Next
<1>1. Record!Remove(p)
  BY OneDocument DEF Record!Remove
<1> QED
  BY <1>1 DEF Record!Next

LEMMA BeginRefines ==
    ASSUME TypeOK, SafeInv, overruns = 0, NEW r \in Requests, RunBegin(r), UNCHANGED Lapsed
    PROVE  Record!Next \/ UNCHANGED <<StatusOf, RunnerOf, Lapsed>>
<1> DEFINE p == req[r].target
<1>1. p \in RoomProblems /\ req[r].pc = "begin"
  BY BeginEffect
<1>2. CASE ~Exists(p)
  BY <1>2, SameDocuments DEF RunBegin
<1>3. CASE Exists(p)
  <2>1. roomProblem' = [roomProblem EXCEPT ![p].exec = "running", ![p].by = r]
    BY <1>3 DEF RunBegin
  <2>2. /\ \A q \in RoomProblems \ {p} : roomProblem'[q] = roomProblem[q]
        /\ roomProblem'[p].by = r /\ roomProblem'[p].status = roomProblem[p].status
    BY <1>1, <2>1 DEF TypeOK, RoomProblemDoc
  <2>3. roomProblem[p].by = None
    BY <1>1, <1>3 DEF SafeInv, FreeInv, NamedInv
  <2>4. StatusOf[p] \in Record!Stored /\ RunnerOf[p] = None
    BY <1>1, <1>3, <2>3 DEF StatusOf, RunnerOf, Exists, StoredStatus, Record!Stored
  <2>5. RunnerOf' = [RunnerOf EXCEPT ![p] = r] /\ UNCHANGED StatusOf
    BY <1>1, <2>2, OneDocument, SameStatus
  <2>6. Record!Begin(r, p)
    BY <2>4, <2>5 DEF Record!Begin
  <2> QED
    BY <1>1, <2>6 DEF Record!Next
<1> QED
  BY <1>2, <1>3

LEMMA EndRefines ==
    ASSUME TypeOK, SafeInv, overruns = 0, NEW r \in Requests, RunFinish(r) \/ RunReset(r), UNCHANGED Lapsed
    PROVE  Record!Next \/ UNCHANGED <<StatusOf, RunnerOf, Lapsed>>
<1> DEFINE p == req[r].target
<1>1. p \in RoomProblems /\ req[r].pc \in {"finish", "reset"}
  BY EndEffect DEF RunFinish, RunReset, At
<1>2. CASE ~Exists(p)
  BY <1>2, SameDocuments DEF RunFinish, RunReset
<1>3. CASE Exists(p)
  <2>1. \A q \in RoomProblems \ {p} : roomProblem'[q] = roomProblem[q]
    BY EndDoc
  <2>2. /\ roomProblem'[p].by = None
        /\ \/ roomProblem'[p].status = roomProblem[p].status
           \/ /\ req[r].pc = "finish"
              /\ roomProblem'[p].status = req[r].dirty
              /\ req[r].dirty # Keep
    BY <1>1, <1>3, EndDoc
  <2>3. CASE roomProblem[p].by = None
    <3>1. req[r].pc # "finish"
      BY <1>1, <1>3, <2>3 DEF SafeInv, VisibleInv, NamedInv
    <3> QED
      BY <1>1, <2>1, <2>2, <2>3, <3>1, SameStatus, SameRunner
  <2>4. CASE roomProblem[p].by # None
    <3>1. roomProblem'[p].status \in {roomProblem[p].status, "solved"}
              \union (IF roomProblem[p].status = "solved" THEN {} ELSE {"attempted"})
      BY <2>2 DEF SafeInv, VerdictInv, SolvedInv
    <3>2. StatusOf[p] = roomProblem[p].status /\ RunnerOf[p] # None
      BY <1>1, <2>4 DEF StatusOf, RunnerOf
    <3>3. Record!End(p)
      BY <1>1, <2>1, <2>2, <3>1, <3>2, OneDocument DEF Record!End
    <3> QED
      BY <1>1, <3>3 DEF Record!Next
  <2> QED
    BY <2>3, <2>4
<1> QED
  BY <1>2, <1>3

\* A change writes one document at most.
LEMMA OneChanged ==
    ASSUME TypeOK, NEW r \in Requests, Change(r)
    PROVE  \/ UNCHANGED roomProblem
           \/ \E p \in RoomProblems : \A q \in RoomProblems \ {p} : roomProblem'[q] = roomProblem[q]
<1>1. CASE SelectPrevious(r)
  <2>1. req[r].sel \in RoomProblems
    BY <1>1 DEF SelectPrevious, At, TypeOK, RequestsOK
  <2> QED
    BY <1>1, <2>1 DEF SelectPrevious, TypeOK
<1>2. CASE SelectSave(r) \/ UnselectSave(r)
  <2>1. req[r].target \in RoomProblems
    BY <1>2, HasTarget DEF SelectSave, UnselectSave, At
  <2> QED
    BY <1>2, <2>1 DEF SelectSave, UnselectSave, SaveStatus, TypeOK
<1>3. CASE RemoveDelete(r)
  <2>1. req[r].target \in RoomProblems
    BY <1>3, HasTarget DEF RemoveDelete, At
  <2> QED
    BY <1>3, <2>1 DEF RemoveDelete, TypeOK
<1> QED
  BY <1>1, <1>2, <1>3 DEF Change, SelectRoom, SelectProblem, SelectRoomSave, UnselectRoom, UnselectProblem,
     RemoveRoom, RemoveProblem, ClearRoom

LEMMA ChangeRefines ==
    ASSUME TypeOK, SafeInv, NEW r \in Requests, Change(r), UNCHANGED Lapsed
    PROVE  Record!Next \/ UNCHANGED <<StatusOf, RunnerOf, Lapsed>>
<1>1. CASE UNCHANGED roomProblem
  BY <1>1, SameDocuments
<1>2. ASSUME NEW p \in RoomProblems, \A q \in RoomProblems \ {p} : roomProblem'[q] = roomProblem[q]
      PROVE  Record!Next \/ UNCHANGED <<StatusOf, RunnerOf, Lapsed>>
  <2>1. CASE UNCHANGED roomProblem[p]
    BY <1>2, <2>1, SameStatus, SameRunner
  <2>2. CASE Exists(p)' /\ roomProblem'[p].by = roomProblem[p].by /\ roomProblem'[p].status # "solved"
    BY <1>2, <2>2, EditRefines DEF Exists
  <2>3. CASE roomProblem'[p] = [status |-> "removed", exec |-> "idle", by |-> None]
    BY <1>2, <2>3, RemoveRefines
  <2> QED
    BY <2>1, <2>2, <2>3, ChangeDocs DEF SafeInv
<1> QED
  BY <1>1, <1>2, OneChanged

LEMMA AddRefines ==
    ASSUME TypeOK, NEW p \in RoomProblems, AddProblem(p)
    PROVE  Record!Next
<1>1. \A q \in RoomProblems \ {p} : roomProblem'[q] = roomProblem[q]
  BY DEF AddProblem, TypeOK
<1>2. roomProblem'[p].by = roomProblem[p].by /\ roomProblem'[p].status = "pending"
  BY DEF AddProblem, TypeOK, RoomProblemDoc
<1>3. UNCHANGED Lapsed
  BY DEF AddProblem, Lapsed
<1> QED
  BY <1>1, <1>2, <1>3, EditRefines DEF StoredStatus

(* runProblem implements the abstract record of runs: until a TTL lapses   *)
(* under a live run, a run begins on a problem that nobody runs and its    *)
(* verdict is right about the status stored when it ends, whatever crashes,*)
(* failed writes and changes of the room come in between.                  *)
THEOREM RunsImplementRecord == Spec => RunIsAtomic
<1>1. Init => Record!Init
  BY DEF Init, Record!Init, StatusOf, RunnerOf, Lapsed
<1>2. ASSUME TypeOK, TypeOK', SafeInv, Next PROVE Record!Next \/ UNCHANGED <<StatusOf, RunnerOf, Lapsed>>
  <2>0. overruns \in Nat /\ overruns' \in Nat
    BY <1>2, BoundAssumption DEF TypeOK
  <2>1. CASE overruns' # 0
    <3>1. Lapsed'
      BY <2>0, <2>1 DEF Lapsed
    <3> QED
      BY <3>1 DEF Record!Next, Record!Lapse
  <2>2. CASE overruns' = 0
    <3>1. overruns = 0 /\ UNCHANGED Lapsed
      BY <1>2, <2>2, OverrunsStay DEF Lapsed
    <3>2. CASE UNCHANGED roomProblem
      BY <3>1, <3>2, SameDocuments
    <3>3. ASSUME NEW p \in RoomProblems, AddProblem(p) PROVE Record!Next
      BY <1>2, <3>3, AddRefines
    <3>4. ASSUME NEW r \in Requests, RunBegin(r) PROVE Record!Next \/ UNCHANGED <<StatusOf, RunnerOf, Lapsed>>
      BY <1>2, <3>1, <3>4, BeginRefines
    <3>5. ASSUME NEW r \in Requests, RunFinish(r) \/ RunReset(r)
          PROVE  Record!Next \/ UNCHANGED <<StatusOf, RunnerOf, Lapsed>>
      BY <1>2, <3>1, <3>5, EndRefines
    <3>6. ASSUME NEW r \in Requests, Change(r) PROVE Record!Next \/ UNCHANGED <<StatusOf, RunnerOf, Lapsed>>
      BY <1>2, <3>1, <3>6, ChangeRefines
    <3> QED
      BY <1>2, <3>2, <3>3, <3>4, <3>5, <3>6, NoDocs DEF Next, Step, Change
  <2> QED
    BY <2>1, <2>2
<1>3. TypeOK /\ TypeOK' /\ SafeInv /\ [Next]_vars => [Record!Next]_<<StatusOf, RunnerOf, Lapsed>>
  <2>1. CASE UNCHANGED vars
    BY <2>1 DEF vars, StatusOf, RunnerOf, Lapsed
  <2> QED
    BY <1>2, <2>1
<1> QED
  BY <1>1, <1>3, SafeInductive, PTL DEF Spec, RunIsAtomic, Record!Spec

----------------------------------------------------------------------------
(* The selection.  SelectionAgrees speaks of the moments between changes;  *)
(* what is true inside one is said for each problem p that is not          *)
(* contested: the changes that concern p have seen the room as it is.      *)

\* A selection or removal that meets another change is contested.
MeetInv ==
    \A r, s \in Requests :
        r # s /\ Changing(r) /\ Changing(s) /\ req[s].pc \in SelectPc \union RemovePc
            => req[s].target \in contested

\* The selections and removals that have read the room, and the unselections.
PastRead == {"selectProblem", "selectPrevious", "selectSave", "selectRoomSave", "removeProblem", "removeDelete"}
Clearing == {"unselectProblem", "unselectSave", "clearRoom"}

\* r knows whether p is selected.
Knows(r, p) ==
    /\ selected = p /\ req[r].pc \in PastRead => req[r].sel = p
    /\ selected = p /\ req[r].pc \in Clearing => req[r].target = p
    /\ req[r].target = p /\ req[r].pc \in PastRead => req[r].sel = selected

\* The writes r goes on to are up to date about p.
Current(r, p) ==
    /\ req[r].target = p /\ req[r].pc = "unselectSave"
         => \/ req[r].dirty = "attempted"
            \/ req[r].dirty = Keep /\ roomProblem[p].status # "solving"
    /\ req[r].target = p /\ req[r].pc = "clearRoom" => roomProblem[p].status # "solving"
    /\ req[r].target = p /\ req[r].pc = "selectRoomSave" => Exists(p)
    /\ selected = p /\ req[r].target # p /\ req[r].pc \in {"selectSave", "selectRoomSave"}
         => roomProblem[p].status # "solving"

\* Only the selected problem is being solved, or one about to be selected.
SolvingIsSelected(p) ==
    roomProblem[p].status = "solving" =>
        selected = p \/ \E r \in Requests : req[r].pc = "selectRoomSave" /\ req[r].target = p

\* The selected problem exists, or whoever removed it is about to say so.
SelectedExists(p) ==
    selected = p => Exists(p) \/ \E r \in Requests : req[r].pc = "clearRoom" /\ req[r].target = p

Agrees(p) ==
    /\ SolvingIsSelected(p)
    /\ SelectedExists(p)
    /\ \A r \in Requests : Knows(r, p) /\ Current(r, p)

SelectInv == faults = 0 => MeetInv /\ \A p \in RoomProblems \ contested : Agrees(p)

\* How a run, an addition or a lapse changes the status of p: if at all, then
\* not to solving, and what exists goes on to exist.
Harmless(p) ==
    \/ roomProblem'[p].status = roomProblem[p].status
    \/ roomProblem'[p].status \in StoredStatus \ {"solving"}

\* A request whose step is not about the selection.
Apart(r) ==
    \/ req'[r] = req[r]
    \/ /\ req[r].pc \in RunPc \union {"idle"}
       /\ req'[r].pc \in RunPc \union {"idle", "selectRoom", "unselectRoom", "removeRoom"}

LEMMA ApartAgrees ==
    ASSUME NEW p \in RoomProblems, Agrees(p), UNCHANGED selected, Harmless(p),
           \A r \in Requests : Apart(r)
    PROVE  Agrees(p)'
<1>1. ASSUME NEW r \in Requests PROVE Knows(r, p)' /\ Current(r, p)'
  <2>1. CASE req'[r] = req[r]
    BY <2>1 DEF Agrees, Knows, Current, Harmless, Exists
  <2>2. CASE req'[r].pc \in RunPc \union {"idle", "selectRoom", "unselectRoom", "removeRoom"}
    BY <2>2 DEF Knows, Current, PastRead, Clearing, RunPc
  <2> QED
    BY <2>1, <2>2 DEF Apart
<1>2. SolvingIsSelected(p)'
  BY DEF Agrees, SolvingIsSelected, Harmless, Apart, RunPc
<1>3. SelectedExists(p)'
  BY DEF Agrees, SelectedExists, Harmless, Exists, Apart, RunPc
<1> QED
  BY <1>1, <1>2, <1>3 DEF Agrees

\* Nobody else is changing the room while r is selecting or removing p.
LEMMA Alone ==
    ASSUME MeetInv, NEW p \in RoomProblems \ contested, NEW r \in Requests, NEW s \in Requests,
           req[s].pc \in SelectPc \union RemovePc, req[s].target = p, req[r].pc \notin RunPc \union {"idle"}
    PROVE  r = s
  BY DEF MeetInv, Changing, SelectPc, RemovePc, RunPc

\* A change that writes nothing.
LEMMA ReadAgrees ==
    ASSUME NEW p \in RoomProblems, Agrees(p), UNCHANGED <<roomProblem, selected>>,
           NEW r \in Requests, Others(r), req[r].pc \notin {"selectRoomSave", "clearRoom"},
           Knows(r, p)', Current(r, p)'
    PROVE  Agrees(p)'
<1>1. ASSUME NEW s \in Requests, s # r PROVE Knows(s, p)' /\ Current(s, p)'
  BY <1>1 DEF Agrees, Knows, Current, Exists, Others
<1>2. SolvingIsSelected(p)'
  BY DEF Agrees, SolvingIsSelected, Others
<1>3. SelectedExists(p)'
  BY DEF Agrees, SelectedExists, Exists, Others
<1> QED
  BY <1>1, <1>2, <1>3 DEF Agrees

\* A change that ends.
LEMMA EndKnows ==
    ASSUME NEW r \in Requests, req'[r].pc = "idle", NEW p \in RoomProblems
    PROVE  Knows(r, p)' /\ Current(r, p)'
  BY DEF Knows, Current, PastRead, Clearing

LEMMA ReadsAgree ==
    ASSUME TypeOK, NEW p \in RoomProblems, Agrees(p), NEW r \in Requests,
           \/ SelectRoom(r) \/ SelectProblem(r) \/ UnselectRoom(r) \/ UnselectProblem(r)
           \/ RemoveRoom(r) \/ RemoveProblem(r)
    PROVE  Agrees(p)'
<1> DEFINE t == req[r].target
<1>0. /\ req[r] \in Request /\ Knows(r, p) /\ Current(r, p)
      /\ None \notin RoomProblems
      /\ req \in [Requests -> Request]
  BY NoneAssumption DEF Agrees, TypeOK, RequestsOK
<1>1. UNCHANGED <<roomProblem, selected>>
  BY DEF SelectRoom, SelectProblem, UnselectRoom, UnselectProblem, RemoveRoom, RemoveProblem
<1>2. CASE Respond(r)
  <2>1. Others(r) /\ req'[r].pc = "idle"
    BY <1>2, RespondEffect
  <2>2. req[r].pc \notin {"selectRoomSave", "clearRoom"}
    BY DEF SelectRoom, SelectProblem, UnselectRoom, UnselectProblem, RemoveRoom, RemoveProblem, At
  <2> QED
    BY <1>1, <2>1, <2>2, EndKnows, ReadAgrees
<1>3. CASE SelectRoom(r) \/ RemoveRoom(r)
  <2>1. /\ Others(r) /\ req[r].pc \in {"selectRoom", "removeRoom"}
        /\ req'[r].pc \in {"selectProblem", "removeProblem"} /\ req'[r].sel = selected
    BY <1>0, <1>3 DEF SelectRoom, RemoveRoom, At, Others, Request
  <2>2. Knows(r, p)' /\ Current(r, p)'
    BY <1>1, <2>1 DEF Knows, Current, PastRead, Clearing
  <2> QED
    BY <1>1, <2>1, <2>2, ReadAgrees
<1>4. CASE SelectProblem(r) /\ ~Respond(r)
  <2>1. /\ Others(r) /\ req[r].pc = "selectProblem"
        /\ req'[r].pc = IF req[r].sel \notin {None, t} THEN "selectPrevious" ELSE "selectSave"
        /\ req'[r].target = t /\ req'[r].sel = req[r].sel
    BY <1>0, <1>4 DEF SelectProblem, At, Others, Request
  <2>2. Knows(r, p)'
    BY <1>0, <1>1, <2>1 DEF Knows, PastRead, Clearing
  <2>3. Current(r, p)'
    BY <1>0, <1>1, <2>1 DEF Current, Knows, PastRead
  <2> QED
    BY <1>1, <2>1, <2>2, <2>3, ReadAgrees
<1>5. CASE UnselectRoom(r) /\ ~Respond(r)
  <2>1. /\ Others(r) /\ req[r].pc = "unselectRoom"
        /\ req'[r].pc = "unselectProblem" /\ req'[r].target = selected
    BY <1>0, <1>5 DEF UnselectRoom, At, Others, Request
  <2>2. Knows(r, p)' /\ Current(r, p)'
    BY <1>1, <2>1 DEF Knows, Current, PastRead, Clearing
  <2> QED
    BY <1>1, <2>1, <2>2, ReadAgrees
<1>6. CASE UnselectProblem(r)
  <2>1. Others(r) /\ req[r].pc = "unselectProblem" /\ req'[r].target = t /\ t \in RoomProblems
    <3>1. req[r].pc = "unselectProblem" /\ t \in RoomProblems
      BY <1>6, HasTarget DEF UnselectProblem, At
    <3> QED
      BY <1>0, <1>6, <3>1, GotoEffect DEF UnselectProblem, Others, Request
  <2>2. \/ /\ req'[r].pc = "unselectSave"
           /\ \/ req'[r].dirty = "attempted"
              \/ req'[r].dirty = Keep /\ roomProblem[t].status # "solving"
        \/ req'[r].pc = "clearRoom" /\ roomProblem[t].status # "solving"
    <3>1. CASE Exists(t) /\ roomProblem[t].status # "solved"
      <4>1. /\ req'[r].pc = "unselectSave"
            /\ req'[r].dirty = Modified(roomProblem[t].status, "attempted")
        BY <1>0, <1>6, <3>1 DEF UnselectProblem, Request
      <4> QED
        BY <4>1 DEF Modified
    <3>2. CASE ~(Exists(t) /\ roomProblem[t].status # "solved")
      <4>1. Goto(r, "clearRoom")
        BY <1>6, <3>2 DEF UnselectProblem
      <4> QED
        BY <3>2, <4>1, GotoEffect DEF Exists, StoredStatus
    <3> QED
      BY <3>1, <3>2
  <2>3. Knows(r, p)' /\ Current(r, p)'
    BY <1>0, <1>1, <2>1, <2>2 DEF Knows, Current, PastRead, Clearing
  <2> QED
    BY <1>1, <2>1, <2>3, ReadAgrees
<1>7. CASE RemoveProblem(r) /\ ~Respond(r)
  <2>1. /\ Others(r) /\ req[r].pc = "removeProblem" /\ req'[r].pc = "removeDelete"
        /\ req'[r].target = t /\ req'[r].sel = req[r].sel
    BY <1>7, GotoEffect DEF RemoveProblem, At
  <2>2. Knows(r, p)' /\ Current(r, p)'
    BY <1>0, <1>1, <2>1 DEF Knows, Current, PastRead, Clearing
  <2> QED
    BY <1>1, <2>1, <2>2, ReadAgrees
<1> QED
  BY <1>2, <1>3, <1>4, <1>5, <1>6, <1>7

\* A change that leaves p alone and the room as it is.
LEMMA ElsewhereAgrees ==
    ASSUME NEW p \in RoomProblems, Agrees(p), UNCHANGED <<roomProblem[p], selected>>,
           NEW r \in Requests, Others(r), req[r].pc \notin {"selectRoomSave", "clearRoom"},
           Knows(r, p)', Current(r, p)'
    PROVE  Agrees(p)'
<1>1. ASSUME NEW s \in Requests, s # r PROVE Knows(s, p)' /\ Current(s, p)'
  BY <1>1 DEF Agrees, Knows, Current, Exists, Others
<1>2. SolvingIsSelected(p)'
  BY DEF Agrees, SolvingIsSelected, Others
<1>3. SelectedExists(p)'
  BY DEF Agrees, SelectedExists, Exists, Others
<1> QED
  BY <1>1, <1>2, <1>3 DEF Agrees

LEMMA PreviousAgrees ==
    ASSUME TypeOK, MeetInv, NEW p \in RoomProblems \ contested, Agrees(p), NEW r \in Requests, SelectPrevious(r)
    PROVE  Agrees(p)'
<1> DEFINE q == req[r].sel
<1>0. /\ req[r].pc = "selectPrevious" /\ q \in RoomProblems
      /\ Knows(r, p) /\ Current(r, p)
      /\ UNCHANGED selected
  BY DEF SelectPrevious, At, TypeOK, RequestsOK, Agrees
<1>1. /\ Others(r) /\ req'[r].pc = "selectSave" /\ req'[r].target = req[r].target /\ req'[r].sel = q
  BY GotoEffect DEF SelectPrevious
<1>2. /\ p # q => roomProblem'[p] = roomProblem[p]
      /\ p = q => roomProblem'[p].status # "solving"
      /\ Harmless(p)
  BY <1>0 DEF SelectPrevious, TypeOK, RoomProblemDoc, Harmless, StoredStatus
<1>3. Knows(r, p)'
  BY <1>0, <1>1 DEF Knows, PastRead, Clearing
<1>4. Current(r, p)'
  BY <1>0, <1>1, <1>2 DEF Current, Knows, PastRead
<1>5. ASSUME NEW s \in Requests, s # r PROVE Knows(s, p)' /\ Current(s, p)'
  BY <1>0, <1>1, <1>2, <1>5 DEF Agrees, Knows, Current, Exists, Others, Harmless
<1>6. SolvingIsSelected(p)'
  BY <1>0, <1>1, <1>2 DEF Agrees, SolvingIsSelected, Others, Harmless
<1>7. SelectedExists(p)'
  BY <1>0, <1>1, <1>2 DEF Agrees, SelectedExists, Exists, Others, Harmless
<1> QED
  BY <1>3, <1>4, <1>5, <1>6, <1>7 DEF Agrees

LEMMA SavesAgree ==
    ASSUME TypeOK, ChangeInv, MeetInv, NEW p \in RoomProblems \ contested, Agrees(p), NEW r \in Requests,
           SelectSave(r) \/ UnselectSave(r)
    PROVE  Agrees(p)'
<1> DEFINE t == req[r].target
<1>0. /\ req[r].pc \in {"selectSave", "unselectSave"} /\ t \in RoomProblems
      /\ Knows(r, p) /\ Current(r, p)
      /\ UNCHANGED selected
      /\ req[r].dirty \in StoredStatus \union {Keep}
      /\ req \in [Requests -> Request]
  BY HasTarget DEF SelectSave, UnselectSave, SaveStatus, At, Agrees, TypeOK, RequestsOK, Request
<1>1. CASE ~Exists(t)
  <2>1. UNCHANGED roomProblem /\ Others(r) /\ req'[r].pc = "idle"
    BY <1>1, RespondEffect DEF SelectSave, UnselectSave, SaveStatus
  <2> QED
    BY <1>0, <2>1, EndKnows, ReadAgrees
<1>2. CASE Exists(t)
  <2>1. /\ Others(r) /\ req'[r].target = t /\ req'[r].sel = req[r].sel
        /\ req'[r].pc = IF req[r].pc = "selectSave" THEN "selectRoomSave" ELSE "clearRoom"
    BY <1>0, <1>2, GotoEffect DEF SelectSave, UnselectSave, SaveStatus, At
  <2>2. /\ p # t => roomProblem'[p] = roomProblem[p]
        /\ p = t => roomProblem'[p].status = IF req[r].dirty = Keep THEN roomProblem[p].status ELSE req[r].dirty
    BY <1>0, <1>2 DEF SelectSave, UnselectSave, SaveStatus, TypeOK, RoomProblemDoc
  <2>3. p = t => Exists(p) /\ Exists(p)'
    BY <1>0, <1>2, <2>2 DEF Exists
  <2>4. Knows(r, p)'
    BY <1>0, <2>1 DEF Knows, PastRead, Clearing
  <2>5. CASE req[r].pc = "selectSave"
    <3>1. Current(r, p)'
      BY <1>0, <2>1, <2>2, <2>3, <2>5 DEF Current
    <3>2. p = t => \A s \in Requests \ {r} : req[s].pc \in RunPc \union {"idle"}
      BY <2>5, Alone DEF SelectPc
    <3>3. ASSUME NEW s \in Requests, s # r PROVE Knows(s, p)' /\ Current(s, p)'
      <4>1. CASE p = t
        BY <2>1, <3>2, <3>3, <4>1 DEF Knows, Current, PastRead, Clearing, RunPc, Others
      <4>2. CASE p # t
        BY <1>0, <2>1, <2>2, <3>3, <4>2 DEF Agrees, Knows, Current, Exists, Others
      <4> QED
        BY <4>1, <4>2
    <3>4. SolvingIsSelected(p)'
      <4>1. CASE p = t
        BY <2>1, <2>5, <4>1 DEF SolvingIsSelected
      <4>2. CASE p # t
        BY <1>0, <2>1, <2>2, <2>5, <4>2 DEF Agrees, SolvingIsSelected, Others
      <4> QED
        BY <4>1, <4>2
    <3>5. SelectedExists(p)'
      BY <1>0, <2>1, <2>2, <2>3, <2>5 DEF Agrees, SelectedExists, Exists, Others
    <3> QED
      BY <2>4, <3>1, <3>3, <3>4, <3>5 DEF Agrees
  <2>6. CASE req[r].pc = "unselectSave"
    <3>1. p = t => roomProblem'[p].status # "solving"
      BY <1>0, <2>2, <2>6 DEF Current, Keep, StoredStatus
    <3>2. Current(r, p)'
      BY <1>0, <2>1, <2>6, <3>1 DEF Current
    <3>3. ASSUME NEW s \in Requests, s # r PROVE Knows(s, p)' /\ Current(s, p)'
      <4>1. CASE p = t
        <5>1. req[s].pc \notin SelectPc \union RemovePc \/ req[s].target # p
          BY <1>0, <2>6, <3>3, Alone DEF RunPc
        <5> QED
          BY <1>0, <2>1, <2>3, <3>1, <3>3, <4>1 DEF Agrees, Knows, Current, Others
      <4>2. CASE p # t
        BY <1>0, <2>1, <2>2, <3>3, <4>2 DEF Agrees, Knows, Current, Exists, Others
      <4> QED
        BY <4>1, <4>2
    <3>4. SolvingIsSelected(p)'
      <4>1. CASE p = t
        BY <3>1, <4>1 DEF SolvingIsSelected
      <4>2. CASE p # t
        BY <1>0, <2>1, <2>2, <2>6, <4>2 DEF Agrees, SolvingIsSelected, Others
      <4> QED
        BY <4>1, <4>2
    <3>5. SelectedExists(p)'
      BY <1>0, <2>1, <2>2, <2>3, <2>6 DEF Agrees, SelectedExists, Exists, Others
    <3> QED
      BY <2>4, <3>2, <3>3, <3>4, <3>5 DEF Agrees
  <2> QED
    BY <1>0, <2>5, <2>6
<1> QED
  BY <1>1, <1>2

LEMMA RoomSaveAgrees ==
    ASSUME TypeOK, MeetInv, NEW p \in RoomProblems \ contested, Agrees(p), NEW r \in Requests, SelectRoomSave(r)
    PROVE  Agrees(p)'
<1> DEFINE t == req[r].target
<1>0. /\ req[r].pc = "selectRoomSave" /\ t \in RoomProblems
      /\ Knows(r, p) /\ Current(r, p)
      /\ UNCHANGED roomProblem
      /\ selected' = IF req[r].sel = t THEN selected ELSE t
  BY HasTarget DEF SelectRoomSave, At, Agrees
<1>1. Others(r) /\ req'[r].pc = "idle"
  BY RespondEffect DEF SelectRoomSave
<1>2. Knows(r, p)' /\ Current(r, p)'
  BY <1>1, EndKnows
<1>3. CASE p = t
  <2>1. selected' = p
    BY <1>0, <1>3 DEF Knows, PastRead
  <2>2. Exists(p)'
    BY <1>0, <1>3 DEF Current, Exists
  <2>3. ASSUME NEW s \in Requests, s # r PROVE Knows(s, p)' /\ Current(s, p)'
    <3>1. req[s].pc \in RunPc \union {"idle"}
      BY <1>0, <1>3, <2>3, Alone DEF SelectPc
    <3> QED
      BY <1>1, <2>3, <3>1 DEF Knows, Current, PastRead, Clearing, RunPc, Others
  <2> QED
    BY <1>2, <2>1, <2>2, <2>3 DEF Agrees, SolvingIsSelected, SelectedExists
<1>4. CASE p # t
  <2>1. selected' # p \/ selected' = selected
    BY <1>0, <1>4
  <2>2. ASSUME NEW s \in Requests, s # r PROVE Knows(s, p)' /\ Current(s, p)'
    <3>1. CASE selected' = selected
      BY <1>0, <1>1, <2>2, <3>1 DEF Agrees, Knows, Current, Exists, Others
    <3>2. CASE selected' # selected /\ selected' # p
      <4>1. req[s].pc \in SelectPc \union RemovePc => req[s].target # p
        BY <1>0, <2>2, Alone DEF RunPc
      <4> QED
        BY <1>0, <1>1, <2>2, <3>2, <4>1 DEF Agrees, Knows, Current, Exists, Others, PastRead, SelectPc, RemovePc
    <3> QED
      BY <2>1, <3>1, <3>2
  <2>3. SolvingIsSelected(p)'
    <3>1. CASE selected = p /\ selected' # p
      BY <1>0, <1>4, <3>1 DEF Current, SolvingIsSelected
    <3>2. CASE ~(selected = p /\ selected' # p)
      BY <1>0, <1>1, <1>4, <3>2 DEF Agrees, SolvingIsSelected, Others
    <3> QED
      BY <3>1, <3>2
  <2>4. SelectedExists(p)'
    BY <1>0, <1>1, <2>1 DEF Agrees, SelectedExists, Exists, Others
  <2> QED
    BY <1>2, <2>2, <2>3, <2>4 DEF Agrees
<1> QED
  BY <1>3, <1>4

LEMMA ClearAgrees ==
    ASSUME TypeOK, MeetInv, NEW p \in RoomProblems \ contested, Agrees(p), NEW r \in Requests, ClearRoom(r)
    PROVE  Agrees(p)'
<1>0. /\ req[r].pc = "clearRoom"
      /\ Knows(r, p) /\ Current(r, p)
      /\ UNCHANGED roomProblem
      /\ selected' = None /\ None # p
  BY NoneAssumption DEF ClearRoom, At, Agrees
<1>1. Others(r) /\ req'[r].pc = "idle"
  BY RespondEffect DEF ClearRoom
<1>2. Knows(r, p)' /\ Current(r, p)'
  BY <1>1, EndKnows
<1>3. ASSUME NEW s \in Requests, s # r PROVE Knows(s, p)' /\ Current(s, p)'
  <2>1. req[s].pc \in SelectPc \union RemovePc => req[s].target # p
    BY <1>0, <1>3, Alone DEF RunPc
  <2> QED
    BY <1>0, <1>1, <1>3, <2>1 DEF Agrees, Knows, Current, Exists, Others, PastRead, SelectPc, RemovePc
<1>4. SolvingIsSelected(p)'
  <2>1. CASE selected = p
    BY <1>0, <2>1 DEF Knows, Current, Clearing, SolvingIsSelected
  <2>2. CASE selected # p
    BY <1>0, <1>1, <2>2 DEF Agrees, SolvingIsSelected, Others
  <2> QED
    BY <2>1, <2>2
<1>5. SelectedExists(p)'
  BY <1>0 DEF SelectedExists
<1> QED
  BY <1>2, <1>3, <1>4, <1>5 DEF Agrees

LEMMA DeleteAgrees ==
    ASSUME TypeOK, MeetInv, NEW p \in RoomProblems \ contested, Agrees(p), NEW r \in Requests, RemoveDelete(r)
    PROVE  Agrees(p)'
<1> DEFINE t == req[r].target
<1>0. /\ req[r].pc = "removeDelete" /\ t \in RoomProblems
      /\ Knows(r, p) /\ Current(r, p)
      /\ UNCHANGED selected
  BY HasTarget DEF RemoveDelete, At, Agrees
<1>1. /\ Others(r)
      /\ \/ req[r].sel # t /\ req'[r].pc = "idle"
         \/ req[r].sel = t /\ req'[r].pc = "clearRoom" /\ req'[r].target = t
  BY GotoEffect, RespondEffect DEF RemoveDelete, WasSelected
<1>2. /\ p # t => roomProblem'[p] = roomProblem[p]
      /\ p = t => roomProblem'[p].status = "removed"
  BY <1>0 DEF RemoveDelete, TypeOK
<1>3. Knows(r, p)' /\ Current(r, p)'
  BY <1>0, <1>1, <1>2 DEF Knows, Current, PastRead, Clearing
<1>4. CASE p # t
  BY <1>0, <1>1, <1>2, <1>3, <1>4, ElsewhereAgrees
<1>5. CASE p = t
  <2>1. ASSUME NEW s \in Requests, s # r PROVE Knows(s, p)' /\ Current(s, p)'
    <3>1. req[s].pc \in RunPc \union {"idle"}
      BY <1>0, <1>5, <2>1, Alone DEF RemovePc
    <3> QED
      BY <1>1, <2>1, <3>1 DEF Knows, Current, PastRead, Clearing, RunPc, Others
  <2>2. SolvingIsSelected(p)'
    BY <1>2, <1>5 DEF SolvingIsSelected
  <2>3. SelectedExists(p)'
    BY <1>0, <1>1, <1>5 DEF Knows, PastRead, SelectedExists
  <2> QED
    BY <1>3, <2>1, <2>2, <2>3 DEF Agrees
<1> QED
  BY <1>4, <1>5

LEMMA ChangeAgrees ==
    ASSUME TypeOK, ChangeInv, MeetInv, NEW p \in RoomProblems \ contested, Agrees(p), NEW r \in Requests, Change(r)
    PROVE  Agrees(p)'
  BY ReadsAgree, PreviousAgrees, SavesAgree, RoomSaveAgrees, ClearAgrees, DeleteAgrees DEF Change

\* Steps of runs, additions, lapses and requests that arrive.
LEMMA OthersAgree ==
    ASSUME TypeOK, VerdictInv, NEW p \in RoomProblems, Agrees(p),
           \/ \E q \in RoomProblems : AddProblem(q) \/ Expire(q)
           \/ \E r \in Requests : \/ RunLoad(r) \/ RunBegin(r) \/ RunExecute(r) \/ RunFinish(r)
                                  \/ RunReset(r) \/ RunRelease(r) \/ UnselectStart(r)
           \/ \E r \in Requests, q \in RoomProblems : RunStart(r, q) \/ SelectStart(r, q) \/ RemoveStart(r, q)
    PROVE  Agrees(p)'
<1>a. ASSUME NEW r \in Requests, Others(r), req[r].pc \in RunPc \union {"idle"},
             req'[r].pc \in RunPc \union {"idle", "selectRoom", "unselectRoom", "removeRoom"},
             UNCHANGED selected, Harmless(p)
      PROVE  Agrees(p)'
  <2>1. \A s \in Requests : Apart(s)
    BY <1>a DEF Apart, Others
  <2> QED
    BY <1>a, <2>1, ApartAgrees
<1>0. {"load", "begin", "execute", "finish", "reset", "release"} = RunPc
  BY DEF RunPc
<1>b. ASSUME UNCHANGED roomProblem PROVE Harmless(p)
  BY <1>b DEF Harmless
<1>1. ASSUME NEW q \in RoomProblems, AddProblem(q) PROVE Agrees(p)'
  <2>1. UNCHANGED <<req, selected>>
    BY <1>1 DEF AddProblem
  <2>2. Harmless(p)
    BY <1>1 DEF AddProblem, TypeOK, RoomProblemDoc, Harmless, StoredStatus
  <2>3. \A s \in Requests : Apart(s)
    BY <2>1 DEF Apart
  <2> QED
    BY <2>1, <2>2, <2>3, ApartAgrees
<1>2. ASSUME NEW q \in RoomProblems, Expire(q) PROVE Agrees(p)'
  <2>1. UNCHANGED <<req, selected, roomProblem>>
    BY <1>2 DEF Expire
  <2>2. \A s \in Requests : Apart(s)
    BY <2>1 DEF Apart
  <2> QED
    BY <1>b, <2>1, <2>2, ApartAgrees
<1>3. ASSUME NEW r \in Requests, RunLoad(r) PROVE Agrees(p)'
  BY <1>0, <1>3, <1>a, <1>b, LoadEffect DEF RunLoad
<1>4. ASSUME NEW r \in Requests, RunBegin(r) PROVE Agrees(p)'
  <2>1. Harmless(p)
    BY <1>4, BeginDoc DEF Harmless
  <2>2. UNCHANGED selected
    BY <1>4 DEF RunBegin
  <2>3. Others(r) /\ req[r].pc = "begin" /\ req'[r].pc \in {"execute", "reset"}
    BY <1>4, BeginEffect
  <2> QED
    BY <1>0, <1>a, <2>1, <2>2, <2>3
<1>5. ASSUME NEW r \in Requests, RunExecute(r) PROVE Agrees(p)'
  BY <1>0, <1>5, <1>a, <1>b, ExecuteEffect DEF RunExecute
<1>6. ASSUME NEW r \in Requests, RunFinish(r) \/ RunReset(r) PROVE Agrees(p)'
  <2>1. Harmless(p)
    BY <1>6, EndDoc DEF Harmless, VerdictInv
  <2>2. UNCHANGED selected /\ req[r].pc \in {"finish", "reset"}
    BY <1>6 DEF RunFinish, RunReset, At
  <2>3. Others(r) /\ req'[r].pc = "release"
    BY <1>6, EndEffect
  <2> QED
    BY <1>0, <1>a, <2>1, <2>2, <2>3
<1>7. ASSUME NEW r \in Requests, RunRelease(r) PROVE Agrees(p)'
  BY <1>0, <1>7, <1>a, <1>b, ReleaseEffect DEF RunRelease
<1>8. ASSUME NEW r \in Requests,
             UnselectStart(r) \/ \E q \in RoomProblems : SelectStart(r, q) \/ RemoveStart(r, q)
      PROVE  Agrees(p)'
  <2>1. UNCHANGED selected
    BY <1>8 DEF UnselectStart, SelectStart, RemoveStart, ChangeStart
  <2> QED
    BY <1>8, <1>a, <1>b, <2>1, StartEffect
<1>9. ASSUME NEW r \in Requests, NEW q \in RoomProblems, RunStart(r, q) PROVE Agrees(p)'
  <2>1. UNCHANGED <<selected, roomProblem>> /\ req[r].pc = "idle"
    BY <1>9 DEF RunStart, At
  <2>2. Others(r) /\ req'[r].pc = "load"
    BY <1>9, RunStartEffect
  <2> QED
    BY <1>0, <1>a, <1>b, <2>1, <2>2
<1> QED
  BY <1>1, <1>2, <1>3, <1>4, <1>5, <1>6, <1>7, <1>8, <1>9

\* Contested problems stay contested.
LEMMA ContestedStays ==
    ASSUME Next
    PROVE  contested \subseteq contested'
<1>1. ASSUME NEW p \in RoomProblems, AddProblem(p) \/ Expire(p) PROVE contested' = contested
  BY <1>1 DEF AddProblem, Expire
<1>2. ASSUME NEW r \in Requests, Step(r) \/ WriteFails(r) PROVE contested' = contested
  BY <1>2 DEF Step, RunLoad, RunBegin, RunExecute, RunFinish, RunReset, RunRelease, SelectRoom, SelectProblem,
              SelectPrevious, SaveStatus, SelectSave, SelectRoomSave, UnselectRoom, UnselectProblem,
              UnselectSave, RemoveRoom, RemoveProblem, RemoveDelete, ClearRoom, WriteFails
<1>3. ASSUME NEW r \in Requests, NEW p \in RoomProblems, RunStart(r, p) PROVE contested' = contested
  BY <1>3 DEF RunStart
<1>4. ASSUME NEW r \in Requests, NEW p \in RoomProblems,
             UnselectStart(r) \/ SelectStart(r, p) \/ RemoveStart(r, p)
      PROVE  contested \subseteq contested'
  BY <1>4 DEF UnselectStart, SelectStart, RemoveStart, ChangeStart, Contest
<1>5. ASSUME NEW r \in Requests, UnselectStart(r) PROVE contested \subseteq contested'
  BY <1>5 DEF UnselectStart, ChangeStart, Contest
<1>6. ASSUME NEW R \in SUBSET Requests, Crash(R) PROVE contested' = contested
  BY <1>6 DEF Crash
<1> QED
  BY <1>1, <1>2, <1>3, <1>4, <1>5, <1>6 DEF Next

\* A request that goes on with its change keeps what it is about.
LEMMA SameKind ==
    ASSUME TypeOK, NEW r \in Requests, Change(r)
    PROVE  /\ Others(r)
           /\ Changing(r)
           /\ req'[r].pc \in SelectPc \union RemovePc
                => req[r].pc \in SelectPc \union RemovePc /\ req'[r].target = req[r].target
<1> DEFINE t == req[r].target
           Result == /\ Others(r)
                     /\ req'[r].pc \in SelectPc \union RemovePc
                          => req[r].pc \in SelectPc \union RemovePc /\ req'[r].target = t
<1>0. req[r] \in Request /\ req \in [Requests -> Request]
  BY DEF TypeOK, RequestsOK
<1>1. Changing(r)
  BY DEF Change, SelectRoom, SelectProblem, SelectPrevious, SelectSave, SelectRoomSave, UnselectRoom,
         UnselectProblem, UnselectSave, RemoveRoom, RemoveProblem, RemoveDelete, ClearRoom, At, Changing, RunPc
<1>2. ASSUME Respond(r) PROVE Result
  BY <1>2, RespondEffect DEF SelectPc, RemovePc
<1>3. ASSUME NEW pc, Goto(r, pc), pc = "clearRoom" \/ req[r].pc \in SelectPc \union RemovePc PROVE Result
  BY <1>3, GotoEffect DEF SelectPc, RemovePc
<1>4. ASSUME SelectRoom(r) \/ RemoveRoom(r) PROVE Result
  BY <1>0, <1>4 DEF SelectRoom, RemoveRoom, At, Others, Request, SelectPc, RemovePc
<1>5. ASSUME SelectProblem(r) /\ ~Respond(r) PROVE Result
  BY <1>0, <1>5 DEF SelectProblem, At, Others, Request, SelectPc, RemovePc
<1>6. ASSUME SelectPrevious(r) PROVE Result
  BY <1>3, <1>6 DEF SelectPrevious, At, SelectPc
<1>7. ASSUME SelectSave(r) \/ UnselectSave(r) PROVE Result
  BY <1>2, <1>3, <1>7 DEF SelectSave, UnselectSave, SaveStatus, At, SelectPc
<1>8. ASSUME SelectRoomSave(r) \/ ClearRoom(r) PROVE Result
  BY <1>2, <1>8 DEF SelectRoomSave, ClearRoom
<1>9. ASSUME UnselectRoom(r) /\ ~Respond(r) PROVE Result
  BY <1>0, <1>9 DEF UnselectRoom, At, Others, Request, SelectPc, RemovePc
<1>10. ASSUME UnselectProblem(r) PROVE Result
  <2>1. CASE Goto(r, "clearRoom")
    BY <1>3, <2>1
  <2>2. CASE ~Goto(r, "clearRoom")
    BY <1>0, <1>10, <2>2 DEF UnselectProblem, At, Others, Request, SelectPc, RemovePc
  <2> QED
    BY <2>1, <2>2
<1>11. ASSUME RemoveProblem(r) \/ RemoveDelete(r) PROVE Result
  BY <1>2, <1>3, <1>11 DEF RemoveProblem, RemoveDelete, At, RemovePc
<1>12. Result
  BY <1>2, <1>4, <1>5, <1>6, <1>7, <1>8, <1>9, <1>10, <1>11 DEF Change
<1> QED
  BY <1>1, <1>12

\* Every change that meets another one is contested.
LEMMA MeetStep ==
    ASSUME TypeOK, MeetInv, Next, faults' = 0
    PROVE  MeetInv'
<1> DEFINE Kept(s) == \/ ~Changing(s)'
                      \/ /\ Changing(s)
                         /\ req'[s].pc \in SelectPc \union RemovePc
                              => req[s].pc \in SelectPc \union RemovePc /\ req'[s].target = req[s].target
<1>a. ASSUME \A s \in Requests : Kept(s) PROVE MeetInv'
  BY <1>a, ContestedStays DEF MeetInv
<1>b. ASSUME NEW r \in Requests, Others(r), req'[r].pc \in RunPc \union {"idle"} PROVE MeetInv'
  <2>1. \A s \in Requests : Kept(s)
    BY <1>b DEF Others, Changing
  <2> QED
    BY <1>a, <2>1
<1>0. {"load", "begin", "execute", "finish", "reset", "release"} = RunPc
  BY DEF RunPc
<1>1. ASSUME NEW p \in RoomProblems, AddProblem(p) \/ Expire(p) PROVE MeetInv'
  <2>1. \A s \in Requests : Kept(s)
    BY <1>1 DEF AddProblem, Expire, Changing
  <2> QED
    BY <1>a, <2>1
<1>2. ASSUME NEW r \in Requests,
             RunLoad(r) \/ RunBegin(r) \/ RunExecute(r) \/ RunFinish(r) \/ RunReset(r) \/ RunRelease(r)
      PROVE  MeetInv'
  BY <1>0, <1>2, <1>b, LoadEffect, BeginEffect, ExecuteEffect, EndEffect, ReleaseEffect
<1>3. ASSUME NEW r \in Requests, Change(r) PROVE MeetInv'
  <2>1. \A s \in Requests : Kept(s)
    BY <1>3, SameKind DEF Others, Changing
  <2> QED
    BY <1>a, <2>1
<1>4. ASSUME NEW r \in Requests, NEW p \in RoomProblems, RunStart(r, p) PROVE MeetInv'
  BY <1>0, <1>4, <1>b, RunStartEffect
<1>5. ASSUME NEW r \in Requests, NEW pc, NEW p, ChangeStart(r, pc, p), p = None => pc = "unselectRoom",
             p # None => p \in RoomProblems
      PROVE  MeetInv'
  <2>1. /\ Others(r) /\ req[r].pc = "idle" /\ req'[r].pc = pc /\ req'[r].target = p
        /\ Contest(p)
    BY <1>5 DEF ChangeStart, At, NoRequest, Others, TypeOK, RequestsOK
  <2> SUFFICES ASSUME NEW a \in Requests, NEW b \in Requests, a # b, Changing(a)', Changing(b)',
                      req'[b].pc \in SelectPc \union RemovePc
               PROVE  req'[b].target \in contested'
    BY DEF MeetInv
  <2>2. ~Changing(r)
    BY <2>1 DEF Changing
  <2>3. CASE a # r /\ b # r
    BY <2>1, <2>3, ContestedStays DEF MeetInv, Others, Changing
  <2>4. CASE b = r
    <3>1. Changing(a) /\ p # None
      BY <1>5, <2>1, <2>4 DEF Others, Changing, SelectPc, RemovePc
    <3> QED
      BY <2>1, <2>4, <3>1 DEF Contest
  <2>5. CASE a = r /\ b # r
    <3>1. Changing(b) /\ req'[b] = req[b]
      BY <2>1, <2>5 DEF Others, Changing
    <3>2. req[b].target \in RoomProblems
      BY <3>1, HasTarget DEF SelectPc, RemovePc
    <3>3. req[b].target \in Touched({s \in Requests : Changing(s)})
      BY <3>1, <3>2, NoneAssumption DEF Touched
    <3> QED
      BY <2>1, <3>1, <3>3 DEF Contest
  <2> QED
    BY <2>3, <2>4, <2>5
<1>6. ASSUME NEW r \in Requests, UnselectStart(r) PROVE MeetInv'
  BY <1>5, <1>6 DEF UnselectStart
<1>7. ASSUME NEW r \in Requests, NEW p \in RoomProblems, SelectStart(r, p) \/ RemoveStart(r, p) PROVE MeetInv'
  BY <1>5, <1>7, NoneAssumption DEF SelectStart, RemoveStart
<1>8. ASSUME NEW r \in Requests, WriteFails(r) PROVE FALSE
  BY <1>8, FailEffect
<1>9. ASSUME NEW R \in SUBSET Requests, Crash(R) PROVE FALSE
  BY <1>9, CrashEffect
<1> QED
  BY <1>1, <1>2, <1>3, <1>4, <1>6, <1>7, <1>8, <1>9 DEF Next, Step, Change

\* A step without a failure leaves faults as it is.
LEMMA FaultsStay ==
    ASSUME TypeOK, Next, faults' = 0
    PROVE  faults = 0
<1>1. ASSUME NEW p \in RoomProblems, AddProblem(p) \/ Expire(p) PROVE faults = 0
  BY <1>1 DEF AddProblem, Expire
<1>2. ASSUME NEW r \in Requests, Step(r) PROVE faults = 0
  BY <1>2 DEF Step, RunLoad, RunBegin, RunExecute, RunFinish, RunReset, RunRelease, SelectRoom, SelectProblem,
              SelectPrevious, SaveStatus, SelectSave, SelectRoomSave, UnselectRoom, UnselectProblem,
              UnselectSave, RemoveRoom, RemoveProblem, RemoveDelete, ClearRoom
<1>3. ASSUME NEW r \in Requests, UnselectStart(r) PROVE faults = 0
  BY <1>3 DEF UnselectStart, ChangeStart
<1>4. ASSUME NEW r \in Requests, NEW p \in RoomProblems, RunStart(r, p) \/ SelectStart(r, p) \/ RemoveStart(r, p)
      PROVE  faults = 0
  BY <1>4 DEF RunStart, SelectStart, RemoveStart, ChangeStart
<1>5. ASSUME NEW r \in Requests, WriteFails(r) PROVE FALSE
  BY <1>5, FailEffect
<1>6. ASSUME NEW R \in SUBSET Requests, Crash(R) PROVE FALSE
  BY <1>6, CrashEffect
<1> QED
  BY <1>1, <1>2, <1>3, <1>4, <1>5, <1>6 DEF Next

LEMMA SelectStep ==
    ASSUME TypeOK, SafeInv, SelectInv, Next
    PROVE  SelectInv'
<1> SUFFICES ASSUME faults' = 0
             PROVE  MeetInv' /\ \A p \in RoomProblems \ contested' : Agrees(p)'
  BY DEF SelectInv
<1>1. /\ faults = 0 /\ MeetInv /\ ChangeInv /\ VerdictInv
      /\ \A p \in RoomProblems \ contested : Agrees(p)
  BY FaultsStay DEF SelectInv, SafeInv
<1>2. MeetInv'
  BY <1>1, MeetStep
<1>3. ASSUME NEW p \in RoomProblems \ contested' PROVE Agrees(p)'
  <2>1. p \in RoomProblems \ contested /\ Agrees(p)
    BY <1>1, <1>3, ContestedStays
  <2>2. ASSUME NEW r \in Requests, Change(r) PROVE Agrees(p)'
    BY <1>1, <2>1, <2>2, ChangeAgrees
  <2>3. ASSUME NEW r \in Requests, WriteFails(r) PROVE FALSE
    BY <2>3, FailEffect
  <2>4. ASSUME NEW R \in SUBSET Requests, Crash(R) PROVE FALSE
    BY <2>4, CrashEffect
  <2> QED
    BY <1>1, <2>1, <2>2, <2>3, <2>4, OthersAgree DEF Next, Step, Change
<1> QED
  BY <1>2, <1>3

(* While no change is in flight and nothing failed, only the selected      *)
(* problem is being solved and the selected problem exists, for every      *)
(* problem no change of which met another one, whatever runs and additions *)
(* went on beside the changes.                                             *)
THEOREM SelectionStays == Spec => []SelectionAgrees
<1>1. Init => SelectInv
  <2>1. SUFFICES ASSUME Init PROVE MeetInv /\ \A p \in RoomProblems : Agrees(p)
    BY DEF SelectInv
  <2>2. /\ \A r \in Requests : req[r].pc = "idle"
        /\ selected = None /\ None \notin RoomProblems
        /\ \A p \in RoomProblems : roomProblem[p].status = "absent"
    BY NoneAssumption, <2>1 DEF Init, NoRequest
  <2> QED
    BY <2>2 DEF MeetInv, Changing, Agrees, SolvingIsSelected, SelectedExists, Knows, Current, PastRead, Clearing
<1>2. TypeOK /\ SafeInv /\ SelectInv /\ [Next]_vars => SelectInv'
  <2>1. CASE Next
    BY <2>1, SelectStep
  <2>2. CASE UNCHANGED vars
    BY <2>2 DEF vars, SelectInv, MeetInv, Changing, Agrees, SolvingIsSelected, SelectedExists, Knows, Current, Exists
  <2> QED
    BY <2>1, <2>2
<1>3. SelectInv => SelectionAgrees
  <2> SUFFICES ASSUME SelectInv, faults = 0, \A r \in Requests : ~Changing(r), NEW p \in RoomProblems \ contested
               PROVE  /\ roomProblem[p].status = "solving" => selected = p
                      /\ selected = p => Exists(p)
    BY DEF SelectionAgrees
  <2>1. \A r \in Requests : req[r].pc \notin {"selectRoomSave", "clearRoom"}
    BY DEF Changing, RunPc
  <2> QED
    BY <2>1 DEF SelectInv, Agrees, SolvingIsSelected, SelectedExists
<1> QED
  BY <1>1, <1>2, <1>3, SafeInductive, PTL DEF Spec
=============================================================================
