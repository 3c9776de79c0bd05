----------------------------- MODULE RoomProblem -----------------------------
(***************************************************************************)
(* The problems of one collaboration room and the requests that work on    *)
(* them: ProblemService.runProblem, selectProblem, unselectProblem,        *)
(* removeProblemFromRoom and addProblemToRoom, their Mongo documents and   *)
(* the run lock.                                                           *)
(*                                                                         *)
(* A request is a JavaScript async function: it is interleaved with the    *)
(* other requests at each await and nowhere else.  So one action is one    *)
(* awaited database or Redis operation together with the code up to the    *)
(* next await.  A mongoose save() writes only the paths that were modified *)
(* since the document was loaded, and rejects when the document is gone.   *)
(***************************************************************************)
EXTENDS Naturals, FiniteSets

CONSTANTS
    Requests,       \* requests that may be in flight together
    RoomProblems,   \* RoomProblem ids; an id is never used again once removed
    None,           \* null
    RedisEnabled,   \* env.REDIS_ENABLED: locks in Redis, else in the process
    MaxOverruns,    \* bound: lock TTLs that lapse while their run is alive
    MaxFaults       \* bound: process crashes and failed writes

ASSUME NoneAssumption == None \notin Requests \union RoomProblems
ASSUME RedisAssumption == RedisEnabled \in BOOLEAN
ASSUME BoundAssumption == MaxOverruns \in Nat /\ MaxFaults \in Nat

VARIABLES
    roomProblem,    \* the roomproblems collection: status, exec, by
    selected,       \* CollabRoom.currentlySelectedProblem
    lock,           \* run:<roomProblemId> -> the request that set it
    req,            \* the local state of each request
    contested,      \* history: problems of a change that met another in flight
    overruns,       \* lock TTLs lapsed so far under a run still alive
    faults          \* crashes and failed writes so far

vars == <<roomProblem, selected, lock, req, contested, overruns, faults>>

----------------------------------------------------------------------------
(* Documents.  "absent" is an id not created yet, "removed" one deleted.   *)

StoredStatus == {"pending", "solving", "solved", "attempted"}
Status == StoredStatus \union {"absent", "removed"}

RoomProblemDoc == [status: Status, exec: {"idle", "running"}, by: Requests \union {None}]

Keep == "keep"   \* save() has no modified status to write

\* What save() writes of a path loaded as `loaded` and set to `new`.
Modified(loaded, new) == IF new = loaded THEN Keep ELSE new

Exists(p) == roomProblem[p].status \in StoredStatus

Running(p) == Exists(p) /\ roomProblem[p].exec = "running"

\* What ensureRoomIsNotRunning's findRunningRoomProblem finds.
RoomIsRunning == \E p \in RoomProblems : Running(p)

----------------------------------------------------------------------------
(* Requests.  pc names the operation a request awaits next; seen is the    *)
(* status in the document it loaded, dirty what its save will write, sel   *)
(* the currentlySelectedProblem in the room document it loaded.            *)

RunPc == {"load", "begin", "execute", "finish", "reset", "release"}
SelectPc == {"selectRoom", "selectProblem", "selectPrevious", "selectSave", "selectRoomSave"}
UnselectPc == {"unselectRoom", "unselectProblem", "unselectSave"}
RemovePc == {"removeRoom", "removeProblem", "removeDelete"}
Pc == {"idle", "clearRoom"} \union RunPc \union SelectPc \union UnselectPc \union RemovePc

Request == [pc: Pc, target: RoomProblems \union {None}, seen: Status,
            dirty: StoredStatus \union {Keep}, sel: RoomProblems \union {None}]

NoRequest == [pc |-> "idle", target |-> None, seen |-> "absent", dirty |-> Keep, sel |-> None]

At(r, pc) == req[r].pc = pc
Goto(r, pc) == req' = [req EXCEPT ![r].pc = pc]
Respond(r) == req' = [req EXCEPT ![r] = NoRequest]

\* r is inside the try block of runProblem for p.
RunsOn(r, p) == req[r].pc \in RunPc /\ req[r].target = p

\* The code of r is at the code runner.
Executing(r, p) == At(r, "execute") /\ req[r].target = p

\* A request has a target unless it has none to begin with.
RequestsOK ==
    /\ req \in [Requests -> Request]
    /\ \A r \in Requests :
          /\ req[r].pc \notin {"idle", "unselectRoom"} => req[r].target \in RoomProblems
          /\ req[r].pc = "selectPrevious" => req[r].sel \in RoomProblems

TypeOK ==
    /\ roomProblem \in [RoomProblems -> RoomProblemDoc]
    /\ selected \in RoomProblems \union {None}
    /\ lock \in [RoomProblems -> Requests \union {None}]
    /\ RequestsOK
    /\ contested \subseteq RoomProblems
    /\ overruns \in 0 .. MaxOverruns
    /\ faults \in 0 .. MaxFaults

Init ==
    /\ roomProblem = [p \in RoomProblems |-> [status |-> "absent", exec |-> "idle", by |-> None]]
    /\ selected = None
    /\ lock = [p \in RoomProblems |-> None]
    /\ req = [r \in Requests |-> NoRequest]
    /\ contested = {}
    /\ overruns = 0
    /\ faults = 0

----------------------------------------------------------------------------
(* addProblemToRoom.  The find that precedes the create changes nothing,   *)
(* and the unique index makes the create atomic.                           *)

AddProblem(p) ==
    /\ roomProblem[p].status = "absent"
    /\ roomProblem' = [roomProblem EXCEPT ![p].status = "pending"]
    /\ UNCHANGED <<selected, lock, req, contested, overruns, faults>>

----------------------------------------------------------------------------
(* runProblem.                                                             *)

\* Variant with a bug: SET without NX.
AlwaysFree(p) == TRUE

\* What NX and runLocks.has ask.
KeyIsFree(p) == lock[p] = None

\* Variant with a bug: the finally block is missed on some path.
SkipFinally(r) == Respond(r)

Finally(r) == Goto(r, "release")

\* Variant with a bug: no catch block.
SkipCatch(r) == Goto(r, "release")

Catch(r) == Goto(r, "reset")

\* SET key NX EX, or runLocks.has and runLocks.set in one turn; a key already
\* there is a ConflictError that changes nothing.
RunStart(r, p) ==
    /\ At(r, "idle")
    /\ KeyIsFree(p)
    /\ lock' = [lock EXCEPT ![p] = r]
    /\ req' = [req EXCEPT ![r] = [NoRequest EXCEPT !.pc = "load", !.target = p]]
    /\ UNCHANGED <<roomProblem, selected, contested, overruns, faults>>

\* Variant with a bug: the loaded executionStatus is not looked at.
LoadAnyway(r) ==
    LET p == req[r].target IN
    /\ At(r, "load")
    /\ \/ Finally(r)
       \/ /\ Exists(p)
          /\ req' = [req EXCEPT ![r].pc = "begin", ![r].seen = roomProblem[p].status]
    /\ UNCHANGED <<roomProblem, selected, lock, contested, overruns, faults>>

\* The loaded document decides: a document already running goes through the
\* catch block's reset.  No document, blank code and a load that rejects (with
\* nothing loaded, whatever is stored) go to the finally block.
RunLoad(r) ==
    LET p == req[r].target IN
    /\ At(r, "load")
    /\ \/ Running(p) /\ Catch(r)
       \/ Finally(r)
       \/ /\ Exists(p) /\ ~Running(p)
          /\ req' = [req EXCEPT ![r].pc = "begin", ![r].seen = roomProblem[p].status]
    /\ UNCHANGED <<roomProblem, selected, lock, contested, overruns, faults>>

\* save() of executionStatus running; a document removed meanwhile rejects.
RunBegin(r) ==
    LET p == req[r].target IN
    /\ At(r, "begin")
    /\ \/ /\ Exists(p)
          /\ roomProblem' = [roomProblem EXCEPT ![p].exec = "running", ![p].by = r]
          /\ Goto(r, "execute")
       \/ /\ ~Exists(p)
          /\ Catch(r)
          /\ UNCHANGED roomProblem
    /\ UNCHANGED <<selected, lock, contested, overruns, faults>>

\* Variant with a bug: a failing run overwrites a solved status.
VerdictOfRun(seen, allPassed) == IF allPassed THEN "solved" ELSE "attempted"

\* Variant with a bug: a status the schema does not know.
VerdictFailed(seen, allPassed) ==
    IF allPassed \/ seen = "solved" THEN "solved" ELSE "failed"

\* The status runProblem leaves in its document after a run that ended.
Verdict(seen, allPassed) ==
    IF allPassed \/ seen = "solved" THEN "solved" ELSE "attempted"

\* runTestCases answers (all passed or not) or throws.
RunExecute(r) ==
    /\ At(r, "execute")
    /\ \/ \E allPassed \in BOOLEAN :
            req' = [req EXCEPT ![r].pc = "finish",
                               ![r].dirty = Modified(req[r].seen, Verdict(req[r].seen, allPassed))]
       \/ Catch(r)
    /\ UNCHANGED <<roomProblem, selected, lock, contested, overruns, faults>>

\* What a save() that ends a run makes of the stored document d.
Ended(d, dirty) ==
    [status |-> IF dirty = Keep THEN d.status ELSE dirty, exec |-> "idle", by |-> None]

\* The save of the result; when it rejects the in-memory executionStatus is
\* already idle, so the catch block resets nothing.
RunFinish(r) ==
    LET p == req[r].target IN
    /\ At(r, "finish")
    /\ roomProblem' = IF Exists(p)
                      THEN [roomProblem EXCEPT ![p] = Ended(@, req[r].dirty)]
                      ELSE roomProblem
    /\ Finally(r)
    /\ UNCHANGED <<selected, lock, contested, overruns, faults>>

\* The catch block's save of executionStatus idle.
RunReset(r) ==
    LET p == req[r].target IN
    /\ At(r, "reset")
    /\ roomProblem' = IF Exists(p)
                      THEN [roomProblem EXCEPT ![p] = Ended(@, Keep)]
                      ELSE roomProblem
    /\ Finally(r)
    /\ UNCHANGED <<selected, lock, contested, overruns, faults>>

\* The finally block: DEL of the key, whoever set it.
RunRelease(r) ==
    /\ At(r, "release")
    /\ lock' = [lock EXCEPT ![req[r].target] = None]
    /\ Respond(r)
    /\ UNCHANGED <<roomProblem, selected, contested, overruns, faults>>

----------------------------------------------------------------------------
(* selectProblem, unselectProblem, removeProblemFromRoom.  Each starts by  *)
(* ensureRoomIsNotRunning, whose ConflictError changes nothing, and then   *)
(* reads the room.                                                         *)

Changing(r) == req[r].pc \notin RunPc \union {"idle"}

\* The problems that the changes of R are about; an unselection that has not
\* read the room is about none yet.
Touched(R) == {req[r].target : r \in R} \ {None}

\* A change that starts while others are in flight is contested, and so are they.
Contest(p) ==
    LET others == {s \in Requests : Changing(s)} IN
    contested' = IF others = {} THEN contested ELSE contested \union ({p} \ {None}) \union Touched(others)

ChangeStart(r, pc, p) ==
    /\ At(r, "idle")
    /\ ~RoomIsRunning
    /\ req' = [req EXCEPT ![r] = [NoRequest EXCEPT !.pc = pc, !.target = p]]
    /\ Contest(p)
    /\ UNCHANGED <<roomProblem, selected, lock, overruns, faults>>

SelectStart(r, p) == ChangeStart(r, "selectRoom", p)

SelectRoom(r) ==
    /\ At(r, "selectRoom")
    /\ req' = [req EXCEPT ![r].pc = "selectProblem", ![r].sel = selected]
    /\ UNCHANGED <<roomProblem, selected, lock, contested, overruns, faults>>

\* What selecting writes over a status.
SelectedStatus(status) == IF status = "solved" THEN Keep ELSE Modified(status, "solving")

SelectProblem(r) ==
    LET p == req[r].target
        changesRoom == req[r].sel \notin {None, p}
    IN
    /\ At(r, "selectProblem")
    /\ \/ ~Exists(p) /\ Respond(r)
       \/ /\ Exists(p)
          /\ req' = [req EXCEPT ![r].pc = IF changesRoom THEN "selectPrevious" ELSE "selectSave",
                                ![r].seen = roomProblem[p].status,
                                ![r].dirty = SelectedStatus(roomProblem[p].status)]
    /\ UNCHANGED <<roomProblem, selected, lock, contested, overruns, faults>>

\* updateAttemptedProblem: one findOneAndUpdate, only where status is solving.
SelectPrevious(r) ==
    LET q == req[r].sel IN
    /\ At(r, "selectPrevious")
    /\ roomProblem' = IF roomProblem[q].status = "solving"
                      THEN [roomProblem EXCEPT ![q].status = "attempted"]
                      ELSE roomProblem
    /\ Goto(r, "selectSave")
    /\ UNCHANGED <<selected, lock, contested, overruns, faults>>

\* save() of a status: the modified path, or a rejection.
SaveStatus(r, next) ==
    LET p == req[r].target IN
    /\ \/ /\ ~Exists(p)
          /\ Respond(r)
          /\ UNCHANGED roomProblem
       \/ /\ Exists(p)
          /\ roomProblem' = IF req[r].dirty = Keep THEN roomProblem
                            ELSE [roomProblem EXCEPT ![p].status = req[r].dirty]
          /\ Goto(r, next)
    /\ UNCHANGED <<selected, lock, contested, overruns, faults>>

SelectSave(r) == At(r, "selectSave") /\ SaveStatus(r, "selectRoomSave")

\* collabRoom.save(): nothing to write when the room was loaded with p selected.
SelectRoomSave(r) ==
    /\ At(r, "selectRoomSave")
    /\ selected' = IF req[r].sel = req[r].target THEN selected ELSE req[r].target
    /\ Respond(r)
    /\ UNCHANGED <<roomProblem, lock, contested, overruns, faults>>

UnselectStart(r) == ChangeStart(r, "unselectRoom", None)

UnselectRoom(r) ==
    /\ At(r, "unselectRoom")
    /\ \/ selected = None /\ Respond(r)
       \/ /\ selected # None
          /\ req' = [req EXCEPT ![r].pc = "unselectProblem", ![r].target = selected]
    /\ UNCHANGED <<roomProblem, selected, lock, contested, overruns, faults>>

UnselectProblem(r) ==
    LET p == req[r].target
        status == roomProblem[p].status
    IN
    /\ At(r, "unselectProblem")
    /\ IF Exists(p) /\ status # "solved"
       THEN req' = [req EXCEPT ![r].pc = "unselectSave", ![r].seen = status,
                               ![r].dirty = Modified(status, "attempted")]
       ELSE Goto(r, "clearRoom")
    /\ UNCHANGED <<roomProblem, selected, lock, contested, overruns, faults>>

UnselectSave(r) == At(r, "unselectSave") /\ SaveStatus(r, "clearRoom")

RemoveStart(r, p) == ChangeStart(r, "removeRoom", p)

RemoveRoom(r) ==
    /\ At(r, "removeRoom")
    /\ req' = [req EXCEPT ![r].pc = "removeProblem", ![r].sel = selected]
    /\ UNCHANGED <<roomProblem, selected, lock, contested, overruns, faults>>

RemoveProblem(r) ==
    /\ At(r, "removeProblem")
    /\ IF Exists(req[r].target) THEN Goto(r, "removeDelete") ELSE Respond(r)
    /\ UNCHANGED <<roomProblem, selected, lock, contested, overruns, faults>>

\* Variant with a bug: the room keeps pointing at the problem it removed.
NeverSelected(r) == FALSE

WasSelected(r) == req[r].sel = req[r].target

\* findOneAndDelete answers null, and removal goes on, when it was deleted meanwhile.
RemoveDelete(r) ==
    LET p == req[r].target IN
    /\ At(r, "removeDelete")
    /\ roomProblem' = [roomProblem EXCEPT
                          ![p] = [status |-> "removed", exec |-> "idle", by |-> None]]
    /\ IF WasSelected(r) THEN Goto(r, "clearRoom") ELSE Respond(r)
    /\ UNCHANGED <<selected, lock, contested, overruns, faults>>

\* collabRoom.save() of currentlySelectedProblem null, loaded as something else.
ClearRoom(r) ==
    /\ At(r, "clearRoom")
    /\ selected' = None
    /\ Respond(r)
    /\ UNCHANGED <<roomProblem, lock, contested, overruns, faults>>

----------------------------------------------------------------------------
(* The environment.                                                        *)

\* Variant with a bug: SET without EX.
NoTTL == FALSE

HasTTL == RedisEnabled

\* The TTL of the key of p lapses.  It overruns when its run is still alive.
Expire(p) ==
    LET overrun == RunsOn(lock[p], p) IN
    /\ HasTTL
    /\ lock[p] # None
    /\ overrun => overruns < MaxOverruns
    /\ lock' = [lock EXCEPT ![p] = None]
    /\ overruns' = IF overrun THEN overruns + 1 ELSE overruns
    /\ UNCHANGED <<roomProblem, selected, req, contested, faults>>

\* A process dies with its requests R.  Without Redis there is one process,
\* and its runLocks die with it; Redis keeps the keys until their TTL lapses.
Crash(R) ==
    /\ faults < MaxFaults
    /\ \E r \in R : ~At(r, "idle")
    /\ ~RedisEnabled => R = Requests
    /\ req' = [r \in Requests |-> IF r \in R THEN NoRequest ELSE req[r]]
    /\ lock' = IF RedisEnabled THEN lock ELSE [p \in RoomProblems |-> None]
    /\ faults' = faults + 1
    /\ UNCHANGED <<roomProblem, selected, contested, overruns>>

\* Where an operation that rejects sends its request.
AfterFailure(pc) ==
    CASE pc = "begin" -> "reset"
      [] pc \in {"finish", "reset"} -> "release"
      [] OTHER -> "idle"

\* The awaited write of r rejects (a lost connection) and changes nothing.
WriteFails(r) ==
    /\ faults < MaxFaults
    /\ req[r].pc \in {"begin", "finish", "reset", "selectPrevious", "selectSave", "selectRoomSave",
                      "unselectSave", "removeDelete", "clearRoom"}
         \union (IF RedisEnabled THEN {"release"} ELSE {})
    /\ IF AfterFailure(req[r].pc) = "idle" THEN Respond(r) ELSE Goto(r, AfterFailure(req[r].pc))
    /\ faults' = faults + 1
    /\ UNCHANGED <<roomProblem, selected, lock, contested, overruns>>

----------------------------------------------------------------------------

\* The next await of r settles.
Step(r) ==
    \/ RunLoad(r) \/ RunBegin(r) \/ RunExecute(r) \/ RunFinish(r) \/ RunReset(r) \/ RunRelease(r)
    \/ SelectRoom(r) \/ SelectProblem(r) \/ SelectPrevious(r) \/ SelectSave(r) \/ SelectRoomSave(r)
    \/ UnselectRoom(r) \/ UnselectProblem(r) \/ UnselectSave(r)
    \/ RemoveRoom(r) \/ RemoveProblem(r) \/ RemoveDelete(r) \/ ClearRoom(r)

Next ==
    \/ \E p \in RoomProblems : AddProblem(p) \/ Expire(p)
    \/ \E r \in Requests : Step(r) \/ WriteFails(r) \/ UnselectStart(r)
    \/ \E r \in Requests, p \in RoomProblems :
            RunStart(r, p) \/ SelectStart(r, p) \/ RemoveStart(r, p)
    \/ \E R \in SUBSET Requests : Crash(R)

Spec == Init /\ [][Next]_vars

\* Awaited operations settle (the code runner answers or rejects) and the key
\* of a run that is over lapses.  Nothing makes a user send a request.
FairSpec ==
    /\ Spec
    /\ \A r \in Requests : WF_vars(Step(r))
    /\ \A p \in RoomProblems : WF_vars(lock[p] # None /\ ~RunsOn(lock[p], p) /\ Expire(p))

----------------------------------------------------------------------------
(* Properties.                                                             *)

(* The run lock: until a TTL lapses under a live run, at most one request  *)
(* is inside runProblem's try block for a room problem, from its load of   *)
(* the document to its DEL, whatever crashed or failed before.             *)
RunMutex ==
    overruns = 0 =>
        \A p \in RoomProblems : \A r, s \in Requests :
            RunsOn(r, p) /\ RunsOn(s, p) => r = s

(* While code is at the runner the stored document says so and names the   *)
(* request: that is what ensureRoomIsNotRunning and a reloading client go  *)
(* by.  No other request may have reset it (the catch block of a second    *)
(* runProblem would) until a TTL lapses under a live run.                  *)
RunVisible ==
    overruns = 0 =>
        \A p \in RoomProblems, r \in Requests :
            Executing(r, p) /\ Exists(p)
                => roomProblem[p].exec = "running" /\ roomProblem[p].by = r

(* A stored running status is never an orphan unless a process crashed or  *)
(* a write failed: the request it names is still on its way to save idle,  *)
(* even where lapsed locks let several runs of the problem overlap.        *)
NoOrphanRunning ==
    faults = 0 =>
        \A p \in RoomProblems : Running(p) =>
            \E r \in Requests : /\ roomProblem[p].by = r
                                /\ req[r].target = p
                                /\ req[r].pc \in {"execute", "finish", "reset"}

(* A solved status is taken back only by a request that read the problem   *)
(* before it was solved: by a run that fails only where a TTL lapsed under *)
(* a live run, since until then the key keeps the other runs away that     *)
(* could have solved it, or by a selection or unselection that was already *)
(* past its read when the run got in.                                      *)
SolvedIsKept ==
    [][\A p \in RoomProblems :
          roomProblem[p].status = "solved" /\ roomProblem'[p].status \in StoredStatus \ {"solved"}
            => \E r \in Requests : /\ req[r].target = p
                                   /\ req[r].seen # "solved"
                                   /\ req'[r] # req[r]
                                   /\ \/ At(r, "finish") /\ overruns > 0
                                      \/ req[r].pc \in {"selectSave", "unselectSave"}]_vars

(* A key is held only by a live run when locks live in the process: every  *)
(* path out of runProblem, and a restart, gives the key back.              *)
NoLeakedLock ==
    ~RedisEnabled => \A p \in RoomProblems : lock[p] # None => RunsOn(lock[p], p)

(* Every run ends, under lapsing locks too: a problem that is running      *)
(* stops running, unless a process crashes or a write fails (nothing in    *)
(* the code resets such a document), and even then its key goes.           *)
RunSettles ==
    \A p \in RoomProblems :
        /\ Running(p) ~> ~Running(p) \/ faults > 0
        /\ lock[p] # None ~> lock[p] = None

(* While no selection, unselection or removal is in flight, and unless a   *)
(* process crashed or a write failed, the room and its problems agree:     *)
(* only the selected problem is being solved, and the selected problem     *)
(* exists.  Runs and additions may overlap such a change as they like.     *)
(* Two changes that overlap may leave the room wrong, but only about the   *)
(* problems they were about.                                               *)
SelectionAgrees ==
    faults = 0 /\ (\A r \in Requests : ~Changing(r)) =>
        \A p \in RoomProblems \ contested :
            /\ roomProblem[p].status = "solving" => selected = p
            /\ selected = p => Exists(p)

(* Until a TTL lapses under a live run, a run is atomic for whoever reads  *)
(* the stored document: it begins on a problem that nobody runs, and its   *)
(* verdict is right about the status stored when it ends, not only about   *)
(* the one it loaded (RunRecord).                                          *)
StatusOf == [p \in RoomProblems |-> roomProblem[p].status]
RunnerOf == [p \in RoomProblems |-> roomProblem[p].by]
Lapsed == overruns > 0

Record == INSTANCE RunRecord WITH status <- StatusOf, runner <- RunnerOf, lapsed <- Lapsed

RunIsAtomic == Record!Spec
============================================================================
