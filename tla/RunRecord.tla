----------------------------- MODULE RunRecord -----------------------------
(***************************************************************************)
(* What the stored documents of a room promise to whoever reads them, as   *)
(* if a run were two atomic steps: it begins on a problem nobody runs and  *)
(* names who runs it, and it ends with a verdict on the status that is     *)
(* stored at that moment.  The promise ends when a run key lapses while    *)
(* its run is alive.                                                       *)
(***************************************************************************)
CONSTANTS Requests, RoomProblems, None

VARIABLES
    status,     \* the status of each problem
    runner,     \* who runs it, or None
    lapsed      \* a run key lapsed under a live run

Stored == {"pending", "solving", "attempted", "solved"}

Init ==
    /\ status = [p \in RoomProblems |-> "absent"]
    /\ runner = [p \in RoomProblems |-> None]
    /\ lapsed = FALSE

\* A person adds, selects or unselects a problem: no run is touched.
Edit(p) ==
    /\ \E s \in Stored \ {"solved"} : status' = [status EXCEPT ![p] = s]
    /\ UNCHANGED <<runner, lapsed>>

\* A person removes a problem, and its run with it.
Remove(p) ==
    /\ status' = [status EXCEPT ![p] = "removed"]
    /\ runner' = [runner EXCEPT ![p] = None]
    /\ UNCHANGED lapsed

Begin(r, p) ==
    /\ status[p] \in Stored
    /\ runner[p] = None
    /\ runner' = [runner EXCEPT ![p] = r]
    /\ UNCHANGED <<status, lapsed>>

\* Whoever runs p ends: it passed, it failed, or it came to no verdict.  What
\* is solved stays solved.
End(p) ==
    /\ runner[p] # None
    /\ \E s \in {status[p], "solved"} \union (IF status[p] = "solved" THEN {} ELSE {"attempted"}) :
          status' = [status EXCEPT ![p] = s]
    /\ runner' = [runner EXCEPT ![p] = None]
    /\ UNCHANGED lapsed

Lapse == lapsed'

Next ==
    \/ \E p \in RoomProblems : Edit(p) \/ Remove(p) \/ End(p)
    \/ \E r \in Requests, p \in RoomProblems : Begin(r, p)
    \/ Lapse

Spec == Init /\ [][Next]_<<status, runner, lapsed>>
============================================================================
