---------------------------- MODULE MCRoomProblem ----------------------------
(* Instances of RoomProblem for TLC. *)
EXTENDS RoomProblem, TLC

\* Requests and room problems are interchangeable: no action singles one out.
Symmetry == Permutations(Requests) \union Permutations(RoomProblems)
============================================================================
