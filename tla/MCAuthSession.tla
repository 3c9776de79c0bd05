----------------------------- MODULE MCAuthSession -----------------------------
(* Instances of AuthSession for TLC. *)
EXTENDS AuthSession, TLC

\* Calls are interchangeable.
Symmetry == Permutations(Calls)
================================================================================
