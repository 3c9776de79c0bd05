----------------------------- MODULE MCSavedPosts -----------------------------
(* Instances of SavedPosts for TLC. *)
EXTENDS SavedPosts, TLC

\* Requests are interchangeable.
Symmetry == Permutations(Requests)

\* Requests one after the other; or fewer at the same time, fewer still beside deletions.
LongOrMixed == (~mixed /\ ~late) \/ started <= 3 \/ (started <= 4 /\ visible = Posts)
===============================================================================
