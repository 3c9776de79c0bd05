---------------------------- MODULE MCPostReactions ----------------------------
(* Instances of PostReactions. *)
EXTENDS PostReactions, TLC

\* Users and requests are interchangeable.
Symmetry == Permutations(Users) \union Permutations(Requests)

Active == {r \in Requests : req[r].pc \notin {"idle", "done"}}

\* Bound: at most two actors overlap, of the requests and the deletion of the post, and
\* requests that overlap are about the same kind of subject: likes, reposts and comments
\* share nothing but the post.
TwoActors ==
    /\ Cardinality(Active) + (IF job.pc = "none" THEN 0 ELSE 1) <= 2
    /\ \A r, q \in Active : Kind(req[r].of) = Kind(req[q].of)
================================================================================
