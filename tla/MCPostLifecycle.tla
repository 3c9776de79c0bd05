---------------------------- MODULE MCPostLifecycle ----------------------------
(* Instances of PostLifecycle for TLC. *)
EXTENDS PostLifecycle, TLC

\* Posts, requests of a kind and files are interchangeable.
Symmetry == Permutations(Posts) \union Permutations(Deleters) \union Permutations(CreateFiles)

\* Bound: one post with edits and faults, or two posts without either.
OneOrPlain ==
    \/ Cardinality({p \in Posts : post[p].upload # "absent"}) <= 1
    \/ /\ faults = 0 /\ stored \subseteq Posts \X CreateFiles
       /\ \A e \in Editors : req[e].pc = "idle"

\* Bound: one post with all delete requests, or two that compete for a slot, of
\* which one request at a time deletes the first before it is ready.  Only the
\* creation of posts and the arrival of requests run into this bound.
OneOrCompeting ==
    \/ Cardinality({p \in Posts : post[p].upload # "absent"}) <= 1
    \/ /\ \A d \in Deleters : req[d].target \subseteq {CHOOSE p \in Posts : TRUE} /\ ~req[d].visible
       /\ Cardinality({d \in Deleters : req[d].pc # "idle"}) <= 1
       /\ \A p \in Posts : job[p].pc = "none"
================================================================================
