--------------------------- MODULE MCConversation ---------------------------
(* Instances of Conversation for TLC. *)
EXTENDS Conversation, TLC

\* No action singles out a user or a request.
Symmetry == Permutations(Users) \union Permutations(Requests)

\* Two requests when somebody deletes their account or a group has no room yet, else three.
TwoWhenIncomplete ==
    gone # {} \/ (isGroup /\ ~room /\ job = "none") => started <= 2
=============================================================================
