-------------------------- MODULE MCCollabPresence --------------------------
(* Instances of CollabPresence for TLC. *)
EXTENDS CollabPresence, TLC

\* No action singles out a socket or a user.
Symmetry == Permutations(Sockets) \union Permutations(Users)

Wait(kinds) == \E h \in waiting : h.what \in kinds

\* Bound: code and runs, or audio and calls, which share no state but the room's presence.
OneSubject ==
    \/ ~Wait({"code", "run"}) /\ scheduled = NoSave /\ runs = {} /\ ran = {}
    \/ ~Wait({"voice", "request", "answer"}) /\ audio = {} /\ voiceRooms = {} /\ activeCall = None
=============================================================================
