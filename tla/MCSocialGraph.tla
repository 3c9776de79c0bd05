---------------------------- MODULE MCSocialGraph ----------------------------
(* Instances of SocialGraph. *)
EXTENDS SocialGraph
==============================================================================
