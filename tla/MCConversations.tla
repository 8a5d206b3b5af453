-------------------------- MODULE MCConversations --------------------------
(* Two sessions and two requests, for TLC. *)
EXTENDS Conversations

MCSessions == {1, 2}
MCRequests == {1, 2}
=============================================================================
