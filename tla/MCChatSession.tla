--------------------------- MODULE MCChatSession ---------------------------
(* ChatSession for TLC: three questions, a history of two turns. *)
EXTENDS ChatSession
=============================================================================
