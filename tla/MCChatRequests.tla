--------------------------- MODULE MCChatRequests ---------------------------
(* ChatRequests for TLC; liveness is checked, so nothing is symmetric. *)
EXTENDS ChatRequests
=============================================================================
