----------------------------- MODULE MCChatClient -----------------------------
(* ChatClient for TLC. *)
EXTENDS ChatClient, TLC

Symmetry == Permutations(Requests) \union Permutations(Dates)
=============================================================================
