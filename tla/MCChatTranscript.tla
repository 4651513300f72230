--------------------------- MODULE MCChatTranscript ---------------------------
(* ChatTranscript for TLC. *)
EXTENDS ChatTranscript

\* Three turns with the page alone, the last one answered at once, or two turns
\* with another writer.
Small ==
    /\ Len(body) = 5 => phase = "live"
    /\ edits = 0 \/ Len(thread) <= 4

SmallNext == Next /\ Small'
=============================================================================
