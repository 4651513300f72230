----------------------------- MODULE MCChatThreads -----------------------------
(***************************************************************************)
(* How one turn of a chat follows another, for TLC, side by side: the open *)
(* question two tabs answer, and the thread one page sends.  A behaviour   *)
(* is about one of them, its part.                                         *)
(***************************************************************************)
EXTENDS MCPendingTurns

CONSTANTS Titles, Words, MaxBlocks, MaxMessages, MaxEdits    \* ChatTranscript

VARIABLES
    part, thread, body, sent, phase, captured, reply, day, rev, created, edits, shown, seen

Thread == INSTANCE MCChatTranscript

intentVars == <<vars, instance>>
threadVars ==
    <<thread, body, sent, phase, captured, reply, day, rev, created, edits, shown, seen>>

NoThread ==
    /\ thread = None /\ body = None /\ sent = None /\ phase = None /\ captured = None
    /\ reply = None /\ day = None /\ rev = None /\ created = None /\ edits = None
    /\ shown = None /\ seen = None

MCInit ==
    \/ part = "intents" /\ SmallInit /\ NoThread
    \/ part = "thread" /\ Thread!Init /\ Init /\ instance = None

MCNext ==
    /\ UNCHANGED part
    /\ \/ part = "intents" /\ SmallNext /\ UNCHANGED threadVars
       \/ part = "thread" /\ Thread!SmallNext /\ UNCHANGED intentVars

allVars == <<part, intentVars, threadVars>>

MCSpec == MCInit /\ [][MCNext]_allVars

-----------------------------------------------------------------------------
(* The properties of the parts *)

\* An add that was applied is not applied again by a later turn, and the thread, the
\* day and the page's copy keep their types (find_replayed_actions).
NeverTwice == [][part = "thread" => Thread!TypeOK' /\ Thread!AddedOnce]_allVars

\* A retry of what was never handled is not taken for a replay (find_replayed_actions).
RetryPasses == [][part = "thread" => Thread!RetryHolds]_allVars
=============================================================================
