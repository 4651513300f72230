---------------------------- MODULE MCPendingTurns ----------------------------
(* Two small instances of PendingIntents with two tabs, side by side. *)
EXTENDS MCPendingIntents

VARIABLE instance    \* which of the two a behaviour stays in

Asked == {i \in Ids : intent[i] # NoIntent}

\* Both tabs answer, follow up, cancel and abandon one question.
OneQuestion == Cardinality(Asked) <= 1

\* Both tabs replace one question by another in time, at most one write between.
Replaced == context <= 1 /\ \A i \in Asked : intent[i].version = 1 /\ ~intent[i].expired

Small == IF instance = "answers" THEN OneQuestion ELSE Replaced

SmallInit == Init /\ instance \in {"answers", "replaces"}

SmallNext == Next /\ UNCHANGED instance /\ Small'

SmallSpec == SmallInit /\ [][SmallNext]_<<vars, instance>>
=============================================================================
