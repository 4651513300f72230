----------------------------- MODULE MCChatTurns -----------------------------
(* Two small instances of ChatClient, side by side. *)
EXTENDS MCChatClient, FiniteSets

VARIABLE instance    \* which of the two a behaviour stays in

Drawn == {r \in Requests : day[r] # None}

\* Several turns without a deployment, or one turn with deployments.
Small == IF instance = "turns" THEN release = 0 ELSE Cardinality(Drawn) <= 1

SmallInit == Init /\ instance \in {"turns", "deployments"}

SmallNext == Next /\ UNCHANGED instance /\ Small'

SmallSpec == SmallInit /\ [][SmallNext]_<<vars, instance>> /\ Fairness
=============================================================================
