----------------------------- MODULE ExactlyOnce -----------------------------
(***************************************************************************)
(* What a durable chat identity promises: whatever is sent, lost, repeated *)
(* or run twice, a request gets one outcome, its plan takes effect exactly *)
(* when that outcome is "applied", and nobody is told anything else.       *)
(***************************************************************************)
EXTENDS Naturals

CONSTANTS
    Requests,       \* request identities
    Outcomes        \* terminal results, among them "applied"

VARIABLES
    outcome,        \* the decided result of each request, "unknown" before
    effects,        \* how often the plan of a request changed the day
    told            \* the results that reached a client

vars == <<outcome, effects, told>>

Init ==
    /\ outcome = [r \in Requests |-> "unknown"]
    /\ effects = [r \in Requests |-> 0]
    /\ told = {}

\* The one decision; its answer may get lost on the way.
Decide(r, o) ==
    /\ outcome[r] = "unknown"
    /\ outcome' = [outcome EXCEPT ![r] = o]
    /\ effects' = IF o = "applied" THEN [effects EXCEPT ![r] = @ + 1] ELSE effects
    /\ told' \in {told, told \union {<<r, o>>}}

Tell(r) ==
    /\ outcome[r] # "unknown"
    /\ told' = told \union {<<r, outcome[r]>>}
    /\ UNCHANGED <<outcome, effects>>

Next == \E r \in Requests : Tell(r) \/ \E o \in Outcomes : Decide(r, o)

Spec == Init /\ [][Next]_vars
=============================================================================
