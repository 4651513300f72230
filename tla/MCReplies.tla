------------------------------ MODULE MCReplies ------------------------------
(***************************************************************************)
(* What becomes of a reply of the language model, for TLC, side by side:   *)
(* the request it answers, the plan of its changes to the day, and the     *)
(* scope of the question it leaves open.  A behaviour is about one of      *)
(* them, its part; the other two rest in an initial state.                 *)
(***************************************************************************)
EXTENDS MCChatRequests, MCMutationPlanner

CONSTANTS Tabs, Ids, Tasks, Values, MaxItems, MaxVersion, MaxContext    \* PendingIntents

VARIABLES part, intent, capture, context, present, answered

Menu ==
    INSTANCE MCPendingIntents
        WITH Turns <- Tabs, turn <- capture, Proposals <- {}, Actions <- {}, MaxActions <- 1

Intents ==
    INSTANCE PendingIntents
        WITH Turns <- Tabs, turn <- capture, Proposals <- Menu!ManyProposals,
             Actions <- Menu!ManyActions, MaxActions <- 1

intentVars == <<intent, capture, context, present, answered>>

NoIntents ==
    /\ intent = None /\ capture = None /\ context = None /\ present = None /\ answered = None

\* One of the days, on which nothing is planned.
NoPlan == PlanInit /\ turn = CHOOSE t \in Turns : TRUE

MCInit ==
    \/ part = "request" /\ Init /\ NoPlan /\ NoIntents
    \/ part = "plan" /\ PlanInit /\ Init /\ NoIntents
    \/ part = "scope" /\ Intents!Init /\ Init /\ NoPlan

\* A plan is made once; that it stops before is a deadlock.
Finished == phase \in {"done", "refused"} /\ UNCHANGED planVars

MCNext ==
    /\ UNCHANGED part
    /\ \/ part = "request" /\ Next /\ UNCHANGED <<planVars, intentVars>>
       \/ part = "plan" /\ (PlanNext \/ Finished) /\ UNCHANGED <<vars, intentVars>>
       \/ part = "scope" /\ Intents!Next /\ UNCHANGED <<vars, planVars>>

allVars == <<part, vars, planVars, intentVars>>

\* Where no request is sent, its fairness asks for nothing.
MCSpec == MCInit /\ [][MCNext]_allVars /\ Fairness

-----------------------------------------------------------------------------

\* The follow-ups of a question never widen what may be edited, and the targets of an open
\* question are blocks of its day (refine_question, finish); requests keep their types.
ScopeNarrows ==
    [][/\ TypeOK'
       /\ part = "scope" =>
             Intents!TypeOK' /\ Intents!TargetsExist' /\ Intents!Narrows]_allVars
=============================================================================
