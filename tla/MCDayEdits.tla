------------------------------ MODULE MCDayEdits ------------------------------
(***************************************************************************)
(* What edits do to a day, for TLC, side by side: every writer and every   *)
(* interval in the store, and a block dragged on the page.  A behaviour is *)
(* about one of them, its part; the other one rests in an initial state.   *)
(***************************************************************************)
EXTENDS MCScheduleStore, MCDragReorder

VARIABLE part

NoDrag ==
    /\ DragInit /\ stored.day = CHOOSE day \in Days : TRUE
    /\ stored.window = Wide /\ instance = "alone"

MCInit ==
    \/ part = "store" /\ Init /\ NoDrag
    \/ part = "drag" /\ Init /\ SmallInit

\* Between two gestures the page may rest; during one, standing still is a deadlock.
AtRest == drag = None /\ posted = None /\ UNCHANGED <<dragVars, instance>>

MCNext ==
    /\ UNCHANGED part
    /\ \/ part = "store" /\ Next /\ UNCHANGED <<dragVars, instance>>
       \/ part = "drag" /\ (SmallNext \/ AtRest) /\ UNCHANGED vars

MCSpec == MCInit /\ [][MCNext]_<<part, vars, dragVars, instance>>
=============================================================================
