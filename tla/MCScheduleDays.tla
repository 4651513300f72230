---------------------------- MODULE MCScheduleDays ----------------------------
(* Two small instances of ScheduleStore with blocks of one minute. *)
EXTENDS MCScheduleStore

VARIABLE instance    \* which of the two a behaviour stays in

Used == {d \in Dates : status[d] # "absent"}

Capturing == {c \in Clients : view[c] # NoView}

\* One client, two days and two categories.
Reviews2 ==
    /\ Cardinality(Capturing) <= 1
    /\ \A d \in Used : revision[d] < MaxRevision
    /\ catalog \subseteq Seeds

\* Two clients race on one day.
Races == Cardinality(Used) <= 1

Small == IF instance = "reviews" THEN Reviews2 ELSE Races

SmallInit == Init /\ instance \in {"reviews", "races"}

SmallNext == Next /\ UNCHANGED instance /\ Small'

SmallSpec == SmallInit /\ [][SmallNext]_<<vars, instance>>

Symmetry == ClientSymmetry \union DateSymmetry
=============================================================================
