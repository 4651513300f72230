--------------------------- MODULE OptimisticDays ---------------------------
(***************************************************************************)
(* What the schedule store promises its clients: days are registers under  *)
(* optimistic control.  A client captures one day and may later replace    *)
(* it, provided the day still has the content it captured; the server's    *)
(* own maintenance may rewrite days at any time.                           *)
(***************************************************************************)
CONSTANTS
    Clients,
    Dates,
    Contents,       \* what a day can hold
    NewDay          \* the content of a day nobody wrote

VARIABLES
    content,        \* content of each day
    seen            \* the day each client captured last, and its content

vars == <<content, seen>>

Nothing == [date |-> "none"]

Saw(d, held) == [date |-> d, content |-> held]

Init ==
    /\ content = [d \in Dates |-> NewDay]
    /\ seen = [c \in Clients |-> Nothing]

Read(c, d) ==
    /\ seen' = [seen EXCEPT ![c] = Saw(d, content[d])]
    /\ UNCHANGED content

Write(c, d) ==
    /\ seen[c] = Saw(d, content[d])
    /\ \E new \in Contents :
        /\ content' = [content EXCEPT ![d] = new]
        /\ seen' = [seen EXCEPT ![c] = Saw(d, new)]

Maintain ==
    /\ content' \in [Dates -> Contents]
    /\ UNCHANGED seen

Next ==
    \/ \E c \in Clients, d \in Dates : Read(c, d) \/ Write(c, d)
    \/ Maintain

Spec == Init /\ [][Next]_vars
=============================================================================
