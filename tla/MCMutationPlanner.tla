-------------------------- MODULE MCMutationPlanner --------------------------
(* Small days of MutationPlanner: a grid of two minutes, 18 minutes a day. *)
EXTENDS MutationPlanner

Blank ==
    [type |-> "add", task |-> None, start |-> None, end |-> None, duration |-> None,
     delta |-> None, direction |-> None, label |-> None]

Move(t, s) == [Blank EXCEPT !.type = "move", !.task = t, !.start = s]
MoveTo(t, s, e) == [Move(t, s) EXCEPT !.end = e]
ResizeTo(t, e) == [Blank EXCEPT !.type = "resize", !.task = t, !.end = e]
Last(t, n) == [Blank EXCEPT !.type = "resize", !.task = t, !.duration = n]
Longer(t, n) == [Blank EXCEPT !.type = "resize", !.task = t, !.delta = n]
Rename(t) == [Blank EXCEPT !.type = "update", !.task = t, !.label = "new"]
Shift(t, s, d) == [Rename(t) EXCEPT !.start = s, !.direction = d]
Remove(t) == [Blank EXCEPT !.type = "remove", !.task = t]
Add(s, e) == [Blank EXCEPT !.label = "new", !.start = s, !.end = e]
AddUntimed(n) == [Blank EXCEPT !.label = "new", !.duration = n]

Block(s, e) == [start |-> s, end |-> e, label |-> "old"]

Tomorrow == [today |-> FALSE, minutes |-> 0, leftover |-> FALSE]
Today(m, l) == [today |-> TRUE, minutes |-> m, leftover |-> l]

Turn(day, window, now, gap, offers) ==
    [day |-> day, window |-> window, now |-> now, gap |-> gap, offers |-> offers]

Window(s, e) == [start |-> s, end |-> e]

\* Several actions on one block, among them lengths that cannot be had.
Chains ==
    {Turn(<<b, Block(12, 14)>>, Window(2, 14), Tomorrow, 0,
          {Move(1, 0), Move(1, 4), Move(1, 12), Move(1, 16), ResizeTo(1, 10), Last(1, 2), Last(1, 8),
           Longer(1, 2), Longer(1, -4), Longer(1, 14), Rename(1), Remove(1), Move(2, 8),
           MoveTo(1, 5, 12)}) :
        b \in {Block(4, 8), Block(5, 8), Block(4, 7), Block(0, 6)}}

\* Three blocks change places or run into each other.
Rivals3 ==
    {Turn(<<Block(2, 4), Block(4, 8), Block(10, 12)>>, Window(2, 14), Tomorrow, 0,
          {Move(1, 4), Move(1, 10), Move(2, 2), Move(2, 6), Move(2, 10), Move(3, 4),
           Move(3, 12), Add(6, 10), Add(12, 16), Rename(3), Remove(2)})}

\* Untimed additions into a day with holes.
Holes ==
    {Turn(day, Window(2, 14), now, gap,
          {AddUntimed(None), AddUntimed(2), AddUntimed(6), Add(8, 10), Remove(1)}) :
        day \in {<<Block(6, 8)>>, <<Block(7, 9)>>, <<Block(2, 5), Block(10, 14)>>, <<Block(0, 3), Block(8, 12)>>},
        now \in {Tomorrow, Today(3, FALSE), Today(8, TRUE), Today(13, TRUE)},
        gap \in {0, 2, 3, 4}}

\* Refused moves with a direction to look in.
Directions ==
    {Turn(<<Block(2, 6), Block(8, 10), Block(12, 15)>>, Window(2, 16), Tomorrow, 0,
          UNION {{Shift(1, 8, d), Shift(1, 11, d), Shift(2, 4, d), Shift(3, 8, d)} :
                    d \in {"later", "earlier", "exact"}}
          \union {Remove(2), MoveTo(3, 6, 8)})}

SomeTurns == Chains \union Rivals3 \union Holes \union Directions
=============================================================================
