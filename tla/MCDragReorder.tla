--------------------------- MODULE MCDragReorder ---------------------------
(***************************************************************************)
(* DragReorder for TLC: many days and no other writer, or one day and      *)
(* several.  A step of the grid is two minutes; blocks have odd lengths    *)
(* and odd starts, as imported ones have, and orders that agree with the   *)
(* times or, after a block was added, do not.                              *)
(***************************************************************************)
EXTENDS DragReorder

VARIABLE instance

Stretch(start, length, order) == [start |-> start, end |-> start + length, order |-> order]

Wide == [start |-> 2, end |-> 16]

Narrow == [start |-> 4, end |-> 12]

Orders == {<<0, 1, 2>>, <<1, 0, 2>>, <<0, 0, 0>>}

\* Three blocks in a row, next to each other or with a gap.
Rows ==
    {1 :> Stretch(first, length, order[1])
        @@ 2 :> Stretch(first + length + gap, next, order[2])
        @@ 3 :> Stretch(first + length + gap + next + rest, last, order[3]) :
        first \in {1, 4}, length \in {1, 2}, gap \in 0..2, next \in {2, 3},
        rest \in 0..1, last \in {2, 5}, order \in Orders}

\* Many short blocks, and a long one to drop on them.
Crowd == {[id \in 1..5 |-> IF id < 5 THEN Stretch(id + 1, 1, id) ELSE Stretch(6, 5, 5)]}

Contended == {1 :> Stretch(4, 2, 0) @@ 2 :> Stretch(7, 3, 1)}

AllDays == Rows \union Crowd \union Contended

AllWindows == {Wide, Narrow}

AllPointers == {1, 4, 5, 7, 10, 14}

\* One of them is where a block was before.
FewPlaces == {[start |-> 2, end |-> 3], [start |-> 4, end |-> 6], [start |-> 8, end |-> 10]}

Alone ==
    /\ ~elsewhere /\ seen.window = Wide
    /\ stored.revision = 0 \/ (seen = stored /\ drag = None)
    /\ seen.revision = stored.revision /\ seen.window = stored.window

Fits ==
    IF instance = "alone" THEN Alone ELSE frame \in {None, 1, 7}

SmallInit ==
    /\ DragInit
    /\ \/ instance = "alone" /\ stored.day \in Rows \union Crowd /\ stored.window = Wide
       \/ instance = "contended" /\ stored.day \in Contended

SmallNext ==
    /\ UNCHANGED instance
    /\ DragNext
    /\ Fits'

SmallSpec == SmallInit /\ [][SmallNext]_<<dragVars, instance>>
=============================================================================
